SPECIFICATION SumSpec
CONSTANTS
  Roles <- MCRoles
  HasRoles = FALSE
  Configured = {"c", "d"}
  WritableClusters = {"c"}
  InternalTopics = {"_i"}
  Topics = {"t", "_i"}
  MaxPartitions = 2
  Brokers = {"b1"}
  MaxOffset = 3
  MaxRequests = 1
  MaxOthers = 1
  References <- MCReferences
  Accesses <- MCAccesses
  SchemaTypes <- MCSchemaTypes
  FieldNames <- MCFieldNames
  Topic <- MCTopic
  Policies <- MCPolicies
  Needles <- MCNeedles
  Fallbacks <- MCFallbacks
  Records <- MCRecords
  Words <- MCWords
  Tokens <- MCTokens
  Hashes <- MCHashes
  MaxReads = 1
INVARIANTS SettleCanEnd OkMeansTaken ResetInLog
  ReferencesFirst NoSecretShown FilterMatchesView VerbatimReproduces
PROPERTIES ChangesAreAdmitted OnlyWhatWasNamed
CHECK_DEADLOCK FALSE
