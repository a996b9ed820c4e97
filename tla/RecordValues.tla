---------------------------- MODULE RecordValues ----------------------------
(***************************************************************************)
(* What a page, a tail or an export shows of a record: the payload decoded  *)
(* with a schema of the registry, hidden by the obfuscation rule of its      *)
(* topic, searched by the filter and rendered as text, with the caches of    *)
(* the decoder and a registry that comes and goes.                           *)
(*                                                                         *)
(* A document is a set of objects (one, or the elements of an array), an     *)
(* object maps paths to words, and a text is [form, words]: what wrote it    *)
(* and which words a search finds in it.                                     *)
(***************************************************************************)
EXTENDS Naturals, Sequences, SequencesExt

CONSTANTS SchemaTypes,   \* schema id -> type
          FieldNames,    \* schema id -> the names it gives to a writer's fields
          Topic, Policies, Needles, Fallbacks, Records, MaxReads,
          Words,         \* what is written in records
          Tokens,        \* what stands in the place of a word
          Hashes         \* the token of a word, or of a token

VARIABLES policy, needle, decodes, fallback,        \* of the query
          there, up,                                \* the registry
          codecs, missing, failed,                  \* the decoder's caches
          raw, passage, kept,                         \* the record on its way
          page,                                     \* what the page shows of it
          judged,    \* history: the schemas at hand when it was turned away
          reads

query == <<policy, needle, decodes, fallback>>
registry == <<there, up>>
caches == <<codecs, missing, failed>>
valueVars == <<query, registry, caches, raw, passage, kept, page, judged, reads>>

Ids == DOMAIN SchemaTypes
NoId == 0
Absent == [none |-> TRUE]
NoTree == {}
MASK == "***"
HASH == "kx:text"        \* the token of a whole payload

\* The configuration of a rule and of the topics it is for.
Strategies == {"mask", "hash", "drop"}
IsPattern(pattern) == pattern.prefix \in BOOLEAN /\ pattern.name \in Seq(Range(pattern.name))
IsRule(rule) ==
  /\ rule # Absent
  /\ rule.fields \in Seq(Range(rule.fields)) /\ rule.patterns \in Seq(Range(rule.patterns))
  /\ \A field \in Range(rule.fields) : field.strategy \in Strategies
  /\ \A p \in Range(rule.patterns) : p.strategy \in Strategies /\ p.words \subseteq Words
  /\ {rule.key, rule.value} \subseteq Strategies \union {"none"}
  /\ rule.unparsed \in {"mask", "allow"}

WordsOf(doc) == UNION {{object[path] : path \in DOMAIN object} : object \in doc}

\* A record of a topic: its payloads in a frame of the registry or in none, and
\* its header.
IsRecord(record) ==
  /\ record \in [key : {record.key}, value : {record.value},
                 header : [name : {record.header.name}, value : {record.header.value},
                           utf8 : BOOLEAN]]
  /\ \A payload \in {record.key, record.value} \ {Absent} : WordsOf(payload.doc) \subseteq Words
  /\ record.header.value # Absent =>
       record.header.value \in [form : {record.header.value.form}, words : SUBSET Words]

ASSUME ValuesAssumption ==
  /\ MaxReads \in Nat /\ NoId \notin Ids /\ Fallbacks \subseteq Ids \union {NoId}
  /\ DOMAIN FieldNames = Ids
  /\ \A id \in Ids : \A p, q \in DOMAIN FieldNames[id] :
       FieldNames[id][p] = FieldNames[id][q] => p = q
  /\ Topic \in Seq(Range(Topic))
  /\ Words \intersect Tokens = {} /\ {MASK, HASH} \subseteq Tokens
  /\ Hashes \in [Words \union Tokens -> Tokens]
  /\ \A rules \in Policies : \A i \in DOMAIN rules :
       /\ i \in Nat /\ IsRule(rules[i].rule)
       /\ \A pattern \in Range(rules[i].topics) : IsPattern(pattern)
  /\ \A record \in Records : IsRecord(record)

-----------------------------------------------------------------------------
(* Obfuscation rules by topic *)

Matches(pattern, topic) ==
  IF pattern.prefix THEN IsPrefix(pattern.name, topic) ELSE pattern.name = topic

\* TopicPattern::overlaps, as if a prefix overlapped only with itself.
OverlapsEqual(left, right) == left = right

Overlaps(left, right) ==
  CASE ~left.prefix /\ ~right.prefix -> left.name = right.name
    [] left.prefix /\ ~right.prefix -> IsPrefix(left.name, right.name)
    [] ~left.prefix /\ right.prefix -> IsPrefix(right.name, left.name)
    [] OTHER -> IsPrefix(left.name, right.name) \/ IsPrefix(right.name, left.name)

\* A configuration in which two patterns overlap does not load.
Disjoint(rules) ==
  \A i, j \in DOMAIN rules :
    \A a \in DOMAIN rules[i].topics, b \in DOMAIN rules[j].topics :
      <<i, a>> # <<j, b>> => ~Overlaps(rules[i].topics[a], rules[j].topics[b])

NoRule == [fields |-> <<>>, patterns |-> <<>>, key |-> "none", value |-> "none",
           headers |-> {}, unparsed |-> "mask"]

\* The exact names first, then the first prefix.
ForTopic(rules, topic) ==
  LET having(prefix) ==
        {i \in DOMAIN rules : \E p \in Range(rules[i].topics) :
                                p.prefix = prefix /\ Matches(p, topic)} IN
  IF having(FALSE) # {} THEN rules[CHOOSE i \in having(FALSE) : TRUE].rule
  ELSE IF having(TRUE) = {} THEN Absent
  ELSE rules[CHOOSE i \in having(TRUE) : \A j \in having(TRUE) : i <= j].rule

Obfuscator == ForTopic(policy, Topic)
Obfuscated == Obfuscator # Absent
Rule == IF Obfuscated THEN Obfuscator ELSE NoRule

HidesPayload(rule) ==
  rule.fields # <<>> \/ rule.patterns # <<>> \/ rule.key # "none" \/ rule.value # "none"

-----------------------------------------------------------------------------
(* Payloads and their text *)

Token(word) == Hashes[word]

\* The forms that are told by their codec only.
BinaryForms == {"AVRO", "PROTOBUF"}

IsUtf8(payload) == payload.form \notin BinaryForms

RenderRaw(payload) ==
  [form |-> IF IsUtf8(payload) THEN <<payload.frame, payload.form>> ELSE <<"lossy">>,
   words |-> WordsOf(payload.doc)]

JsonText(doc) == [form |-> <<"none", "JSON">>, words |-> WordsOf(doc)]
Redacted(words) == [form |-> <<"redacted">>, words |-> words]

\* Framing::of: the id a wire prefix names, or the one the query falls back to.
Framing(payload, backup) == IF payload.frame # "none" THEN payload.id ELSE backup

NeedsDecode(payload, backup) == Framing(payload, backup) # NoId

\* Only values fall back.
Backup(field) == IF field = "key" THEN NoId ELSE fallback

\* The fields an object has by the names of a schema, which are known on the
\* wire by number or place only; those the schema does not have are skipped.
Renamed(object, names) ==
  LET known == DOMAIN object \cap DOMAIN names IN
  [name \in {names[path] : path \in known} |->
     object[CHOOSE path \in known : names[path] = name]]

\* Resolved::decode.  A document carries its own names as JSON, and those of
\* the schema it was written with in a frame; a message without one is read
\* as the first of the file that the query chose, with its names.
ReadWith(payload, id) ==
  IF payload.frame # "none" \/ payload.form \notin BinaryForms \/ id = NoId THEN payload.doc
  ELSE {Renamed(object, FieldNames[id]) : object \in payload.doc}

\* The form of a payload says which schemas its bytes parse with.
Fits(payload, id) == payload.form = SchemaTypes[id]

\* A slot that was taken: [raw, json, text], the text once it was rendered.
Decoded(payload, backup, resolved) ==
  LET id == Framing(payload, backup) IN
  [raw |-> payload, text |-> Absent,
   json |-> IF decodes /\ id \in resolved /\ Fits(payload, id)
            THEN ReadWith(payload, id) ELSE NoTree]

Text(slot) ==
  IF slot.text # Absent THEN slot.text
  ELSE IF slot.json # NoTree THEN JsonText(slot.json)
  ELSE IF slot.raw = Absent THEN Redacted({}) ELSE RenderRaw(slot.raw)

RedactWith(text) == [raw |-> Absent, json |-> NoTree, text |-> text]

-----------------------------------------------------------------------------
(* TopicObfuscator::apply *)

\* walk: every object on the way, and only the path that was named.
Walk(doc, path, strategy) ==
  {IF path \notin DOMAIN object THEN object
   ELSE IF strategy = "drop"
        THEN [other \in DOMAIN object \ {path} |-> object[other]]
        ELSE [object EXCEPT ![path] = IF strategy = "mask" THEN MASK ELSE Token(@)] :
     object \in doc}

\* The document after each of the fields.
AfterFields(fields, doc) ==
  LET edited[i \in 0..Len(fields)] ==
        IF i = 0 THEN doc ELSE Walk(edited[i - 1], fields[i].path, fields[i].strategy)
  IN edited

EditFields(rule, doc) == AfterFields(rule.fields, doc)[Len(rule.fields)]

\* CompiledPattern::apply
Replaced(p, words) ==
  (words \ p.words) \union
  (IF words \cap p.words = {} \/ p.strategy = "drop" THEN {}
   ELSE IF p.strategy = "mask" THEN {MASK}
   ELSE {Token(w) : w \in words \cap p.words})

\* The words after each of the patterns.
AfterPatterns(patterns, words) ==
  LET rewritten[i \in 0..Len(patterns)] ==
        IF i = 0 THEN words ELSE Replaced(patterns[i], rewritten[i - 1])
  IN rewritten

RewriteWords(rule, words) == AfterPatterns(rule.patterns, words)[Len(rule.patterns)]

RewriteText(rule, text) ==
  LET words == RewriteWords(rule, text.words) IN
  IF words = text.words THEN text ELSE Redacted(words)

MasksUndecoded(rule, field) ==
  field = "value" /\ rule.fields # <<>> /\ rule.unparsed = "mask"

Apply(rule, field, slot) ==
  LET whole == IF field = "key" THEN rule.key ELSE rule.value
      edited == IF slot.json # NoTree
                THEN [slot EXCEPT !.text = Absent, !.json = EditFields(rule, @)]
                ELSE IF MasksUndecoded(rule, field) THEN RedactWith(Redacted({MASK}))
                ELSE slot IN
  CASE whole = "drop" \/ slot = Absent -> Absent
    [] whole = "mask" /\ slot # Absent -> RedactWith(Redacted({MASK}))
    [] whole = "hash" /\ slot # Absent -> RedactWith(Redacted({HASH}))
    [] OTHER -> LET text == Text(edited) IN
                IF RewriteText(rule, text) = text
                THEN IF rule.patterns = <<>> THEN edited ELSE [edited EXCEPT !.text = text]
                ELSE RedactWith(RewriteText(rule, text))

\* Names of headers match in any case: they are in lower case here.
ObfuscateHeader(rule, header) ==
  IF header.name \in rule.headers
  THEN [header EXCEPT !.value = Redacted({MASK})]
  ELSE IF header.value = Absent THEN header
  ELSE [header EXCEPT !.value = RewriteText(rule, @)]

-----------------------------------------------------------------------------
(* Filter and pipeline *)

Filtering == needle # "blank"

Slot(payload, backup, resolved) ==
  IF payload = Absent THEN Absent ELSE Decoded(payload, backup, resolved)

\* A record as decode_and_filter and render passage it, with its headers hidden
\* since it was screened.
Staged(record, resolved) ==
  LET staged(field) ==
        LET slot == Slot(record[field], Backup(field), resolved) IN
        IF Obfuscated THEN Apply(Rule, field, slot) ELSE slot IN
  [key |-> staged("key"), value |-> staged("value"), header |-> record.header]

\* The bytes of a field that no schema decodes can be searched at once.
Framed(record, field) ==
  /\ decodes
  /\ NeedsDecode(record[field], Backup(field))

OnRaw(record) ==
  LET present == {f \in {"key", "value"} : record[f] # Absent}
      framed == {f \in present : Framed(record, f)} IN
  IF \E f \in present \ framed : needle \in RenderRaw(record[f]).words THEN "pass"
  ELSE IF framed # {} THEN "needs_payload" ELSE "fail"

\* The filter looks at the bytes whatever a rule hides.
ScreenBytes(record) == IF Filtering THEN OnRaw(record) ELSE "pass"

\* Stages::screen_record: "pass" is Deferred.
ScreenRecord(record) ==
  IF ~Filtering THEN "pass"
  ELSE IF Obfuscated /\ HidesPayload(Rule) THEN "needs_payload" ELSE OnRaw(record)

OnPayload(staged) ==
  \E f \in {"key", "value"} : staged[f] # Absent /\ needle \in Text(staged[f]).words

\* on_payload renders the key, and the value unless the key matched; a tree
\* that was rendered is dropped.
AfterFilter(staged) ==
  LET rendered(slot) == IF slot = Absent THEN Absent
                        ELSE [slot EXCEPT !.text = Text(slot), !.json = NoTree]
      hit == staged.key # Absent /\ needle \in Text(staged.key).words IN
  [staged EXCEPT !.key = rendered(@), !.value = IF hit THEN @ ELSE rendered(@)]

\* Whatever was not decoded shows its bytes.
UndecodedVerbatim(slot) == slot = Absent \/ slot.json = NoTree

IsVerbatim(slot) ==
  \/ slot = Absent
  \/ /\ slot.json = NoTree
     /\ slot.raw = Absent => slot.text = Redacted({})
     /\ slot.raw # Absent =>
          /\ IsUtf8(slot.raw)
          /\ slot.text = Absent \/ slot.text = RenderRaw(slot.raw)

\* DecodedRecord::into_record.
IntoRecord(staged) ==
  LET shown(slot) == IF slot = Absent THEN Absent ELSE Text(slot)
      header == staged.header.value IN
  [key |-> shown(staged.key), value |-> shown(staged.value),
   header |-> IF header = Absent THEN Redacted({}) ELSE header,
   verbatim |-> /\ ~Obfuscated /\ header # Absent /\ staged.header.utf8
                /\ IsVerbatim(staged.key) /\ IsVerbatim(staged.value)]

-----------------------------------------------------------------------------
(* PayloadDecoder::resolve *)

\* The ids a batch of slots needs.
Needed(record) ==
  {id \in Ids : decodes /\ \E field \in {"key", "value"} :
                  /\ record[field] # Absent
                  /\ Framing(record[field], Backup(field)) = id}

\* One lookup per id, unless a cache holds an answer; a schema whose own
\* references cannot be read fails like one that cannot be read itself.
ResolveIds(needed, resolved, failing) ==
  LET asked == needed \ (missing \union failed)
      absent == {id \in asked \ codecs : up /\ id \notin there} IN
  /\ failing \subseteq asked \ (codecs \union absent)
  /\ up \/ asked \ codecs = failing
  /\ resolved = asked \ (absent \union failing)
  /\ codecs' = codecs \union resolved
  /\ missing' = missing \union absent
  /\ failed' = failed \union failing

ValuesInit ==
  /\ policy \in {p \in Policies : Disjoint(p)}
  /\ needle \in Needles /\ decodes \in BOOLEAN /\ fallback \in Fallbacks
  /\ there \in {{}, Ids} /\ up \in BOOLEAN
  /\ codecs = {} /\ missing = {} /\ failed = {}
  /\ raw = Absent /\ passage = "idle" /\ kept = Absent /\ page = Absent
  /\ judged = {} /\ reads = 0

\* RecordPipeline::admit, up to its await.
AdmitRecord(record) ==
  LET screened == [record EXCEPT !.header = IF Obfuscated THEN ObfuscateHeader(Rule, @) ELSE @]
      verdict == ScreenRecord(record) IN
  /\ passage \in {"idle", "shown", "rejected"} /\ reads < MaxReads
  /\ reads' = reads + 1 /\ raw' = record /\ page' = Absent
  /\ kept' = [pending |-> verdict # "needs_payload", record |-> screened]
  /\ passage' = CASE verdict = "pass" -> "render"
                [] verdict = "needs_payload" -> "decode"
                [] OTHER -> "rejected"
  /\ judged' = IF verdict = "fail" THEN SUBSET Ids ELSE {}
  /\ UNCHANGED <<query, registry, caches>>

DecodeAndFilter ==
  \E resolved, failing \in SUBSET Ids :
    /\ passage = "decode"
    /\ ResolveIds(Needed(kept.record), resolved, failing)
    /\ LET staged == Staged(kept.record, resolved) IN
       IF OnPayload(staged)
       THEN /\ kept' = [pending |-> FALSE, staged |-> AfterFilter(staged)]
            /\ passage' = "render" /\ judged' = judged
       ELSE kept' = Absent /\ passage' = "rejected" /\ judged' = {resolved}
    /\ UNCHANGED <<query, registry, raw, page, reads>>

\* A record that was kept as bytes is decoded now.
RenderPending ==
  \E resolved, failing \in SUBSET Ids :
    /\ passage = "render" /\ kept.pending
    /\ ResolveIds(Needed(kept.record), resolved, failing)
    /\ page' = IntoRecord(Staged(kept.record, resolved))
    /\ passage' = "shown" /\ kept' = Absent
    /\ UNCHANGED <<query, registry, raw, judged, reads>>

RenderDecoded ==
  /\ passage = "render" /\ ~kept.pending
  /\ page' = IntoRecord(kept.staged)
  /\ passage' = "shown" /\ kept' = Absent
  /\ UNCHANGED <<query, registry, caches, raw, judged, reads>>

\* Another page of the cluster shares the caches.
OtherPage(id) ==
  \E resolved, failing \in SUBSET {id} :
    /\ ResolveIds({id}, resolved, failing)
    /\ UNCHANGED <<query, registry, raw, passage, kept, page, judged, reads>>

\* Time to live of an answer that was not a schema, and eviction.
Forget(id) ==
  /\ id \in codecs \union missing \union failed
  /\ codecs' = codecs \ {id} /\ missing' = missing \ {id} /\ failed' = failed \ {id}
  /\ UNCHANGED <<query, registry, raw, passage, kept, page, judged, reads>>

RegistryChanges ==
  /\ \/ up' = ~up /\ UNCHANGED there
     \/ \E id \in Ids \ there : there' = there \union {id} /\ UNCHANGED up
  /\ UNCHANGED <<query, caches, raw, passage, kept, page, judged, reads>>

ValuesNext ==
  \/ \E record \in Records : AdmitRecord(record)
  \/ DecodeAndFilter \/ RenderPending \/ RenderDecoded
  \/ \E id \in Ids : OtherPage(id) \/ Forget(id)
  \/ RegistryChanges

ValuesSpec == ValuesInit /\ [][ValuesNext]_valueVars

-----------------------------------------------------------------------------
\* Every rule whose pattern matches the topic holds for it, whatever was
\* decoded and whichever cache answered: a page never shows a word that is only
\* at paths the rule hides (unless the value never decoded and the rule allows
\* that), a word that a pattern of the rule matches, anything of a key or a value
\* that is hidden whole, or the value of a header it names.  The paths are those
\* of the document as it was decoded: the writer's, except for a message without
\* a frame that the query chose a schema for, whose names they are then.
NoSecretShown ==
  page # Absent =>
    \A i \in DOMAIN policy :
      (\E p \in Range(policy[i].topics) : Matches(p, Topic)) =>
        LET rule == policy[i].rule
            shown(text) == IF text = Absent THEN {} ELSE text.words
            written(payload) == IF payload = Absent THEN {} ELSE WordsOf(payload.doc)
            paths == {field.path : field \in Range(rule.fields)}
            hidden(doc) == WordsOf(doc) \ UNION {{object[path] : path \in DOMAIN object \ paths} :
                                                  object \in doc} IN
        /\ \A p \in Range(rule.patterns) :
             \A text \in {page.key, page.value, page.header} : shown(text) \cap p.words = {}
        /\ rule.key = "none" \/ shown(page.key) \cap written(raw.key) = {}
        /\ rule.value = "none" \/ shown(page.value) \cap written(raw.value) = {}
        /\ \/ page.value = Absent
           \/ rule.unparsed = "allow" /\ page.value = RewriteText(rule, RenderRaw(raw.value))
           \/ page.value.words \cap
                hidden(ReadWith(raw.value, Framing(raw.value, fallback))) = {}
        /\ raw.header.name \in rule.headers => page.header = Redacted({MASK})

\* Search and page agree: a filtered page shows only records in whose shown
\* key or value the needle is, and a record that was turned away would not
\* have shown it with the schemas it was judged with.
FilterMatchesView ==
  Filtering =>
    /\ page # Absent =>
         \E text \in {page.key, page.value} : text # Absent /\ needle \in text.words
    /\ passage = "rejected" =>
         \A resolved \in judged :
           LET view == IntoRecord(Staged(raw, resolved)) IN
           \A text \in {view.key, view.value} : text # Absent => needle \notin text.words

\* A record that says it is verbatim shows the exact bytes of its key, its
\* value and its headers: producing the shown texts again writes it again.
VerbatimReproduces ==
  page # Absent /\ page.verbatim =>
    /\ \A field \in {"key", "value"} :
         IF raw[field] = Absent THEN page[field] = Absent
         ELSE IsUtf8(raw[field]) /\ page[field] = RenderRaw(raw[field])
    /\ page.header = raw.header.value /\ raw.header.utf8
=============================================================================
