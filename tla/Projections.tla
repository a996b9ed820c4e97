------------------------------ MODULE Projections ------------------------------
(***************************************************************************)
(* The rows and details that join the tables of a cluster, for one topic    *)
(* and one consumer group.  A table that no poll has filled yet is Null.    *)
(*   t  topology:    partitions with leader, replicas and in-sync replicas, *)
(*                   the group with its state and what its members hold     *)
(*   o  offsets:     the group's commit for a partition                     *)
(*   m  watermarks:  low and high of a partition                            *)
(*   d  log dirs:    what partitions and brokers take on disk               *)
(***************************************************************************)
EXTENDS Integers, FiniteSets, FiniteSetsExt, Functions, Sums

CONSTANTS Brokers, Null

Empty == [p \in {} |-> 0]

-----------------------------------------------------------------------------
(* Topology *)

Exists(t) == t # Null /\ t.parts # <<>>
PartitionIds(t) == IF t = Null THEN {} ELSE DOMAIN t.parts
UnderReplicated(part) == Cardinality(part.isr) < Cardinality(part.replicas)
Offline(part) == part.leader < 0
Held(g) == UNION Range(g.held)

\* topic_groups: a group consumes a topic if a member holds a partition of it.
GroupsForTopic(t) == IF Held(t.group) # {} THEN {t.group} ELSE {}

\* GroupInfo::owners: of a partition that two members name, the first.
Owner(g, p) ==
  IF p \in Held(g) THEN CHOOSE m \in DOMAIN g.held : p \in g.held[m] ELSE Null

-----------------------------------------------------------------------------
(* Log dirs *)

\* A directory that failed is listed without its replicas.
Replicas(dir) == IF dir.failed THEN {} ELSE dir.replicas

\* A future replica takes space on its broker and is not the partition's log.
LogDirTable(dirs) ==
  LET logs == UNION {{[dir |-> dir.path, broker |-> dir.broker, log |-> r] :
                        r \in Replicas(dir)} : dir \in dirs}
      kept == {l \in logs : ~l.log.future}
      of(p) == {l \in kept : l.log.partition = p}
      bytes(S) == SumOf([l \in S |-> l.log.size]) IN
  [partitions |-> [p \in {l.log.partition : l \in kept} |->
                     [size |-> Max({l.log.size : l \in of(p)}), disk |-> bytes(of(p))]],
   brokers |-> [b \in {dir.broker : dir \in dirs} |->
                  [size |-> bytes({l \in logs : l.broker = b}),
                   replicas |-> Cardinality({l \in kept : l.broker = b})]]]

PartitionStorage(d, p) ==
  IF d # Null /\ p \in DOMAIN d.partitions THEN d.partitions[p] ELSE Null

\* The storage of a topic's largest partition.
TopicStorageLargest(d) ==
  IF d = Null \/ DOMAIN d.partitions = {} THEN [size |-> Null, disk |-> Null]
  ELSE [size |-> Max({d.partitions[p].size : p \in DOMAIN d.partitions}),
        disk |-> Max({d.partitions[p].disk : p \in DOMAIN d.partitions})]

\* Null until a poll lists a log of the topic.
TopicStorage(d) ==
  IF d = Null \/ DOMAIN d.partitions = {} THEN [size |-> Null, disk |-> Null]
  ELSE [size |-> SumOf([p \in DOMAIN d.partitions |-> d.partitions[p].size]),
        disk |-> SumOf([p \in DOMAIN d.partitions |-> d.partitions[p].disk])]

-----------------------------------------------------------------------------
(* Topics *)

Zero == [low |-> 0, high |-> 0]
HasMark(m, p) == m # Null /\ p \in DOMAIN m
Retained(mark) == mark.high - mark.low

\* WatermarkTable::retained and produced, of every partition that was measured.
RetainedIn(m) == IF m = Null THEN 0 ELSE SumOf([p \in DOMAIN m |-> Retained(m[p])])
ProducedIn(m) == IF m = Null THEN 0 ELSE SumOf([p \in DOMAIN m |-> m[p].high])

TopicRow(t, m, d, rate) ==
  [partitions |-> Cardinality(PartitionIds(t)), retained |-> RetainedIn(m),
   produced |-> ProducedIn(m), size |-> TopicStorage(d).size,
   rate |-> IF rate = Null THEN 0 ELSE rate,
   groups |-> Cardinality(GroupsForTopic(t)),
   underReplicated |-> \E p \in PartitionIds(t) : UnderReplicated(t.parts[p])]

\* A partition without marks counts as one at 0.
PartitionRow(t, m, d, p) ==
  LET mark == IF HasMark(m, p) THEN m[p] ELSE Zero
      storage == PartitionStorage(d, p) IN
  [part |-> t.parts[p], low |-> mark.low, high |-> mark.high,
   size |-> IF storage = Null THEN Null ELSE storage.size]

\* The totals are of the partitions that the topology lists.
TopicDetail(t, m, d, rate) ==
  LET rows == [p \in PartitionIds(t) |-> PartitionRow(t, m, d, p)] IN
  [partitions |-> rows, storage |-> TopicStorage(d),
   retained |-> SumOf([p \in DOMAIN rows |-> Retained(rows[p])]),
   produced |-> SumOf([p \in DOMAIN rows |-> rows[p].high]),
   rate |-> IF rate = Null THEN 0 ELSE rate,
   groups |-> Cardinality(GroupsForTopic(t)),
   underReplicated |-> \E p \in DOMAIN rows : UnderReplicated(rows[p].part)]

-----------------------------------------------------------------------------
(* Groups *)

\* Where a group stands: its commits, and 0 for what it holds without one.
Positions(g, o) ==
  LET done == IF o = Null THEN {} ELSE DOMAIN o IN
  [p \in done \union Held(g) |->
     IF p \in done THEN o[p] ELSE IF o = Null THEN Null ELSE 0]

LagOf(at, end) ==
  IF at = Null \/ end = Null THEN Null ELSE Max({end - at, 0})

HighWatermark(m, p) == IF HasMark(m, p) THEN m[p].high ELSE Null

\* lag_totals: what is known, and whether that is all.
LagTotals(fetched, lags) ==
  [total |-> IF fetched
             THEN SumOf([p \in {p \in DOMAIN lags : lags[p] # Null} |-> lags[p]])
             ELSE Null,
   complete |-> \A p \in DOMAIN lags : lags[p] # Null]

PositionsLag(at, o, m) ==
  LagTotals(o # Null, [p \in DOMAIN at |-> LagOf(at[p], HighWatermark(m, p))])

GroupRow(g, o, m) ==
  LET sums == PositionsLag(Positions(g, o), o, m) IN
  [state |-> g.state, members |-> Cardinality(DOMAIN g.held),
   reads |-> Positions(g, o) # Empty, total |-> sums.total, complete |-> sums.complete]

\* GroupLag::project.
GroupLag(g, o, m) ==
  LET at == Positions(g, o)
      rows == [p \in DOMAIN at |->
                 [at |-> at[p], end |-> HighWatermark(m, p),
                  lag |-> LagOf(at[p], HighWatermark(m, p)), owner |-> Owner(g, p)]] IN
  [offsets |-> rows, sums |-> LagTotals(o # Null, [p \in DOMAIN rows |-> rows[p].lag])]

GroupDetail(g, o, m) ==
  LET lag == GroupLag(g, o, m) IN
  [group |-> g, offsets |-> lag.offsets, total |-> lag.sums.total,
   complete |-> lag.sums.complete]

TopicGroupRow(g, o, m) ==
  [state |-> g.state, members |-> Cardinality(DOMAIN g.held),
   lag |-> PositionsLag(Positions(g, o), o, m).total]

-----------------------------------------------------------------------------
(* Brokers and the cluster *)

BrokerRows(t, d) ==
  [b \in Brokers |->
     [partitions |-> Cardinality({p \in DOMAIN t.parts : b \in t.parts[p].replicas}),
      leaders |-> Cardinality({p \in DOMAIN t.parts : t.parts[p].leader = b}),
      dirs |-> IF d # Null /\ b \in DOMAIN d.brokers THEN d.brokers[b] ELSE Null]]

\* ClusterStore::health, with counts of 0 before the first topology.
Health(t) ==
  LET count(is(_)) == Cardinality({p \in PartitionIds(t) : is(t.parts[p])}) IN
  [topics |-> IF Exists(t) THEN 1 ELSE 0, partitions |-> Cardinality(PartitionIds(t)),
   under |-> count(UnderReplicated), offline |-> count(Offline)]
=============================================================================
