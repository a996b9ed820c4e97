------------------------------ MODULE StoreViews ------------------------------
(***************************************************************************)
(* The tables of a cluster and what is made of them: the watermark lane     *)
(* with its two speeds and its rates, the rows and details that join the    *)
(* tables, and the MCP tools that answer from them, loading a table more    *)
(* than once while the lanes go on.  One topic, one consumer group.  In a   *)
(* behaviour either time passes over the watermark lane or tools are called. *)
(***************************************************************************)
EXTENDS Projections, Replies

CONSTANTS Parts,            \* 1..n, the partitions the topic may have
          Groups,           \* the states of the group and what its members may hold
          Disks,            \* what the brokers may report of their log dirs
          Lists, Texts,     \* the lists and records a tool may have to show
          MaxOffset, MaxChanges, MaxNow,
          LowInterval, IdleHeartbeat, MaxSampleGap, LAG_WORTH_NAMING

ASSUME ViewsAssumption ==
  /\ {MaxOffset, MaxChanges, MaxNow, NoteBytes} \subseteq Nat /\ Null \notin Nat
  /\ NoLimit # NotPaged
  /\ IsFiniteSet(Parts) /\ Parts = 1..Cardinality(Parts)
  /\ IsFiniteSet(Brokers) /\ Brokers # {} /\ Brokers \subseteq Nat
  /\ \E d \in Disks : \E dir \in d : ~dir.failed
  /\ \A d \in Disks :
       /\ IsFiniteSet(d)
       /\ \A dir \in d :
            /\ dir.broker \in Brokers /\ IsFiniteSet(dir.replicas)
            /\ \A l \in dir.replicas : l.size \in Nat
  /\ {LowInterval, IdleHeartbeat, MaxSampleGap, LAG_WORTH_NAMING, RESULT_BYTES, DEFAULT_ROWS, MAX_ROWS}
       \subseteq Nat \ {0}
  /\ Lists \subseteq [lists : Seq(Nat), inner : Seq(Nat), weight : Nat \ {0},
                     limit : Nat \union {NoLimit, NotPaged}]
  /\ Texts \subseteq Seq([texts : Seq(Nat), headers : Seq(Seq(Nat))])

VARIABLES live,                                      \* "marks", "views" or "replies"
          count, log, group, committed, disk,        \* Kafka
          topology, offsets, marks, logDirs,         \* the tables
          fetch, lowReadAt, committedAt, rate, now,  \* the watermark lane
          call,                                      \* a tool that loads tables
          reply,                                     \* how a reply was cut
          askedAt,                                   \* history: when the lows were asked for,
          producedAt, polledAt,                      \* the last record, the last poll
          changes

kafka == <<count, log, group, committed, disk>>
tables == <<topology, offsets, marks, logDirs>>
lane == <<fetch, lowReadAt, committedAt, rate>>
history == <<askedAt, producedAt, polledAt>>
vars == <<live, kafka, tables, lane, now, call, reply, history, changes>>

-----------------------------------------------------------------------------
(* Kafka *)

NoGroup == [state |-> "Empty", held |-> Empty]

Change(new) ==
  /\ changes < MaxChanges /\ changes' = changes + 1 /\ new
  /\ producedAt' = IF \E p \in Parts : log'[p].high > log[p].high THEN now ELSE producedAt
  /\ UNCHANGED <<live, tables, lane, now, call, reply, askedAt, polledAt>>

\* Producers, retention, record deletion, a lost leader, more partitions, a
\* topic deleted and created again, consumers that commit and come and go.
KafkaChanges ==
  \/ \E p \in 1..count : log[p].high < MaxOffset /\ Change(
       log' = [log EXCEPT ![p].high = @ + 1] /\ UNCHANGED <<count, group, committed, disk>>)
  \/ \E p \in 1..count : log[p].low < log[p].high /\ Change(
       log' = [log EXCEPT ![p].low = log[p].high] /\ UNCHANGED <<count, group, committed, disk>>)
  \/ \E p \in 1..count : live = "views" /\ Change(
       log' = [log EXCEPT ![p].up = ~@] /\ UNCHANGED <<count, group, committed, disk>>)
  \/ \E n \in Parts \union {0} : n # count /\ (n > count \/ n = 0) /\ Change(
       /\ count' = n
       /\ log' = [p \in Parts |-> IF p <= count /\ n > 0 THEN log[p]
                                  ELSE [low |-> 0, high |-> 0, up |-> TRUE]]
       /\ UNCHANGED <<group, committed, disk>>)
  \/ \E g \in Groups \union {NoGroup} :
       /\ live = "views" /\ g # group /\ Held(g) \subseteq 1..count
       /\ Change(group' = g /\ UNCHANGED <<count, log, committed, disk>>)
  \/ \E p \in 1..count : live = "views" /\ Change(
       /\ committed' = [q \in DOMAIN committed \union {p} |->
                          IF q = p THEN log[p].high ELSE committed[q]]
       /\ UNCHANGED <<count, log, group, disk>>)
  \/ \E d \in Disks \ {disk} : live = "views" /\ Change(
       disk' = d /\ UNCHANGED <<count, log, group, committed>>)

-----------------------------------------------------------------------------
(* Tables *)

Topologies ==
  [parts : Seq([replicas : SUBSET Brokers, leader : Int, isr : SUBSET Brokers]),
   group : Groups \union {NoGroup}]

\* What is not there yet is none of what may be there.
ASSUME NothingAssumption ==
  /\ Null \notin BOOLEAN /\ Null \notin Topologies
  /\ Null \notin [topics : Nat, partitions : Nat, under : Nat, offline : Nat]
  /\ Null \notin [size : Nat, replicas : Nat]

\* Topology::assemble of one read of metadata and groups.
Assemble ==
  [parts |-> [p \in 1..count |->
                [replicas |-> Brokers,
                 leader |-> IF log[p].up THEN Min(Brokers) ELSE -1,
                 isr |-> IF log[p].up THEN Brokers ELSE {Min(Brokers)}]],
   group |-> group]

\* RateStore::retain, of the topics that the new table has, when it lost some.
RetainRate(next) == IF Exists(topology) /\ ~Exists(next) THEN Null ELSE rate

PollTopology ==
  /\ topology' = Assemble /\ topology' # topology
  /\ rate' = RetainRate(topology')
  /\ UNCHANGED <<live, kafka, offsets, marks, logDirs, fetch, lowReadAt, committedAt, now, call, reply,
                 history, changes>>

PollOffsets ==
  /\ live = "views" /\ offsets' = committed /\ offsets' # offsets
  /\ UNCHANGED <<live, kafka, topology, marks, logDirs, lane, now, call, reply, history, changes>>

PollLogDirs ==
  /\ live = "views" /\ topology # Null
  /\ logDirs' = LogDirTable(disk) /\ logDirs' # logDirs
  /\ UNCHANGED <<live, kafka, topology, offsets, marks, lane, now, call, reply, history, changes>>

-----------------------------------------------------------------------------
(* The watermark lane *)

\* The partitions of the topology, and those that a group committed to.
WantedPartitions ==
  PartitionIds(topology) \union (IF offsets = Null THEN {} ELSE DOMAIN offsets)

\* When lows were read: as if every poll had read them.
ReadLowsEver(full) == now

ReadLows(full) == IF full THEN now ELSE lowReadAt

LowDue == lowReadAt = Null \/ now - lowReadAt >= LowInterval

\* The partitions of a read_high whose low is not taken from the table.
Uncached(highs) ==
  {p \in DOMAIN highs :
     ~(p \in DOMAIN marks /\ marks[p].low <= highs[p])}

\* What one lookup finds: Kafka does not answer for every partition.
Found(wanted, what) ==
  {[p \in known |-> IF what = "low" THEN log[p].low ELSE log[p].high] :
     known \in {known \in SUBSET (wanted \cap 1..count) :
                  Cardinality((wanted \cap 1..count) \ known) <= 1}}

\* A partition whose low was not found counts as empty.
MergeWatermarks(lows, highs) ==
  LET low(p) == IF p \in DOMAIN lows THEN lows[p] ELSE highs[p] IN
  [p \in {p \in DOMAIN highs : low(p) <= highs[p]} |->
     [low |-> low(p), high |-> highs[p]]]

\* fetch up to its first answer.  A full read asks for lows and highs side by
\* side, the other one for highs first; a refresh asks for a full read too.
StartFetch(refresh) ==
  LET full == marks = Null \/ refresh \/ LowDue IN
  /\ fetch = Null /\ topology # Null
  /\ \E first \in IF full THEN {"low", "high"} ELSE {"high"} :
       \E got \in Found(WantedPartitions, first) :
         fetch' = [full |-> full, first |-> first, got |-> got,
                   wanted |-> WantedPartitions]
  /\ UNCHANGED <<live, kafka, tables, lowReadAt, committedAt, rate, now, call, reply,
                 history, changes>>

\* A source that has nothing to tell of unchanged marks.
DiffOnlyChanges(next) == marks = Null \/ marks # next

Diff(next) ==
  \/ marks = Null \/ marks # next
  \/ committedAt = Null \/ now - committedAt >= IdleHeartbeat

\* rates_between: a sample that is too old, or none, gives 0.
RateBetween(next) ==
  LET elapsed == IF committedAt = Null THEN 0 ELSE now - committedAt
      before(p) == IF p \in DOMAIN marks THEN marks[p].high ELSE next[p].high
      produced(p) == LET more == next[p].high - before(p) IN IF more > 0 THEN more ELSE 0
  IN IF marks = Null \/ elapsed = 0 \/ elapsed > MaxSampleGap THEN 0
     ELSE SumOf([p \in DOMAIN next |-> produced(p)])

\* RateStore::keep_changed: a topic without marks keeps the rate it has.
KeepChanged(next) == IF DOMAIN next = {} THEN rate ELSE RateBetween(next)

\* The second answer, then the poll: diff, commit, publish with the rates.
EndFetch ==
  /\ fetch # Null /\ fetch' = Null
  /\ \E rest \in IF fetch.full THEN Found(fetch.wanted, IF fetch.first = "low" THEN "high" ELSE "low")
                 ELSE Found(Uncached(fetch.got), "low") :
       LET highs == IF fetch.first = "high" THEN fetch.got ELSE rest
           lows == IF fetch.first = "low" THEN fetch.got
                   ELSE IF fetch.full THEN rest
                   ELSE [p \in DOMAIN rest \union (DOMAIN highs \ Uncached(highs)) |->
                           IF p \in DOMAIN rest THEN rest[p] ELSE marks[p].low]
           next == MergeWatermarks(lows, highs) IN
       /\ askedAt' = [p \in DOMAIN next |->
                       IF fetch.full \/ p \in Uncached(highs) THEN now ELSE askedAt[p]]
       /\ polledAt' = now /\ lowReadAt' = ReadLows(fetch.full)
       /\ IF Diff(next)
          THEN marks' = next /\ rate' = KeepChanged(next) /\ committedAt' = now
          ELSE UNCHANGED <<marks, rate, committedAt>>
  /\ UNCHANGED <<live, kafka, topology, offsets, logDirs, now, call, reply, producedAt, changes>>

FetchFails ==
  /\ fetch # Null /\ fetch' = Null
  /\ UNCHANGED <<live, kafka, tables, lowReadAt, committedAt, rate, now, call, reply,
                 history, changes>>

\* A fetch is short against the intervals.
Tick ==
  /\ live = "marks" /\ now < MaxNow /\ fetch = Null /\ now' = now + 1
  /\ UNCHANGED <<live, kafka, tables, lane, call, reply, history, changes>>

-----------------------------------------------------------------------------
(* What the pages and the tools make of them *)

\* What a page shows that is asked for now: GET of the topics, a topic, its
\* groups, the groups, a group, the brokers and a cluster.
TopicsPage == IF Exists(topology) THEN {TopicRow(topology, marks, logDirs, rate)} ELSE {}
TopicPage == IF Exists(topology) THEN TopicDetail(topology, marks, logDirs, rate) ELSE Null
TopicGroupsPage ==
  IF topology = Null THEN {}
  ELSE {TopicGroupRow(g, offsets, marks) : g \in GroupsForTopic(topology)}
GroupsPage == IF topology = Null THEN {} ELSE {GroupRow(topology.group, offsets, marks)}
GroupPage == IF topology = Null THEN Null ELSE GroupDetail(topology.group, offsets, marks)
BrokersPage == IF topology = Null THEN Empty ELSE BrokerRows(topology, logDirs)
ClusterPage == [ready |-> topology # Null, counts |-> Health(topology)]

\* klens_clusters: counts of one load, told if a later one is ready.
ClusterRow(counts, t) ==
  [ready |-> t # Null, counts |-> IF t = Null THEN Null ELSE counts]

UnhealthyPartitions(t) ==
  {p \in PartitionIds(t) : UnderReplicated(t.parts[p]) \/ Offline(t.parts[p])}

\* measured: every partition of the topology has a mark.
MeasuredAny(t, table) == table # Null

Measured(t, table) == table # Null /\ \A p \in PartitionIds(t) : HasMark(table, p)

\* TopicRow of klens_topics_list.
ListedTopic(row, counted) ==
  [row EXCEPT !.retained = IF counted THEN @ ELSE Null,
              !.produced = IF counted THEN @ ELSE Null, !.rate = rate]

\* matching: measured in the tables loaded first, rows from later ones.
TopicMatches(query) ==
  LET counted == Exists(call.topology) /\ Measured(call.topology, call.marks)
      found == {ListedTopic(row, counted) :
                  row \in {row \in TopicsPage :
                             query.under = Null \/ row.underReplicated = query.under}}
      known == {row \in found : row.retained # Null} IN
  [rows |-> IF query.empty = Null THEN found
            ELSE {row \in known : (row.retained = 0) = query.empty},
   unmeasured |-> IF query.empty = Null THEN 0 ELSE Cardinality(found \ known)]

\* PartitionRow of klens_topic_describe.
DescribedPartition(row, counted) ==
  [offline |-> Offline(row.part), size |-> row.size,
   low |-> IF counted THEN row.low ELSE Null, high |-> IF counted THEN row.high ELSE Null,
   retained |-> IF counted THEN Retained(row) ELSE Null]

TopicSummary(detail, counted) ==
  [retained |-> IF counted THEN detail.retained ELSE Null,
   produced |-> IF counted THEN detail.produced ELSE Null,
   storage |-> detail.storage, rate |-> rate,
   under |-> Cardinality({p \in DOMAIN detail.partitions :
                            UnderReplicated(detail.partitions[p].part)}),
   offline |-> Cardinality({p \in DOMAIN detail.partitions : Offline(detail.partitions[p].part)})]

\* The detail first, what was measured later.
TopicDescription ==
  LET detail == call.detail
      rows == [p \in DOMAIN detail.partitions |->
                 DescribedPartition(detail.partitions[p], HasMark(marks, p))] IN
  [topic |-> TopicSummary(detail, \A p \in DOMAIN rows : rows[p].retained # Null),
   groups |-> TopicGroupsPage, partitions |-> rows]

\* GroupsQuery::keeps: a lag that was not read is never enough.
KeepsGroup(row, query) ==
  /\ query.state = Null \/ row.state = query.state
  /\ query.minLag = Null \/ (row.total # Null /\ row.total >= query.minLag)
  /\ ~query.topic \/ row.reads

\* member_lags: null as soon as one partition of the member has none.
MemberLag(detail, m) ==
  LET own == {p \in DOMAIN detail.offsets : detail.offsets[p].owner = m} IN
  IF detail.total = Null \/ \E p \in own : detail.offsets[p].lag = Null THEN Null
  ELSE SumOf([p \in own |-> detail.offsets[p].lag])

\* lag_on_one_member, whether or not every lag is known.
OneMemberAnyway(detail) ==
  {m \in DOMAIN detail.group.held :
     /\ detail.total # Null /\ detail.total >= LAG_WORTH_NAMING
     /\ Cardinality(DOMAIN detail.group.held) >= 2
     /\ MemberLag(detail, m) # Null /\ MemberLag(detail, m) * 100 >= detail.total * 80}

LagOnOneMember(detail) == IF detail.complete THEN OneMemberAnyway(detail) ELSE {}

\* Finding::all, judged with the topology that was loaded before the detail.
Findings(detail, t) ==
  LET g == detail.group
      known == Held(g) # {} /\ Exists(t)
      idle == IF known THEN PartitionIds(t) \ Held(g) ELSE {} IN
  CASE DOMAIN g.held = {} -> [kind : {"NO_MEMBERS"}]
    [] DOMAIN g.held # {} /\ g.state = "Rebalancing" -> [kind : {"REBALANCING"}]
    [] DOMAIN g.held # {} /\ g.state = "Unknown" -> {}
    [] OTHER ->
         [kind : {"LAG_ON_ONE_MEMBER"}, member : LagOnOneMember(detail)]
         \union [kind : {"UNASSIGNED_PARTITIONS"}, partitions : {idle} \ {{}}]
         \union [kind : IF known /\ Cardinality(DOMAIN g.held) > Cardinality(PartitionIds(t))
                        THEN {"MORE_MEMBERS_THAN_PARTITIONS"} ELSE {}]

GroupDescription ==
  [group |-> GroupPage, findings |-> Findings(GroupPage, call.topology),
   members |-> [m \in DOMAIN topology.group.held |-> MemberLag(GroupPage, m)]]

\* BrokerRow::read: whether dirs were read in the table loaded first.
ListedBrokers ==
  [b \in Brokers |->
     [row |-> BrokersPage[b],
      dirsRead |-> call.logDirs # Null /\ b \in DOMAIN call.logDirs.brokers]]

-----------------------------------------------------------------------------
(* Calls *)

Tools == {"clusters", "cluster", "topics_list", "topic_describe", "groups_list",
          "group_describe", "brokers_list"}
TopicQueries == [under : {Null}, empty : BOOLEAN \union {Null}]
                \union [under : BOOLEAN, empty : {Null}]
GroupQueries == [state : {Null, "Stable"}, minLag : {Null, 0, 1}, topic : BOOLEAN]

\* Up to the loads that come first.  Without a topology most tools are not
\* ready; a topic that is not there is an error too.
Call(name) ==
  LET first(names, table) == IF name \in names THEN table ELSE Null IN
  /\ live = "views" /\ call = Null
  /\ topology # Null \/ name = "clusters"
  /\ name = "topic_describe" => TopicPage # Null
  /\ call' = [tool |-> name,
              topology |-> first({"clusters", "cluster", "topics_list", "group_describe"},
                                 topology),
              marks |-> first({"topics_list", "topic_describe"}, marks),
              logDirs |-> first({"brokers_list"}, logDirs),
              detail |-> first({"topic_describe"}, TopicPage)]
  /\ UNCHANGED <<live, kafka, tables, lane, now, reply, history, changes>>

\* What the call answers if it goes on now.
Answer ==
  CASE call.tool = "clusters" -> ClusterRow(Health(call.topology), topology)
    [] call.tool = "cluster" ->
         [row |-> ClusterRow(Health(topology), topology),
          unhealthy |-> UnhealthyPartitions(call.topology)]
    [] call.tool = "topics_list" -> [query \in TopicQueries |-> TopicMatches(query)]
    [] call.tool = "topic_describe" -> TopicDescription
    [] call.tool = "groups_list" ->
         [query \in GroupQueries |-> {row \in GroupsPage : KeepsGroup(row, query)}]
    [] call.tool = "group_describe" -> GroupDescription
    [] OTHER -> ListedBrokers

\* The rest of the call, or the rate of live calls, or a client that cancels.
Reply ==
  /\ call # Null /\ call' = Null
  /\ UNCHANGED <<live, kafka, tables, lane, now, reply, history, changes>>

\* How a reply with long lists, or one of long records, is cut.
CutReply ==
  /\ live = "replies" /\ reply = Null
  /\ \/ \E list \in Lists :
          LET whole == [list EXCEPT !.lists = [i \in DOMAIN @ |-> Page(@[i], list.limit)]] IN
          reply' = [tool |-> "lists", whole |-> whole, fit |-> Fit(whole)]
     \/ \E records \in Texts :
          reply' = [tool |-> "records", whole |-> records, fit |-> RecordsResult(records)]
  /\ UNCHANGED <<live, kafka, tables, lane, now, call, history, changes>>

Init ==
  /\ live \in {"marks", "views", "replies"} /\ count \in Parts
  /\ log = [p \in Parts |-> [low |-> 0, high |-> 0, up |-> TRUE]]
  /\ group = NoGroup /\ committed = Empty
  /\ disk = CHOOSE d \in Disks : \E dir \in d : ~dir.failed
  /\ topology = Null /\ offsets = Null /\ marks = Null /\ logDirs = Null
  /\ fetch = Null /\ lowReadAt = Null /\ committedAt = Null /\ rate = Null /\ now = 0
  /\ call = Null /\ reply = Null
  /\ askedAt = Empty /\ producedAt = 0 /\ polledAt = 0 /\ changes = 0

Next ==
  \/ /\ live # "replies"
     /\ \/ KafkaChanges \/ PollTopology \/ PollOffsets \/ PollLogDirs
        \/ \E refresh \in BOOLEAN : StartFetch(refresh)
        \/ EndFetch \/ FetchFails \/ Tick
        \/ \E name \in Tools : Call(name)
        \/ Reply
  \/ CutReply

Spec == Init /\ [][Next]_vars

-----------------------------------------------------------------------------
\* The lows that the table shows are younger than low_watermark whenever it is
\* polled, although most polls take them from the table before (a partition whose
\* low was not found counts as empty, and is asked for again as soon as any other);
\* no mark has its low above its high although they are read at different moments;
\* and a topic that nobody produces to any more does not keep its last rate: of a
\* topic with marks, a rate above 0 tells of a record that was produced less than
\* max_sample_gap and idle_heartbeat before the last poll.
MarksAreRecent ==
  /\ marks # Null =>
       \A p \in DOMAIN marks :
         /\ marks[p].low <= marks[p].high
         /\ polledAt - askedAt[p] < LowInterval
  /\ marks # Null /\ rate # Null =>
       DOMAIN marks = {} \/ rate = 0 \/ polledAt - producedAt < MaxSampleGap + IdleHeartbeat

\* "A value klens has not measured yet is null": a reply tells no number of a
\* partition without marks, no lag that was not read, accuses no member of a lag
\* that is partial, and loses no topic between those with records, those without
\* and the unmeasured.  A tool that loads a table twice is held to what it joins
\* of both only when they are the same.
MeasuredOrNull ==
  call # Null =>
    LET a == Answer
        all == [under |-> Null, empty |-> Null] IN
    CASE call.tool = "clusters" -> a.ready <=> a.counts # Null
      [] call.tool = "cluster" /\ call.topology = topology ->
           /\ a.row.counts.under \in 0..Cardinality(a.unhealthy)
           /\ Cardinality(a.unhealthy) <= a.row.counts.under + a.row.counts.offline
      [] call.tool = "topics_list" ->
           /\ call.topology = topology /\ call.marks = marks => \A row \in a[all].rows :
                row.retained # Null => \A p \in PartitionIds(topology) : HasMark(marks, p)
           /\ Cardinality(a[all].rows) =
                a[[all EXCEPT !.empty = TRUE]].unmeasured
                + Cardinality(a[[all EXCEPT !.empty = TRUE]].rows)
                + Cardinality(a[[all EXCEPT !.empty = FALSE]].rows)
      [] call.tool = "topic_describe" ->
           /\ call.marks = marks => \A p \in DOMAIN a.partitions :
                /\ HasMark(marks, p) <=> a.partitions[p].high # Null
                /\ HasMark(marks, p) => a.partitions[p].high = marks[p].high
           /\ a.topic.retained # Null =>
                a.topic.retained = SumOf([p \in DOMAIN a.partitions |-> a.partitions[p].retained])
      [] call.tool = "groups_list" ->
           \A query \in GroupQueries : \A row \in a[query] :
             query.minLag # Null \/ row.complete =>
               offsets # Null \/ (query.minLag = Null /\ row.total = Null)
      [] call.tool = "group_describe" ->
           /\ a.group.complete /\ a.group.total # Null =>
                \A p \in Held(a.group.group) : HasMark(marks, p)
           /\ \A f \in a.findings : f.kind = "LAG_ON_ONE_MEMBER" =>
                /\ \A p \in DOMAIN a.group.offsets : a.group.offsets[p].lag # Null
                /\ Cardinality({g \in a.findings : g.kind = f.kind}) = 1
                /\ \A m \in DOMAIN a.members : a.members[m] <= a.group.total
      [] call.tool = "brokers_list" /\ call.logDirs = logDirs ->
           \A b \in DOMAIN a : a[b].dirsRead <=> a[b].row.dirs # Null
      [] OTHER -> TRUE

\* What a page totals is what it lists: retained and produced of a topic, its
\* size against the space its replicas take, the lag of a group against the lag
\* of its partitions and against its row on the topic's page, and what brokers
\* report against what the topic's partitions take.
TotalsAgree ==
  live = "views" /\ call = Null =>
  /\ TopicPage # Null =>
       LET t == TopicPage
           sized == {p \in DOMAIN t.partitions : t.partitions[p].size # Null} IN
       /\ \A row \in TopicsPage :
            /\ row.size = t.storage.size /\ row.underReplicated = t.underReplicated
            /\ marks # Null /\ DOMAIN marks \subseteq DOMAIN t.partitions =>
                 row.retained = t.retained /\ row.produced = t.produced
       /\ t.storage.size # Null =>
            /\ t.storage.size <= t.storage.disk
            /\ SumOf([p \in sized |-> t.partitions[p].size]) <= t.storage.size
       /\ sized # {} => t.storage.size # Null
  /\ GroupPage # Null =>
       LET g == GroupPage
           known == {p \in DOMAIN g.offsets : g.offsets[p].lag # Null} IN
       /\ g.total # Null => g.total = SumOf([p \in known |-> g.offsets[p].lag])
       /\ g.complete <=> known = DOMAIN g.offsets
       /\ \A row \in GroupsPage : row.total = g.total /\ row.complete = g.complete
       /\ \A row \in TopicGroupsPage : row.lag = g.total
  /\ logDirs # Null /\ TopicPage # Null /\ TopicPage.storage.disk # Null =>
       TopicPage.storage.disk <=
         SumOf([b \in {b \in DOMAIN BrokersPage : BrokersPage[b].dirs # Null} |->
                BrokersPage[b].dirs.size])

\* What pages and tools tell of the tables is measured, and adds up.
ViewsTellTheTables == MeasuredOrNull /\ TotalsAgree

\* A reply fits the result or shows nothing, and shows as much as would fit: one
\* row or one character more of anything would not.
RepliesFit ==
  reply # Null /\ live = "replies" =>
    LET w == reply.whole
        f == reply.fit
        lists == reply.tool = "lists"
        most == IF lists THEN Max({Longest(w.lists), Longest(w.inner)})
                ELSE LongestRecord(w)
        cut(n) == IF lists THEN Render(w, n) ELSE [i \in DOMAIN w |-> Clipped(w[i], n)]
        fits(n) == IF lists THEN RenderBytes(w, n) <= RESULT_BYTES
                   ELSE RecordsBytes(w, n) <= RESULT_BYTES IN
    \E n \in 0..most :
      /\ f = cut(n) /\ (fits(n) \/ n = 0)
      /\ \A more \in n + 1..most : ~fits(more)
=============================================================================
