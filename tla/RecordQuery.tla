---------------------------- MODULE RecordQuery ----------------------------
(***************************************************************************)
(* What a request for records asks for, and how it becomes a query: its    *)
(* order, its limit against the configured ones, its instants as offsets,  *)
(* and its cursor from the text a page gave (scan/query.rs, cursor.rs,     *)
(* resources/records/types.rs, mcp/tools/records.rs).                      *)
(*                                                                         *)
(* An optional field is the set of its value.  A token is the text of a    *)
(* cursor, field by field: [version, order, way, offsets], where offsets   *)
(* is a sequence of <<partition, offset>>.                                 *)
(***************************************************************************)
EXTENDS ScanPlan, SequencesExt

CONSTANTS MaxLimit, MinWindow, Multiplier, SearchMultiplier

\* Any of the counts of a window may be configured as 0.
ASSUME LimitsAssumption ==
    MaxLimit \in Nat \ {0} /\ {MinWindow, Multiplier, SearchMultiplier} \subseteq Nat

InvalidCursor == [order |-> "invalid"]

\* RecordLimits::clamp_limit
ClampLimit(limit) == AtMost(limit, MaxLimit)

\* RecordLimits::window_take: the offsets of a partition that a pass reads.
WindowTake(limit, searching) ==
    AtLeast(limit * (IF searching THEN SearchMultiplier ELSE Multiplier), MinWindow)

\* The partitions of a cursor in ascending order.
Ascending(S) ==
    CHOOSE s \in SetToSeqs(S) : \A i, j \in DOMAIN s : i < j => s[i] < s[j]

\* Display for RecordCursor.
Token(c) ==
    [version |-> "v2", order |-> c.order, way |-> IF c.walk = c.order THEN "f" ELSE "b",
     offsets |-> LET ids == Ascending(DOMAIN c.at)
                 IN  [i \in DOMAIN ids |-> <<ids[i], c.at[ids[i]]>>]]

\* RecordCursor::parse: of its own version, no offset below zero and no partition
\* twice.
Parse(token) ==
    LET written == token.offsets
    IN  IF \/ token.version # "v2" \/ token.order \notin Orders
           \/ token.way \notin {"f", "b"}
           \/ \E i \in DOMAIN written : written[i][2] < 0
           \/ \E i, j \in DOMAIN written : i # j /\ written[i][1] = written[j][1]
        THEN InvalidCursor
        ELSE [order |-> token.order,
              walk |-> IF token.way = "f" THEN token.order ELSE Flipped(token.order),
              at |-> [p \in {written[i][1] : i \in DOMAIN written} |->
                         written[CHOOSE i \in DOMAIN written : written[i][1] = p][2]]]

\* RecordCursor::validate_for: a cursor is for pages of its own order.
ParsedFor(order, token) ==
    IF Parse(token).order = order THEN Parse(token) ELSE InvalidCursor

\* RecordCursor::at: the first page has the record at the offset in either order.
CursorAt(order, p, o) ==
    [order |-> order, walk |-> order,
     at |-> [q \in {p} |-> IF order = "oldest" THEN o ELSE o + 1]]

------------------------------------------------------------------------------
(* The requests: a page, an export, a tool that may name an offset to start  *)
(* at, and one record.                                                       *)

\* RecordAt::query: one record, the first one at or after the offset.
RecordAt(p, o) ==
    [kind |-> "record", order |-> {"oldest"}, from |-> {}, to |-> {}, limit |-> 1,
     searching |-> FALSE, partitions |-> {p}, token |-> {}, start |-> {o}]

\* What the routes and the tools make of the text of a request.
Optional(field) == \A a, b \in field : a = b
IsRequest(params) ==
    /\ params.order \subseteq Orders /\ params.limit \in Int
    /\ params.searching \in BOOLEAN
    /\ params.partitions \subseteq Nat /\ IsFiniteSet(params.partitions)
    /\ params.from \cup params.to \cup params.start \subseteq Int
    /\ Optional(params.from) /\ Optional(params.to)
    /\ Optional(params.start) /\ Optional(params.token)
    /\ \A token \in params.token :
          /\ IsFiniteSet(DOMAIN token.offsets)
          /\ \A i \in DOMAIN token.offsets :
                token.offsets[i][1] \in Nat /\ token.offsets[i][2] \in Int
    /\ params.kind = "record" =>
          \E p \in params.partitions, o \in params.start : params = RecordAt(p, o)

OrderOf(params) == IF params.order = {} THEN "newest" ELSE CHOOSE o \in params.order : TRUE

\* TimestampRange::new
Inverted(params) == \E from \in params.from, to \in params.to : from > to

\* RecordsQuery::query of the tool: one partition, and no offset below zero.
StartRefused(params) ==
    params.start # {} /\ ~(Cardinality(params.partitions) = 1 /\ \A o \in params.start : o >= 0)

CursorOf(params) ==
    CASE params.token # {} -> ParsedFor(OrderOf(params), CHOOSE t \in params.token : TRUE)
      [] params.token = {} /\ params.start # {} ->
            CursorAt(OrderOf(params), CHOOSE p \in params.partitions : TRUE,
                     CHOOSE o \in params.start : TRUE)
      [] OTHER -> NoCursor

\* The code of the first check that fails, or "no".
RefusedQuery(params) ==
    IF StartRefused(params) THEN "INVALID_REQUEST"
    ELSE IF Inverted(params) THEN "INVERTED_TIMESTAMP_RANGE"
    ELSE IF CursorOf(params) = InvalidCursor THEN "INVALID_CURSOR"
    ELSE IF params.limit < 1 THEN "LIMIT_TOO_SMALL"
    ELSE "no"

\* RecordParams::into_query and ExportParams::into_query.
IntoQuery(params) ==
    [order |-> OrderOf(params), cursor |-> CursorOf(params), from |-> params.from,
     to |-> params.to, partitions |-> params.partitions,
     limit |-> ClampLimit(params.limit), searching |-> params.searching]

------------------------------------------------------------------------------
(* The range of instants.                                                    *)

\* A partition's log: its watermarks, and the records that compaction left.
IsLog(l) ==
    /\ {l.low, l.high} \subseteq Nat /\ l.low <= l.high
    /\ DOMAIN l.recs \subseteq Nat /\ IsFiniteSet(DOMAIN l.recs)
    /\ \A o \in DOMAIN l.recs : l.recs[o].ts \in Int /\ l.recs[o].matches \in BOOLEAN

\* TimestampRange::start_seek
StartSeek(query) == query.from

\* Mutant: the record stamped `to` is left out.
EndSeekAt(query) == query.to

\* TimestampRange::end_seek: Kafka seeks to the first offset at or after.
EndSeek(query) == {to + 1 : to \in query.to}

\* offsets_for_times, of a partition's log: no offset when no record is that late.
OffsetForTime(l, instant) ==
    LET late == {o \in DOMAIN l.recs : o >= l.low /\ l.recs[o].ts >= instant}
    IN  IF late = {} THEN {} ELSE {Min(late)}

\* The answers for one partition to the seeks of a query: none for a partition
\* that time_offsets left out, as the broker no longer knows it.
Lookups(l, seeks, leftOut) ==
    IF leftOut THEN {} ELSE {OffsetForTime(l, instant) : instant \in seeks}

\* merge_watermarks: a low that Kafka did not answer for is the high.
MergeWatermarks(l, noLow) == [low |-> IF noLow THEN l.high ELSE l.low, high |-> l.high]

\* apply_timestamp_bounds, of one partition. No offset for `from` is an empty
\* range; none for `to` is no bound; no answer is none either.
ApplyTimestampBounds(m, froms, tos) ==
    LET low == IF {} \in froms THEN m.high ELSE Max({m.low} \cup UNION froms)
        high == Min({m.high} \cup UNION tos)
    IN  [low |-> AtMost(low, high), high |-> high]
=============================================================================
