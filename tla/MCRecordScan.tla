---------------------------- MODULE MCRecordScan ----------------------------
(* Instances of RecordScan for TLC: two partitions of every shape.         *)
EXTENDS RecordScan

\* Every partition that ends at high, with gaps, timestamps that need not rise,
\* and perhaps one record that arrived after the watermarks were read.
PartitionLogs(low, high, times, matching) ==
    {[low |-> low, high |-> high, recs |-> r] : r \in
        UNION {[D -> [ts : times, matches : matching]] : D \in SUBSET (low .. high)}}

Pairs(first, second) ==
    {(0 :> a) @@ (1 :> b) : a \in first, b \in second}

Page ==
    [kind |-> "page", order |-> {}, from |-> {}, to |-> {}, limit |-> 2,
     searching |-> FALSE, partitions |-> {}, token |-> {}, start |-> {}]

\* From the near end on, or back from the far end with the cursor rewind() makes.
Ways(l) ==
    {[order |-> {o}, token |-> {}] : o \in Orders} \cup
    {[order |-> {o},
      token |-> {Token([order |-> o, walk |-> Flipped(o), at |-> Start(l, Flipped(o))])}] :
        o \in Orders}

Of(logs, base, timeouts) ==
    UNION {{[log |-> l, slow |-> timeouts,
             params |-> [base EXCEPT !.order = w.order, !.token = w.token]] :
               w \in Ways(l)} : l \in logs}

Downwards(read) ==
    LET o == CHOOSE o \in read.params.order : TRUE
    IN  (o = "newest") = (read.params.token = {})

\* Browsing: every record matches, and a page makes one pass.
BrowseLogs ==
    Pairs(PartitionLogs(1, 4, 1 .. 2, {TRUE}), PartitionLogs(0, 1, 1 .. 2, {TRUE}))
        \cup Pairs(PartitionLogs(2, 2, 1 .. 2, {TRUE}), PartitionLogs(0, 0, 1 .. 2, {TRUE}))
Browsing == Of(BrowseLogs, Page, FALSE)

\* Searching: some match, and a page goes on for a second pass. The log is long
\* enough for a window to be left after the one that a deadline cut. Downwards the
\* deadline does not pass here: SlowBrowsing shows what happens then.
SearchLogs ==
    Pairs(PartitionLogs(0, 3, 1 .. 2, BOOLEAN),
          {[low |-> 0, high |-> 1, recs |-> [o \in {0, 1} |-> [ts |-> 1, matches |-> TRUE]]]})
Searching ==
    {[read EXCEPT !.slow = ~Downwards(read)] :
        read \in Of(SearchLogs, [Page EXCEPT !.searching = TRUE], FALSE)}

\* A range of instants, ends included; a record by its offset; a page from one.
ShortLogs == Pairs(PartitionLogs(0, 2, 1 .. 3, {TRUE}), PartitionLogs(1, 1, {2}, {TRUE}))
Ranges ==
    UNION {Of(ShortLogs, [Page EXCEPT !.from = from, !.to = to], FALSE) :
             from \in {{}, {2}}, to \in {{}, {1}, {2}}}
Ats ==
    {[log |-> l, slow |-> TRUE, params |-> asks] : l \in ShortLogs,
       asks \in {RecordAt(0, o) : o \in 0 .. 3}
            \cup {[Page EXCEPT !.order = {o}, !.partitions = {0}, !.start = {1}] : o \in Orders}}

\* Requests that are refused: an inverted range, a cursor of the other order, one
\* that names a partition twice, a limit of nothing, no such partition, an offset
\* to start at without its partition.
Empty == [low |-> 0, high |-> 0, recs |-> <<>>]
Bad ==
    {[log |-> l, slow |-> FALSE, params |-> asks] : l \in Pairs({Empty}, {Empty}),
       asks \in
         {[Page EXCEPT !.from = {2}, !.to = {1}], [Page EXCEPT !.limit = 0],
          [Page EXCEPT !.partitions = {7}], [Page EXCEPT !.start = {1}]} \cup
         {[Page EXCEPT !.token = {[version |-> "v2", order |-> o, way |-> "f", offsets |-> offsets]}] :
            o \in Orders, offsets \in {<< <<0, 1>> >>, << <<0, 1>>, <<0, 2>> >>}}}

EveryRead == Browsing \cup Searching \cup Ranges \cup Ats \cup Bad

SlowBrowsing ==
    {[read EXCEPT !.slow = TRUE] :
        read \in {b \in Browsing : b.params.order = {"newest"} /\ b.params.token = {}}}
=============================================================================
