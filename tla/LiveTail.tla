------------------------------ MODULE LiveTail ------------------------------
(***************************************************************************)
(* A live tail: one page of the browser that follows the end of a topic    *)
(* (kafka/scan/tail.rs, kafka/client/tail.rs, the stream of                *)
(* app/resources/records/tail.rs, web/src/lib/api/tail.ts).                *)
(*                                                                         *)
(* The tail samples: a frame keeps the newest records of what its polls    *)
(* read, a partition too far behind jumps, and the frame says how many     *)
(* records it skipped. Producers go on all the time. The stream ends when  *)
(* the session has, when Kafka fails, or when the page goes away; the page *)
(* reconnects by itself after a network error, and starts at the new end.  *)
(*                                                                         *)
(* The wait that keeps frames tail.interval apart is left out: a frame may *)
(* be flushed at any time. Offsets count from 1 and have no gaps.          *)
(***************************************************************************)
EXTENDS ScanPlan, SequencesExt

CONSTANTS
    Partitions,
    Times,          \* Record timestamps
    Kinds,          \* What the filter makes of a record, [hit, raw]: whether it
                    \* matches, and whether its raw bytes tell (Verdict)
    BatchLimit,     \* TailLimits::batch
    Backlog,        \* TailLimits::backlog()
    Heartbeat,      \* TailLimits::heartbeat, in polls that found nothing
    MaxLive,        \* Limits::live_tails
    ListMax,        \* TAIL_BUFFER
    MaxLog          \* Bound: records written to the topic

ASSUME TailAssumption ==
    /\ Partitions \subseteq Nat /\ IsFiniteSet(Partitions) /\ Times \subseteq Int
    /\ Kinds \subseteq [hit : BOOLEAN, raw : BOOLEAN]
    /\ {BatchLimit, Heartbeat, MaxLive, ListMax} \subseteq Nat \ {0}
    /\ {Backlog, MaxLog} \subseteq Nat

VARIABLES
    topic,          \* Each partition's records, [ts, kind]
    client,         \* useTail: what the page does
    list, badge,    \* Tail::records and Tail::skipped of the page
    wire,           \* Frames on their way to the page
    stream,         \* Where the stream is in Tail::next and Follow
    followed,       \* The partitions the consumer is assigned
    start, pos,     \* Tail::start and the consumer's position, by partition
    sample,         \* RecordBatch of this next()
    seen,           \* RecordBatch::seen
    skipped,        \* next()'s count
    quiet,          \* Time since next() was called
    session,        \* SessionGuard::revalidate() still grants the records
    free,           \* Permits of AppState::tails
    others,         \* Other tails that hold one
    pool,           \* History: the matching records of this next()
    unmatched,      \* History: records the filter dropped
    told            \* History: records this stream gave or said it skipped

clientVars == <<client, list, badge>>
tailVars == <<followed, start, pos, sample, seen, skipped, quiet, pool, unmatched, told>>
permitVars == <<free, others>>
allVars == <<topic, clientVars, wire, stream, tailVars, session, permitVars>>

Key(p, o) == [ts |-> topic[p][o].ts, p |-> p, o |-> o]
Kind(key) == topic[key.p][key.o].kind
Hit(key) == Kind(key).hit
End(p) == Len(topic[p])
Ready == [kind |-> "ready"]
Error == [kind |-> "error"]
Frame(records, n) == [kind |-> "records", records |-> records, skipped |-> n]

TailTyped ==
    /\ client \in {"connecting", "live", "paused", "error"}
    /\ stream \in {"none", "open", "next", "poll", "skip", "flush", "ended"}
    /\ Len(wire) <= 1 /\ Len(list) <= ListMax
    /\ \A p \in Partitions : start[p] <= pos[p] /\ pos[p] <= End(p)
    /\ sample \subseteq pool /\ Cardinality(sample) <= BatchLimit
    /\ Cardinality(sample) <= seen /\ quiet \in 0 .. Heartbeat
    /\ free + others + (IF stream = "none" THEN 0 ELSE 1) = MaxLive

Reset ==
    /\ sample' = {} /\ seen' = 0 /\ skipped' = 0 /\ quiet' = 0 /\ pool' = {}

TailInit ==
    /\ topic = [p \in Partitions |-> <<>>]
    /\ client = "connecting" /\ list = <<>> /\ badge = 0
    /\ wire = <<>> /\ stream = "none"
    /\ followed = {} /\ start = [p \in Partitions |-> 0] /\ pos = start
    /\ sample = {} /\ seen = 0 /\ skipped = 0 /\ quiet = 0 /\ pool = {}
    /\ unmatched = 0 /\ told = 0
    /\ session = TRUE
    /\ others \in 0 .. MaxLive /\ free = MaxLive - others

------------------------------------------------------------------------------
(* The request: a permit, then a reader at the end of every partition.       *)

Connect ==
    /\ client = "connecting" /\ stream = "none" /\ wire = <<>>
    /\ IF session /\ free > 0
       THEN stream' = "open" /\ free' = free - 1 /\ UNCHANGED client
       ELSE client' = "error" /\ UNCHANGED <<stream, free>>
    /\ UNCHANGED <<topic, list, badge, wire, tailVars, session, others>>

\* Mutant: a tail starts with what there is.
StartAtOldest(p) == 0

\* high_watermarks
StartAt(p) == End(p)

\* A partition whose end Kafka did not tell is left out (OffsetLookup::found).
Open ==
    /\ stream = "open"
    /\ stream' = "next"
    /\ followed' \in SUBSET Partitions
    /\ start' = [p \in Partitions |-> StartAt(p)] /\ pos' = start'
    /\ Reset
    /\ unmatched' = 0 /\ told' = 0
    /\ wire' = <<Ready>>
    /\ UNCHANGED <<topic, clientVars, session, permitVars>>

\* Kafka fails, or consume_timeout passes.
OpenFails ==
    /\ stream = "open"
    /\ stream' = "none" /\ free' = free + 1
    /\ client' = "error"
    /\ UNCHANGED <<topic, list, badge, wire, tailVars, session, others>>

------------------------------------------------------------------------------
(* Tail::next.                                                               *)

\* The body is polled for a frame once the last one is gone.
BeginNext ==
    /\ stream = "next" /\ wire = <<>>
    /\ stream' = "poll"
    /\ Reset
    /\ UNCHANGED <<topic, clientVars, wire, followed, start, pos, unmatched, told, session,
                   permitVars>>

\* Mutant: a full batch takes no more.
AdmitsNone(b, key) == Cardinality(b) < BatchLimit

\* RecordBatch::admits
Admits(b, key) ==
    \/ Cardinality(b) < BatchLimit
    \/ \E worst \in b : /\ \A k \in b \ {worst} : Ranks(k, worst, "newest", "newest")
                        /\ Ranks(key, worst, "newest", "newest")

PushKey(b, key) == Push(b, key, BatchLimit, "newest", "newest")

\* Stages::screen of one record: turned away before the filter looks at it, left
\* for its payload to decide, kept, or dropped by the filter.
Screen(st, key) ==
    IF ~Admits(st.kept, key) THEN [st EXCEPT !.rejected = @ + 1]
    ELSE IF ~Kind(key).raw THEN [st EXCEPT !.candidates = @ \cup {key}]
    ELSE IF Hit(key)
         THEN [st EXCEPT !.kept = PushKey(@, key), !.pushed = @ + 1]
    ELSE [st EXCEPT !.dropped = @ + 1]

\* The first pass over a poll: how things are after its first i records.
Screened(keys) ==
    LET after[i \in 0 .. Len(keys)] ==
            IF i = 0
            THEN [kept |-> sample, pushed |-> 0, rejected |-> 0, dropped |-> 0,
                  candidates |-> {}]
            ELSE Screen(after[i - 1], keys[i])
    IN  after

\* A candidate whose payload matched is pushed.
Decide(b, key, matched) == IF key \in matched THEN PushKey(b, key) ELSE b

\* The second pass, in the same order: the batch after the first i records.
Decided(keys, kept, matched) ==
    LET after[i \in 0 .. Len(keys)] ==
            IF i = 0 THEN kept ELSE Decide(after[i - 1], keys[i], matched)
    IN  after

\* RecordPipeline::admit: screen the poll, then push the candidates that match.
Admit(keys) ==
    LET screened == Screened(keys)[Len(keys)]
        matched == {key \in screened.candidates : Hit(key)}
    IN  [kept |-> Decided(keys, screened.kept, matched)[Len(keys)],
         pushed |-> screened.pushed + Cardinality(matched),
         rejected |-> screened.rejected,
         dropped |-> screened.dropped + Cardinality(screened.candidates \ matched)]

\* The sum of f over the partitions.
Total(f) == Cardinality(UNION {{p} \X (1 .. f[p]) : p \in Partitions})

\* The next n[p] records of each partition.
Polled(n) == UNION {{Key(p, pos[p] + i) : i \in 1 .. n[p]} : p \in Partitions}

\* A partition's records come in its order; the partitions come in any.
InTurn(keys) ==
    \A i, j \in DOMAIN keys :
        i < j /\ keys[i].p = keys[j].p => keys[i].o < keys[j].o

\* One poll and its records into the batch. An empty poll takes poll_wait, so that
\* the heartbeat comes.
Poll ==
    /\ stream = "poll" /\ quiet < Heartbeat
    /\ \E n \in [Partitions -> 0 .. MaxLog] :
           /\ \A p \in Partitions : pos[p] + n[p] <= End(p)
           /\ \A p \in Partitions \ followed : n[p] = 0
           /\ \E keys \in SetToSeqs(Polled(n)) :
                  /\ InTurn(keys)
                  /\ LET admitted == Admit(keys)
                     IN  /\ sample' = admitted.kept
                         /\ seen' = seen + admitted.pushed
                         /\ skipped' = skipped + admitted.rejected
                         /\ unmatched' = unmatched + admitted.dropped
                  /\ quiet' \in {quiet + 1} \cup (IF keys = <<>> THEN {} ELSE {quiet})
           /\ pool' = pool \cup {key \in Polled(n) : Hit(key)}
           /\ pos' = [p \in Partitions |-> pos[p] + n[p]]
    /\ stream' = "skip"
    /\ UNCHANGED <<topic, clientVars, wire, followed, start, told, session, permitVars>>

\* Tail::skip_ahead. The lag is the one of the last fetch, or not known yet.
SkipAhead ==
    /\ stream = "skip"
    /\ \E fetched \in [Partitions -> 0 .. MaxLog] :
           /\ \A p \in Partitions : pos[p] <= fetched[p] /\ fetched[p] <= End(p)
           /\ \A p \in Partitions \ followed : fetched[p] = pos[p]
           /\ LET Lag(p) == fetched[p] - pos[p]
                  jump == [p \in Partitions |->
                              IF Lag(p) > Backlog THEN Lag(p) - Backlog ELSE 0]
              IN  /\ pos' = [p \in Partitions |-> pos[p] + jump[p]]
                  /\ skipped' = skipped + Total(jump)
    /\ stream' = IF sample = {} THEN "poll" ELSE "flush"
    /\ UNCHANGED <<topic, clientVars, wire, followed, start, sample, seen, quiet, pool, unmatched,
                   told, session, permitVars>>

\* Mutant: the count starts anew with every frame that has records.
HeartbeatForgets == Frame(<<>>, 0)

\* heartbeat has passed: a frame without records, so that the session is looked
\* at, with what was skipped meanwhile.
HeartbeatFrame == Frame(<<>>, skipped)

\* The frame, oldest record first, and with it what the batch displaced.
BatchFrame ==
    Frame(CHOOSE page \in SetToSeqs(sample) :
              \A i, j \in DOMAIN page : i < j => Precedes(page[i], page[j], "oldest"),
          skipped + (seen - Cardinality(sample)))

\* An error event is the last frame.
Ends ==
    /\ wire' = <<Error>> /\ stream' = "ended"
    /\ UNCHANGED told

\* Follow: the session is looked at before the frame goes out. A frame without
\* records and with nothing skipped does not.
Send(frame) ==
    IF ~session THEN Ends
    ELSE /\ stream' = "next"
         /\ told' = told + Len(frame.records) + frame.skipped
         /\ wire' = IF frame = Frame(<<>>, 0) THEN wire ELSE <<frame>>

\* Mutant: next() goes on until it has a record.
QuietNever ==
    /\ stream = "poll" /\ quiet = Heartbeat
    /\ quiet' = 0
    /\ UNCHANGED <<topic, clientVars, wire, stream, followed, start, pos, sample, seen,
                   skipped, pool, unmatched, told, session, permitVars>>

Quiet ==
    /\ stream = "poll" /\ quiet = Heartbeat
    /\ Send(HeartbeatFrame)
    /\ Reset
    /\ UNCHANGED <<topic, clientVars, followed, start, pos, unmatched, session, permitVars>>

Flush ==
    /\ stream = "flush"
    /\ Send(BatchFrame)
    /\ Reset
    /\ UNCHANGED <<topic, clientVars, followed, start, pos, unmatched, session, permitVars>>

\* A poll or a seek fails: the batch is gone with the stream.
KafkaFails ==
    /\ stream \in {"poll", "skip"}
    /\ Ends
    /\ UNCHANGED <<topic, clientVars, followed, start, pos, sample, seen, skipped, quiet,
                   pool, unmatched, session, permitVars>>

\* The stream is over; its permit and its reader go with it.
Drop ==
    /\ stream = "ended" /\ wire = <<>>
    /\ stream' = "none" /\ free' = free + 1
    /\ UNCHANGED <<topic, clientVars, wire, tailVars, session, others>>

------------------------------------------------------------------------------
(* The page.                                                                 *)

\* apply(): newest first, the newest TAIL_BUFFER of them.
Deliver ==
    /\ wire # <<>> /\ client # "paused"
    /\ LET frame == Head(wire)
       IN  /\ wire' = <<>>
           /\ CASE frame.kind = "ready" ->
                      client' = "live" /\ UNCHANGED <<list, badge>>
                [] frame.kind = "records" ->
                      LET all == Reverse(frame.records) \o list
                      IN  /\ list' = SubSeq(all, 1, AtMost(ListMax, Len(all)))
                          /\ badge' = badge + frame.skipped
                          /\ UNCHANGED client
                [] frame.kind = "error" ->
                      client' = "error" /\ UNCHANGED <<list, badge>>
    /\ UNCHANGED <<topic, stream, tailVars, session, permitVars>>

\* The request is aborted: the server drops the stream, wherever it is.
Leaves ==
    /\ wire' = <<>> /\ stream' = "none"
    /\ free' = IF stream = "none" THEN free ELSE free + 1
    /\ UNCHANGED <<topic, tailVars, session, others>>

Pause ==
    /\ client \in {"connecting", "live"}
    /\ client' = "paused"
    /\ Leaves /\ UNCHANGED <<list, badge>>

\* Resume, or the Retry of a tail that stopped.
Resume ==
    /\ client = "paused" \/ (client = "error" /\ stream = "none")
    /\ client' = "connecting"
    /\ UNCHANGED <<topic, list, badge, wire, stream, tailVars, session, permitVars>>

Clear ==
    /\ list' = <<>> /\ badge' = 0
    /\ <<list, badge>> # <<list', badge'>>
    /\ UNCHANGED <<topic, client, wire, stream, tailVars, session, permitVars>>

\* The connection breaks and the page connects again. The server may be slow to
\* notice: until then the old stream is one of the others.
Disconnect ==
    /\ client \in {"connecting", "live"} /\ stream # "none"
    /\ client' = "connecting"
    /\ wire' = <<>> /\ stream' = "none"
    /\ others' = others + 1
    /\ UNCHANGED <<topic, list, badge, tailVars, session, free>>

------------------------------------------------------------------------------
(* Around the tail.                                                          *)

Produce(p, ts, kind) ==
    /\ Total([q \in Partitions |-> End(q)]) < MaxLog
    /\ topic' = [topic EXCEPT ![p] = Append(@, [ts |-> ts, kind |-> kind])]
    /\ UNCHANGED <<clientVars, wire, stream, tailVars, session, permitVars>>

SessionEnds ==
    /\ session /\ session' = FALSE
    /\ UNCHANGED <<topic, clientVars, wire, stream, tailVars, permitVars>>

OtherOpens ==
    /\ free > 0 /\ free' = free - 1 /\ others' = others + 1
    /\ UNCHANGED <<topic, clientVars, wire, stream, tailVars, session>>

OtherCloses ==
    /\ others > 0 /\ free' = free + 1 /\ others' = others - 1
    /\ UNCHANGED <<topic, clientVars, wire, stream, tailVars, session>>

Serve == Open \/ BeginNext \/ Poll \/ SkipAhead \/ Quiet \/ Flush \/ Drop

TailNext ==
    \/ Serve \/ Connect \/ OpenFails \/ KafkaFails
    \/ Deliver \/ Pause \/ Resume \/ Clear \/ Disconnect
    \/ SessionEnds \/ OtherOpens \/ OtherCloses
    \/ \E p \in Partitions, ts \in Times, kind \in Kinds : Produce(p, ts, kind)

TailSpec == TailInit /\ [][TailNext]_allVars

\* The server's task runs, and the page takes what is sent to it.
FairTail == TailSpec /\ WF_allVars(Serve) /\ WF_allVars(Deliver)

------------------------------------------------------------------------------
(* Properties.                                                               *)

Following == stream \in {"next", "poll", "skip", "flush"}

\* Every record the reader has passed since the tail opened was shown, was
\* reported as skipped, did not match, or is on its way to be one of these:
\* turned away by a full batch, displaced from it, jumped over, or carried by a
\* heartbeat, none is lost from the count ("the tail says how many it skipped").
EveryRecordCounted ==
    Following =>
        Total([p \in Partitions |-> pos[p] - start[p]])
            = told + unmatched + seen + skipped

\* A frame holds the newest matching records of its polls, although a full batch
\* turns records away before their payload is decoded, and the decoded ones are
\* pushed after the rest of their poll.
FrameIsNewest ==
    /\ Cardinality(sample) = AtMost(BatchLimit, Cardinality(pool))
    /\ \A kept \in sample, out \in pool \ sample :
           Precedes(kept, out, "newest")

\* The page never gets a record twice, or one older than what it has of the same
\* partition, also when it reconnects, pauses or skips ahead.
FramesGoForward ==
    \A frame \in Range(wire) :
        frame.kind = "records" =>
            \A r \in Range(frame.records), shown \in Range(list) :
                r.p = shown.p => r.o > shown.o

\* The tail of a session that ended closes for good, even if its topic is silent or
\* nothing in it matches: the heartbeat returns from next() to look.
EndedTailCloses == ~session ~> [](stream = "none")
=============================================================================
