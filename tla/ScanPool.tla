------------------------------ MODULE ScanPool ------------------------------
(***************************************************************************)
(* The pool of Kafka readers that record pages borrow                      *)
(* (kafka/client/pool.rs, and ScanLease of kafka/client/scan.rs), with the *)
(* borrowing end of ScanSession in kafka/scan/session.rs.                  *)
(*                                                                         *)
(* A page takes an idle reader of its topic or builds one, points it at    *)
(* its window, reads, and gives it back. Each of these steps may fail, and *)
(* the deadline or the browser may cancel the page in the middle of any    *)
(* await, which drops what the page holds. A window is one partition's; a  *)
(* reader has a position in it and may be paused, as the last page left    *)
(* it. The pool's own steps run under its mutex.                           *)
(***************************************************************************)
EXTENDS Integers, Sequences, SequencesExt

CONSTANTS
    Topics, Pages, Readers,
    Ends,           \* Bound: offsets of a window are 0 .. Ends
    MaxPerTopic,    \* ScanTuning::pool_per_topic
    MaxTotal,       \* ScanTuning::pool_total
    Ttl,            \* ScanTuning::pool_idle_ttl, in ticks
    None

ASSUME PoolAssumption ==
    /\ None \notin Readers \cup Topics
    /\ {MaxPerTopic, MaxTotal, Ttl, Ends} \subseteq Nat \ {0}

VARIABLES
    parked,         \* ScanPoolInner::parked: [topic, reader, age], oldest first
    sweepIn,        \* Ticks until the pool's ticker fires
    life,           \* A reader: none yet, open, closed by itself, or retired
    position,       \* Where a reader reads next
    paused,         \* Whether the page paused its partition
    pc,             \* Where a page is
    topic, reader,  \* ScanLease::topic and consumer, or those of acquire()
    leased,         \* The page has a ScanLease
    reusable, released,
    next,           \* The offset the page expects to read next
    done,           \* WindowScan::remaining is empty: the window is read
    failed          \* History: readers that gave an error to a lease

poolVars == <<parked, sweepIn>>
readerVars == <<life, position, paused>>
pageVars == <<pc, topic, reader, leased, reusable, released, next, done>>
vars == <<poolVars, readerVars, pageVars, failed>>

ParkedReaders == {parked[i].reader : i \in DOMAIN parked}
Old == 2 * Ttl + 1      \* Ages stop here: no entry is to get this old
OfTopic(t) == {i \in DOMAIN parked : parked[i].topic = t}
Holds(r, c) == reader[r] = c /\ (leased[r] => ~released[r])

TypeOK ==
    /\ Len(parked) <= MaxTotal
    /\ \A t \in Topics : Cardinality(OfTopic(t)) <= MaxPerTopic
    /\ \A i \in DOMAIN parked :
           parked[i] \in [topic : Topics, reader : Readers, age : 0 .. Old]
    /\ sweepIn \in 0 .. Ttl
    /\ life \in [Readers -> {"none", "open", "closed", "retired"}]
    /\ position \in [Readers -> 0 .. Ends] /\ paused \in [Readers -> BOOLEAN]
    /\ pc \in [Pages -> {"idle", "build", "assign", "seek", "read", "end"}]
    /\ reader \in [Pages -> Readers \cup {None}]
    /\ leased \in [Pages -> BOOLEAN] /\ reusable \in [Pages -> BOOLEAN]
    /\ released \in [Pages -> BOOLEAN]
    /\ \A r \in Pages : leased[r] => reader[r] # None

Init ==
    /\ parked = <<>> /\ sweepIn = Ttl
    /\ life = [c \in Readers |-> "none"]
    /\ position = [c \in Readers |-> 0] /\ paused = [c \in Readers |-> FALSE]
    /\ pc = [r \in Pages |-> "idle"]
    /\ topic = [r \in Pages |-> None] /\ reader = [r \in Pages |-> None]
    /\ leased = [r \in Pages |-> FALSE]
    /\ reusable = [r \in Pages |-> TRUE] /\ released = [r \in Pages |-> FALSE]
    /\ next = [r \in Pages |-> 0] /\ done = [r \in Pages |-> FALSE]
    /\ failed = {}

------------------------------------------------------------------------------
(* ScanPoolInner, and with_idle, which retires what an operation evicted.    *)

\* A reader is gone; its name is free for another one.
Forget(gone, as) ==
    /\ life' = [c \in Readers |-> IF c \in gone THEN as ELSE life[c]]
    /\ position' = [c \in Readers |-> IF c \in gone THEN 0 ELSE position[c]]
    /\ paused' = [c \in Readers |-> c \notin gone /\ paused[c]]
    /\ failed' = failed \ gone

\* retire(): the close runs in a task of its own.
Retire(gone) == Forget(gone, "retired")

\* expire(): from the front, as long as the front is too old.
Live(q) ==
    LET fresh == {i \in DOMAIN q : q[i].age <= Ttl}
    IN  IF fresh = {} THEN <<>> ELSE SubSeq(q, Min(fresh), Len(q))
Expired(q) == {q[i].reader : i \in DOMAIN q} \ {Live(q)[i].reader : i \in DOMAIN Live(q)}

\* take(): the newest reader of the topic that is still open; the closed ones
\* above it are evicted.
Usable(q, t) == {i \in DOMAIN q : q[i].topic = t /\ life[q[i].reader] # "closed"}
Shut(q, t) ==
    {i \in DOMAIN q : /\ q[i].topic = t /\ life[q[i].reader] = "closed"
                      /\ \A j \in Usable(q, t) : j < i}
Without(q, gone) ==
    LET kept == DOMAIN q \ gone
        nth(k) == CHOOSE i \in kept : Cardinality({j \in kept : j <= i}) = k
    IN  [k \in 1 .. Cardinality(kept) |-> q[nth(k)]]

Full(q, t) ==
    \/ Len(q) >= MaxTotal
    \/ Cardinality({i \in DOMAIN q : q[i].topic = t}) >= MaxPerTopic

\* Mutant: the newest reader goes to the front.
ParkedInFront(q, t, c) == <<[topic |-> t, reader |-> c, age |-> 0]>> \o q

\* push_back
ParkedBehind(q, t, c) == Append(q, [topic |-> t, reader |-> c, age |-> 0])

\* park()
Park(t, c) ==
    LET live == Live(parked)
    IN  /\ parked' = IF Full(live, t) THEN live ELSE ParkedBehind(live, t, c)
        /\ Retire(Expired(parked) \cup IF Full(live, t) THEN {c} ELSE {})

\* The page is over; what it held is dropped.
Idle(r) ==
    /\ pc' = [pc EXCEPT ![r] = "idle"]
    /\ topic' = [topic EXCEPT ![r] = None]
    /\ reader' = [reader EXCEPT ![r] = None]
    /\ leased' = [leased EXCEPT ![r] = FALSE]
    /\ reusable' = [reusable EXCEPT ![r] = TRUE]
    /\ next' = [next EXCEPT ![r] = 0] /\ done' = [done EXCEPT ![r] = FALSE]

------------------------------------------------------------------------------
(* ScanPool::acquire.                                                        *)

Acquire(r, t, at) ==
    /\ pc[r] = "idle"
    /\ topic' = [topic EXCEPT ![r] = t]
    /\ next' = [next EXCEPT ![r] = at]
    /\ LET live == Live(parked)
           usable == Usable(live, t)
           shut == Shut(live, t)
           taken == IF usable = {} THEN None ELSE live[Max(usable)].reader
       IN  /\ parked' = Without(live, shut \cup (IF usable = {} THEN {} ELSE {Max(usable)}))
           /\ Retire(Expired(parked) \cup {live[i].reader : i \in shut})
           /\ reader' = [reader EXCEPT ![r] = taken]
           /\ pc' = [pc EXCEPT ![r] = IF taken = None THEN "build" ELSE "assign"]
    /\ UNCHANGED <<sweepIn, leased, reusable, released, done>>

\* build(): a new reader starts at the window.
Build(r, c) ==
    /\ pc[r] = "build" /\ life[c] = "none"
    /\ life' = [life EXCEPT ![c] = "open"]
    /\ position' = [position EXCEPT ![c] = next[r]]
    /\ reader' = [reader EXCEPT ![r] = c]
    /\ pc' = [pc EXCEPT ![r] = "assign"]
    /\ UNCHANGED <<poolVars, paused, topic, leased, reusable, released, next, done,
                   failed>>

BuildFails(r) ==
    /\ pc[r] = "build"
    /\ Idle(r)
    /\ UNCHANGED <<poolVars, readerVars, released, failed>>

\* Mutant: a reader is taken as it was left.
UnpauseForgets(r) == UNCHANGED paused

Unpause(r) == paused' = [paused EXCEPT ![reader[r]] = FALSE]

\* assign(), of acquire or of a lease that moves to its next windows: assign the
\* partitions and resume them, then seek where the position is another.
Assign(r) ==
    /\ pc[r] = "assign"
    /\ Unpause(r)
    /\ pc' = [pc EXCEPT ![r] = "seek"]
    /\ UNCHANGED <<poolVars, life, position, topic, reader, leased, reusable,
                   released, next, done, failed>>

\* The last step makes it a lease, with ScanLease::new, unless it is one.
Seek(r) ==
    /\ pc[r] = "seek"
    /\ position' = [position EXCEPT ![reader[r]] = next[r]]
    /\ pc' = [pc EXCEPT ![r] = "read"]
    /\ leased' = [leased EXCEPT ![r] = TRUE]
    /\ released' = [released EXCEPT ![r] = FALSE]
    /\ done' = [done EXCEPT ![r] = FALSE]
    /\ UNCHANGED <<poolVars, life, paused, topic, reader, reusable, next, failed>>

\* An assign or a seek fails. acquire retires the reader. A lease is poisoned,
\* and the error ends the page.
AssignFails(r) ==
    /\ pc[r] \in {"assign", "seek"}
    /\ IF leased[r]
       THEN /\ reusable' = [reusable EXCEPT ![r] = FALSE]
            /\ failed' = failed \cup {reader[r]}
            /\ pc' = [pc EXCEPT ![r] = "end"]
            /\ UNCHANGED <<readerVars, topic, reader, leased, next, done>>
       ELSE Retire({reader[r]}) /\ Idle(r)
    /\ UNCHANGED <<poolVars, released>>

\* The deadline or the browser drops acquire() in the middle: the reader is
\* dropped with it.
AcquireDropped(r) ==
    /\ pc[r] \in {"build", "assign", "seek"} /\ ~leased[r]
    /\ Forget({reader[r]}, "none")
    /\ Idle(r)
    /\ UNCHANGED <<poolVars, released>>

------------------------------------------------------------------------------
(* A lease at work.                                                          *)

PollRecord(r) ==
    /\ pc[r] = "read" /\ ~done[r]
    /\ ~paused[reader[r]] /\ position[reader[r]] < Ends
    /\ position' = [position EXCEPT ![reader[r]] = @ + 1]
    /\ next' = [next EXCEPT ![r] = @ + 1]
    /\ UNCHANGED <<poolVars, life, paused, pc, topic, reader, leased, reusable,
                   released, done, failed>>

\* The window is read: its partition is paused.
Pause(r) ==
    /\ pc[r] = "read" /\ ~done[r]
    /\ done' = [done EXCEPT ![r] = TRUE]
    /\ paused' = [paused EXCEPT ![reader[r]] = TRUE]
    /\ UNCHANGED <<poolVars, life, position, pc, topic, reader, leased, reusable,
                   released, next, failed>>

\* seek_to_end of the windows that are read. An error poisons, and is dropped.
SeekToEnd(r, fails) ==
    /\ pc[r] = "read" /\ done[r]
    /\ IF fails
       THEN /\ reusable' = [reusable EXCEPT ![r] = FALSE]
            /\ failed' = failed \cup {reader[r]}
            /\ UNCHANGED <<position, next>>
       ELSE /\ position' = [position EXCEPT ![reader[r]] = Ends]
            /\ next' = [next EXCEPT ![r] = Ends]
            /\ UNCHANGED <<reusable, failed>>
    /\ UNCHANGED <<poolVars, life, paused, pc, topic, reader, leased, released,
                   done>>

\* The page goes on to its next windows.
Reassign(r, at) ==
    /\ pc[r] = "read" /\ done[r]
    /\ next' = [next EXCEPT ![r] = at]
    /\ pc' = [pc EXCEPT ![r] = "assign"]
    /\ UNCHANGED <<poolVars, readerVars, topic, reader, leased, reusable, released,
                   done, failed>>

\* A poll fails: poisoned, and the page ends.
PollFails(r) ==
    /\ pc[r] = "read"
    /\ reusable' = [reusable EXCEPT ![r] = FALSE]
    /\ failed' = failed \cup {reader[r]}
    /\ pc' = [pc EXCEPT ![r] = "end"]
    /\ UNCHANGED <<poolVars, readerVars, topic, reader, leased, released, next,
                   done>>

\* A poll or a reassign is dropped in the middle: nothing is poisoned, and the
\* reader may have moved.
Cancelled(r, at) ==
    /\ leased[r] /\ pc[r] \in {"assign", "seek", "read"}
    /\ position' = [position EXCEPT ![reader[r]] = at]
    /\ pc' = [pc EXCEPT ![r] = "end"]
    /\ UNCHANGED <<poolVars, life, paused, topic, reader, leased, reusable,
                   released, next, done, failed>>

\* Mutant: a lease that was closed is released again when it is dropped.
ReleasesAgain(r) == TRUE

\* released.swap(true)
Releases(r) == ~released[r]

\* Mutant: every reader that comes back is parked.
ReusableAlways(r) == TRUE

Reusable(r) == reusable[r]

\* ScanLease::release and ScanPool::release
Release(r) ==
    IF Releases(r)
    THEN /\ released' = [released EXCEPT ![r] = TRUE]
         /\ IF Reusable(r) THEN Park(topic[r], reader[r])
            ELSE Retire({reader[r]}) /\ UNCHANGED parked
    ELSE UNCHANGED <<parked, readerVars, failed, released>>

\* A page that is read closes its lease, and drops it later.
Close(r) ==
    /\ pc[r] = "read"
    /\ Release(r)
    /\ pc' = [pc EXCEPT ![r] = "end"]
    /\ UNCHANGED <<sweepIn, topic, reader, leased, reusable, next, done>>

Drop(r) ==
    /\ pc[r] = "end"
    /\ Release(r)
    /\ Idle(r)
    /\ UNCHANGED sweepIn

------------------------------------------------------------------------------
(* Around the pages.                                                         *)

\* Mutant: the ticker has a period of its own.
SweepLazily ==
    /\ sweepIn = 0 /\ sweepIn' = Ttl + 1
    /\ parked' = Live(parked)
    /\ Retire(Expired(parked))
    /\ UNCHANGED pageVars

\* The pool's task expires what is idle, every pool_idle_ttl.
Sweep ==
    /\ sweepIn = 0 /\ sweepIn' = Ttl
    /\ parked' = Live(parked)
    /\ Retire(Expired(parked))
    /\ UNCHANGED pageVars

\* The close of a retired reader ends, or its grace does.
Closed(c) ==
    /\ life[c] = "retired"
    /\ Forget({c}, "none")
    /\ UNCHANGED <<poolVars, pageVars>>

\* The client library closes an idle reader by itself.
ClosesItself(c) ==
    /\ life[c] = "open" /\ c \in ParkedReaders
    /\ life' = [life EXCEPT ![c] = "closed"]
    /\ UNCHANGED <<poolVars, position, paused, pageVars, failed>>

\* Time passes. The pool's task is on time.
Tick ==
    /\ sweepIn > 0 /\ sweepIn' = sweepIn - 1
    /\ parked' = [i \in DOMAIN parked |->
                     [parked[i] EXCEPT !.age = IF @ = Old THEN Old ELSE @ + 1]]
    /\ UNCHANGED <<readerVars, pageVars, failed>>

Next ==
    \/ Sweep \/ Tick
    \/ \E c \in Readers : Closed(c) \/ ClosesItself(c)
    \/ \E r \in Pages :
           \/ BuildFails(r) \/ Assign(r) \/ Seek(r) \/ AssignFails(r)
           \/ AcquireDropped(r) \/ PollRecord(r) \/ Pause(r) \/ PollFails(r)
           \/ Close(r) \/ Drop(r)
           \/ \E c \in Readers : Build(r, c)
           \/ \E fails \in BOOLEAN : SeekToEnd(r, fails)
           \/ \E at \in 0 .. Ends :
                  \/ Reassign(r, at) \/ Cancelled(r, at)
                  \/ \E t \in Topics : Acquire(r, t, at)

Spec == Init /\ [][Next]_vars

------------------------------------------------------------------------------
(* Properties.                                                               *)

\* A reader is in one place: with one page, or parked once, never in use once it
\* is being closed, and never parked for others once it gave an error.
OneOwner ==
    \A c \in Readers :
        LET places == {r \in Pages : Holds(r, c)}
                      \cup {i \in DOMAIN parked : parked[i].reader = c}
        IN  /\ Cardinality(places) <= 1
            /\ life[c] \in {"none", "retired"} => places = {}
            /\ c \notin ParkedReaders \cap failed

\* A page reads the records of its window from where it asked, one after the
\* other and until it is done, whatever the page before it left of the reader: a
\* position, a pause, a poll or an assign that was dropped in the middle.
ReadsItsWindow ==
    \A r \in Pages :
        pc[r] = "read" =>
            /\ paused[reader[r]] = done[r]
            /\ reader[r] \notin failed => position[reader[r]] = next[r]

\* No idle reader keeps its connections for longer than two periods of
\* pool_idle_ttl, whether or not anybody asks for a reader: one that was a moment
\* too young for a sweep is old enough for the next.
IdleReaderCloses == \A i \in DOMAIN parked : parked[i].age <= 2 * Ttl
=============================================================================
