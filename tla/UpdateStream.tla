---------------------------- MODULE UpdateStream ----------------------------
(***************************************************************************)
(* Live updates: from a lane's commit to the page that shows it            *)
(* (kafka/store/bus.rs, app/resources/updates.rs, and in the browser       *)
(* web/src/lib/api/updates.ts and client.ts).                              *)
(*                                                                         *)
(* The store's side is what SnapshotFeed promises of every lane: a table   *)
(* is committed, then its change is published. The bus is a bounded        *)
(* broadcast channel with one receiver per open stream. A stream forwards  *)
(* the changes in its scope; the page reads again what a frame names, over *)
(* a request of its own that runs beside the stream. Nothing else makes a  *)
(* page read again: the UI does not poll (the list of clusters does, until *)
(* the lanes of each have started).                                        *)
(*                                                                         *)
(* A page makes several queries, each with its own reads and its own names *)
(* that make it read again. They share nothing but the stream they hear    *)
(* from, so a page of this model has one of them.                          *)
(*                                                                         *)
(* Two lanes stand for all that are announced by name: topology, whose     *)
(* frame goes out whole or not at all, and configs (as log_dirs), whose    *)
(* frame is narrowed to the topic of the stream. Rates and lags, which a   *)
(* frame carries by value, are not part of this model.                     *)
(***************************************************************************)
EXTENDS Integers, Sequences, FiniteSets

CONSTANTS
    Topics, Groups,
    Pages,          \* Open pages of the UI, each with a stream and a query
    Capacity,       \* BUS_CAPACITY
    WireCap,        \* Frames between the server and the page
    Attempts,       \* RETRY_ATTEMPTS
    None

Items == Topics \cup Groups
Lanes == {"topology", "configs"}
Rows(l) == IF l = "topology" THEN Items ELSE Topics

\* useRouteScope: a page is of one topic, of one group, or of the lists.
NoScope == [topic |-> None, group |-> None]
Scopes == {NoScope} \cup [topic : Topics, group : {None}] \cup [topic : {None}, group : Groups]

\* What is on a page: the list or the resource it is of, and the sidebar's counts,
\* which are on every page; a topic's stands for the others.
Queries(s) ==
    CASE s.topic # None -> {"topic", "topicGroups", "clusters"}
      [] s.group # None -> {"group"}
      [] OTHER -> {"topicRows", "groupRows"}

ASSUME UpdateAssumption ==
    /\ Topics \cap Groups = {}
    /\ None \notin Items \cup Lanes \cup [Lanes -> SUBSET Items]
    /\ Capacity \in Nat \ {0} /\ WireCap \in Nat \ {0} /\ Attempts \in Nat

VARIABLES
    scope,          \* Scope: the page's part of the cluster
    query,          \* The query of the page that this is about
    view,           \* The table of each lane
    told,           \* What the bus has announced of each lane
    queue,          \* Changes a stream's receiver has not taken
    lagged,         \* The receiver lost changes: its next recv() says Lagged
    stream,         \* The page's stream
    attempt,        \* pump(): attempts since the last message
    wire,           \* Frames on their way to the page
    session,        \* SessionGuard::revalidate() still finds the session
    shown,          \* What the page shows; None while its first read runs
    request,        \* The page's read
    answer,         \* The tables the server answers that read with
    missed          \* History: a change of a row it hears of did not reach it

storeVars == <<scope, query, view, told>>
busVars == <<queue, lagged>>
streamVars == <<stream, attempt, wire, session>>
pageVars == <<shown, request, answer, missed>>
vars == <<storeVars, busVars, streamVars, pageVars>>

\* The rows that the answer to the query is made of. A topic is shown with the
\* number of its groups; the same number in the list of topics is left out.
Shows(p) ==
    [topology |-> CASE query[p] = "clusters" -> Items
                    [] query[p] = "topicRows" -> Topics
                    [] query[p] = "topic" -> Groups \cup {scope[p].topic}
                    [] query[p] \in {"groupRows", "topicGroups"} -> Groups
                    [] query[p] = "group" -> {scope[p].group},
     configs |-> CASE query[p] = "topicRows" -> Topics
                   [] query[p] = "topic" -> {scope[p].topic}
                   [] OTHER -> {}]

\* The names in a frame that make apply() read the query again.
Names(p) ==
    [topology |-> CASE query[p] = "clusters" -> Items
                    [] query[p] = "topicRows" -> Topics
                    [] query[p] = "topic" -> {scope[p].topic}
                    [] query[p] \in {"groupRows", "topicGroups"} -> Groups
                    [] query[p] = "group" -> {scope[p].group},
     configs |-> Shows(p).configs]

\* The rows of which the page hears by themselves: the stream's scope lets their
\* changes through. Left out are the groups of a topic page, the number of groups
\* of a topic, and the sidebar's counts beside one topic or group: they are read
\* again only along with another row.
Heard(p) ==
    [l \in Lanes |->
        Names(p)[l] \cap IF scope[p] = NoScope THEN Rows(l)
                         ELSE {scope[p].topic, scope[p].group}]

Projected(p, tables) == [l \in Lanes |-> tables[l] \cap Shows(p)[l]]

Change(kind, lane, names) == [kind |-> kind, lane |-> lane, names |-> names]
Resync == Change("resync", None, {})
Ended == Change("error", None, {})

TypeOK ==
    /\ scope \in [Pages -> Scopes] /\ \A p \in Pages : query[p] \in Queries(scope[p])
    /\ view \in [Lanes -> SUBSET Items] /\ told \in [Lanes -> SUBSET Items]
    /\ lagged \in [Pages -> BOOLEAN] /\ session \in [Pages -> BOOLEAN]
    /\ missed \in [Pages -> BOOLEAN]
    /\ stream \in [Pages -> {"connecting", "open", "closing", "retry", "stopped"}]
    /\ request \in [Pages -> {"none", "asked", "answered", "failed"}]
    /\ \A p \in Pages :
           /\ Len(queue[p]) <= Capacity /\ Len(wire[p]) <= WireCap
           /\ stream[p] # "open" => queue[p] = <<>> /\ ~lagged[p]
           /\ attempt[p] \in 0 .. Attempts + 1

\* The store has polled before: the pages are opened on it at any time.
Init ==
    /\ scope \in [Pages -> Scopes]
    /\ query \in [Pages -> UNION {Queries(s) : s \in Scopes}]
    /\ \A p \in Pages : query[p] \in Queries(scope[p])
    /\ view \in [Lanes -> SUBSET Items]
    /\ \A l \in Lanes : view[l] \subseteq Rows(l)
    /\ told = view
    /\ queue = [p \in Pages |-> <<>>] /\ lagged = [p \in Pages |-> FALSE]
    /\ stream = [p \in Pages |-> "connecting"]
    /\ attempt = [p \in Pages |-> 0]
    /\ wire = [p \in Pages |-> <<>>]
    /\ session = [p \in Pages |-> TRUE]
    /\ shown = [p \in Pages |-> None]
    /\ request = [p \in Pages |-> "asked"]
    /\ answer = [p \in Pages |-> None]
    /\ missed = [p \in Pages |-> FALSE]

------------------------------------------------------------------------------
(* The store and its bus.                                                    *)

\* SnapshotFeed!Commit
Commit(l, t) ==
    /\ told[l] = view[l] /\ t # view[l]
    /\ view' = [view EXCEPT ![l] = t]
    /\ UNCHANGED <<scope, query, told, busVars, streamVars, pageVars>>

\* TopologyDelta::between, ConfigsDelta::between: the names of the rows that
\* appeared, changed or disappeared.
Delta(l) == (view[l] \ told[l]) \cup (told[l] \ view[l])

Send(q, change) == IF Len(q) < Capacity THEN Append(q, change)
                   ELSE Append(Tail(q), change)

\* Without a stream to hear of it, what the page shows, or is about to show, is
\* out of date from now on, in a row it would have heard of.
Unheard(p, l) ==
    /\ stream[p] # "open"
    /\ shown[p] # None \/ request[p] = "answered"
    /\ Delta(l) \cap Heard(p)[l] # {}

\* SnapshotFeed!Publish. ChangeBus::publish: the oldest change makes room, and a
\* receiver that still wanted it has lagged.
Publish(l) ==
    /\ told[l] # view[l]
    /\ told' = [told EXCEPT ![l] = view[l]]
    /\ queue' = [p \in Pages |->
           IF stream[p] # "open" THEN queue[p]
           ELSE Send(queue[p], Change("change", l, Delta(l)))]
    /\ lagged' = [p \in Pages |->
           lagged[p] \/ (stream[p] = "open" /\ Len(queue[p]) = Capacity)]
    /\ missed' = [p \in Pages |-> missed[p] \/ Unheard(p, l)]
    /\ UNCHANGED <<scope, query, view, streamVars, shown, request, answer>>

------------------------------------------------------------------------------
(* A stream.                                                                 *)

\* Mutant: a change of groups alone goes to the lists.
ScopedByTopic(p, change) ==
    IF scope[p] = NoScope \/ scope[p].topic \in change.names THEN change.names ELSE {}

\* Scope::updates: the names of a change that go into the frame; no frame
\* without any.
Scoped(p, change) ==
    CASE change.lane = "topology" ->
             IF scope[p] = NoScope \/ scope[p].topic \in change.names
                    \/ scope[p].group \in change.names
             THEN change.names ELSE {}
      [] change.lane = "configs" ->
             IF scope[p].topic = None THEN change.names
             ELSE change.names \cap {scope[p].topic}

\* Mutant: the receiver goes on with the changes that are left.
RecvLaggedSilently(p) ==
    /\ stream[p] = "open" /\ lagged[p] /\ Len(wire[p]) < WireCap
    /\ lagged' = [lagged EXCEPT ![p] = FALSE]
    /\ UNCHANGED <<storeVars, queue, streamVars, pageVars>>

\* RecvError::Lagged: the client is told to read everything again.
RecvLagged(p) ==
    /\ stream[p] = "open" /\ lagged[p] /\ Len(wire[p]) < WireCap
    /\ lagged' = [lagged EXCEPT ![p] = FALSE]
    /\ wire' = [wire EXCEPT ![p] = Append(@, Resync)]
    /\ UNCHANGED <<storeVars, queue, stream, attempt, session, pageVars>>

\* Stream::denied
Denied(p) == ~session[p]

\* A change is received: the session is looked up again, and without it the
\* error is the last frame; else the change's frame follows.
Recv(p) ==
    /\ stream[p] = "open" /\ ~lagged[p] /\ queue[p] # <<>>
    /\ Len(wire[p]) < WireCap
    /\ LET change == Head(queue[p])
           names == Scoped(p, change)
           frame == [change EXCEPT !.names = names]
       IN  IF Denied(p)
           THEN /\ wire' = [wire EXCEPT ![p] = Append(@, Ended)]
                /\ stream' = [stream EXCEPT ![p] = "closing"]
                /\ queue' = [queue EXCEPT ![p] = <<>>]
           ELSE /\ wire' = IF names = {} THEN wire
                           ELSE [wire EXCEPT ![p] = Append(@, frame)]
                /\ queue' = [queue EXCEPT ![p] = Tail(@)]
                /\ UNCHANGED stream
    /\ UNCHANGED <<storeVars, lagged, attempt, session, pageVars>>

\* Something the page is to hear of was on its way when the connection broke.
Lost(p) ==
    \/ lagged[p]
    \/ \E i \in DOMAIN queue[p] : queue[p][i].names \cap Heard(p)[queue[p][i].lane] # {}
    \/ \E i \in DOMAIN wire[p] :
           \/ wire[p][i].kind = "resync"
           \/ wire[p][i].kind = "change"
              /\ wire[p][i].names \cap Heard(p)[wire[p][i].lane] # {}

\* pump(): the stream ended or failed; the next attempt waits, or there is none.
Retry(p) == IF attempt[p] + 1 > Attempts THEN "stopped" ELSE "retry"

\* The connection breaks, or could not be made.
Disconnect(p) ==
    /\ stream[p] \in {"connecting", "open"}
    /\ stream' = [stream EXCEPT ![p] = Retry(p)]
    /\ attempt' = [attempt EXCEPT ![p] = @ + 1]
    /\ queue' = [queue EXCEPT ![p] = <<>>] /\ wire' = [wire EXCEPT ![p] = <<>>]
    /\ lagged' = [lagged EXCEPT ![p] = FALSE]
    /\ missed' = [missed EXCEPT ![p] = @ \/ Lost(p)]
    /\ UNCHANGED <<storeVars, session, shown, request, answer>>

\* updates(): the stream subscribes to the bus, and hears what is published from
\* now on. Without a session the answer is 401, and pump() gives up.
Connect(p) ==
    /\ stream[p] = "connecting"
    /\ stream' = [stream EXCEPT ![p] = IF session[p] THEN "open" ELSE "stopped"]
    /\ UNCHANGED <<storeVars, busVars, attempt, wire, session, pageVars>>

WaitPasses(p) ==
    /\ stream[p] = "retry"
    /\ stream' = [stream EXCEPT ![p] = "connecting"]
    /\ UNCHANGED <<storeVars, busVars, attempt, wire, session, pageVars>>

\* The user signs out elsewhere, or the session expires or loses its roles.
SessionEnds(p) ==
    /\ session[p]
    /\ session' = [session EXCEPT ![p] = FALSE]
    /\ UNCHANGED <<storeVars, busVars, stream, attempt, wire, pageVars>>

------------------------------------------------------------------------------
(* The page.                                                                 *)

\* apply(): invalidateQueries for what the frame names. A read that runs is
\* cancelled and made again, unless it is the first of the page, which goes on.
Invalidates(p, frame) ==
    \/ frame.kind = "resync"
    \/ frame.kind = "change" /\ frame.names \cap Names(p)[frame.lane] # {}

Deliver(p) ==
    /\ wire[p] # <<>>
    /\ LET frame == Head(wire[p])
           again == Invalidates(p, frame)
           first == shown[p] = None /\ request[p] \in {"asked", "answered"}
       IN  /\ wire' = [wire EXCEPT ![p] = Tail(@)]
           /\ request' = IF again /\ ~first THEN [request EXCEPT ![p] = "asked"]
                         ELSE request
           /\ answer' = IF again /\ ~first THEN [answer EXCEPT ![p] = None] ELSE answer
           /\ missed' = [missed EXCEPT ![p] =
                            @ \/ (again /\ first /\ request[p] = "answered")]
           /\ IF frame.kind = "error"
              THEN /\ attempt' = [attempt EXCEPT ![p] = 1]
                   /\ stream' = [stream EXCEPT ![p] =
                                    IF Attempts = 0 THEN "stopped" ELSE "retry"]
              ELSE /\ attempt' = [attempt EXCEPT ![p] = 0]
                   /\ UNCHANGED stream
    /\ UNCHANGED <<storeVars, busVars, session, shown>>

\* The server answers the read from the tables there are.
Answer(p) ==
    /\ request[p] = "asked"
    /\ request' = [request EXCEPT ![p] = "answered"]
    /\ answer' = [answer EXCEPT ![p] = Projected(p, view)]
    /\ missed' = [missed EXCEPT ![p] = FALSE]
    /\ UNCHANGED <<storeVars, busVars, streamVars, shown>>

Show(p) ==
    /\ request[p] = "answered"
    /\ request' = [request EXCEPT ![p] = "none"]
    /\ shown' = [shown EXCEPT ![p] = answer[p]]
    /\ answer' = [answer EXCEPT ![p] = None]
    /\ UNCHANGED <<storeVars, busVars, streamVars, missed>>

\* The read fails: the page says so, and keeps what it has.
ReadFails(p) ==
    /\ request[p] \in {"asked", "answered"}
    /\ request' = [request EXCEPT ![p] = "failed"]
    /\ answer' = [answer EXCEPT ![p] = None]
    /\ UNCHANGED <<storeVars, busVars, streamVars, shown, missed>>

Next ==
    \/ \E l \in Lanes : Publish(l) \/ \E t \in SUBSET Rows(l) : Commit(l, t)
    \/ \E p \in Pages :
           \/ RecvLagged(p) \/ Recv(p) \/ Disconnect(p) \/ Connect(p)
           \/ WaitPasses(p) \/ SessionEnds(p)
           \/ Deliver(p) \/ Answer(p) \/ Show(p) \/ ReadFails(p)

Spec == Init /\ [][Next]_vars

------------------------------------------------------------------------------
(* Properties.                                                               *)

\* Every change published so far has reached the page or was not its business.
Idle(p) ==
    /\ view = told
    /\ stream[p] = "open" /\ queue[p] = <<>> /\ ~lagged[p]
    /\ wire[p] = <<>>
    /\ request[p] = "none"

\* A page whose stream is open and drained shows every row it hears of as the
\* tables have it, although changes were dropped from the bus, filtered by scope,
\* and crossed the page's own reads. The exceptions are the changes that were
\* published while it had no stream (opening one does not make the page read
\* again), and the ones that overtook the answer of its first read. The rows it
\* does not hear of by themselves (see Heard) are as old as its last answer.
PageFresh ==
    \A p \in Pages :
        Idle(p) /\ ~missed[p] =>
            \A l \in Lanes : shown[p][l] \cap Heard(p)[l] = view[l] \cap Heard(p)[l]
=============================================================================
