-------------------------- MODULE UpdateStreamProofs --------------------------
(***************************************************************************)
(* Proofs about UpdateStream for every set of topics, groups and pages,    *)
(* every capacity of the bus and the wire, and every number of attempts.   *)
(***************************************************************************)
EXTENDS UpdateStream, TLAPS

Tables == [Lanes -> SUBSET Items]
Changes == [kind : {"change"}, lane : Lanes, names : SUBSET Items]
Frames == Changes \cup {Resync, Ended}

------------------------------------------------------------------------------
(* The inductive invariant.                                                  *)

StreamTypes ==
  /\ scope \in [Pages -> Scopes] /\ \A p \in Pages : query[p] \in Queries(scope[p])
  /\ view \in Tables /\ told \in Tables
  /\ queue \in [Pages -> Seq(Changes)] /\ wire \in [Pages -> Seq(Frames)]
  /\ lagged \in [Pages -> BOOLEAN] /\ session \in [Pages -> BOOLEAN]
  /\ missed \in [Pages -> BOOLEAN]
  /\ stream \in [Pages -> {"connecting", "open", "closing", "retry", "stopped"}]
  /\ attempt \in [Pages -> Nat]
  /\ request \in [Pages -> {"none", "asked", "answered", "failed"}]
  /\ shown \in [Pages -> Tables \cup {None}] /\ answer \in [Pages -> Tables \cup {None}]

\* The channels are bounded, an error is the last frame of its stream, and a stream
\* that is not open has nothing to receive.
Bounded(p) ==
  /\ Len(queue[p]) <= Capacity /\ Len(wire[p]) <= WireCap
  /\ stream[p] # "open" => queue[p] = <<>> /\ ~lagged[p]
  /\ attempt[p] <= Attempts + 1 /\ (stream[p] # "stopped" => attempt[p] <= Attempts)
  /\ \A i \in DOMAIN wire[p] :
       wire[p][i].kind = "error" => stream[p] = "closing" /\ i = Len(wire[p])

\* A page that has read something has a table of what it shows.
HasRead(p) ==
  /\ request[p] = "none" => shown[p] \in Tables
  /\ request[p] = "answered" => answer[p] \in Tables

\* What the page has read last.
Base(p) == IF request[p] = "answered" THEN answer[p] ELSE shown[p]

\* A frame makes a page that hears of row x of lane l read it again.
Says(frame, l, x) ==
  frame.kind = "resync" \/ (frame.kind = "change" /\ frame.lane = l /\ x \in frame.names)

Named(q, l, x) == \E i \in DOMAIN q : Says(q[i], l, x)

\* The row is not yet published, or news of it are on their way.
Pending(p, l, x) ==
  x \in Delta(l) \/ lagged[p] \/ Named(queue[p], l, x) \/ Named(wire[p], l, x)

\* A page whose reads are done, and that was told of everything it could be told. A
\* page whose session ended hears no more once its stream has found out.
Informed(p) ==
  request[p] \in {"none", "answered"} /\ ~missed[p] /\ (session[p] \/ stream[p] = "open")

\* A row that such a page has read otherwise than the store has it is one it is
\* still to hear of.
Owed(p) ==
  Informed(p) => \A l \in Lanes : \A x \in Heard(p)[l] :
                   (x \in Base(p)[l] <=> x \in view[l]) \/ Pending(p, l, x)

StreamInv == StreamTypes /\ \A p \in Pages : Bounded(p) /\ HasRead(p) /\ Owed(p)

------------------------------------------------------------------------------
(* Names, frames and channels.                                               *)

\* A page hears of rows that it shows, by names that make it read again.
LEMMA HeardRows ==
  ASSUME StreamTypes, NEW p \in Pages, NEW l \in Lanes
  PROVE  /\ Heard(p)[l] = Names(p)[l] \cap IF scope[p] = NoScope THEN Rows(l)
                                           ELSE {scope[p].topic, scope[p].group}
         /\ Heard(p)[l] \subseteq Shows(p)[l] /\ Heard(p)[l] \subseteq Names(p)[l]
         /\ Heard(p)[l] \subseteq Items
<1>1. scope[p] \in Scopes /\ query[p] \in Queries(scope[p]) BY DEF StreamTypes
<1>2. Heard(p)[l] = Names(p)[l] \cap IF scope[p] = NoScope THEN Rows(l)
                                     ELSE {scope[p].topic, scope[p].group}
  BY DEF Heard
<1>3. query[p] \in {"topicRows", "groupRows", "topic", "topicGroups", "group", "clusters"}
  BY <1>1 DEF Queries
<1>4. l = "topology" \/ l = "configs" BY DEF Lanes
<1>5. CASE l = "configs"
  <2>1. Names(p)[l] = Shows(p)[l] BY <1>5 DEF Names, Shows
  <2>2. Names(p)[l] \subseteq Items
    BY <1>1, <1>3, <1>5 DEF Names, Shows, Queries, Scopes, NoScope, Items
  <2> QED BY <1>2, <2>1, <2>2
<1>6. CASE l = "topology"
  <2>1. Names(p)[l] \subseteq Shows(p)[l] BY <1>3, <1>6 DEF Names, Shows, Items
  <2>2. Names(p)[l] \subseteq Items
    BY <1>1, <1>3, <1>6 DEF Names, Queries, Scopes, NoScope, Items
  <2> QED BY <1>2, <2>1, <2>2
<1> QED BY <1>4, <1>5, <1>6

\* Sending behind a channel adds what the frame says, and nothing else.
LEMMA NamedAppend ==
  ASSUME NEW S, NEW q \in Seq(S), NEW e \in S, NEW l, NEW x
  PROVE  Named(Append(q, e), l, x) <=> Named(q, l, x) \/ Says(e, l, x)
<1>1. /\ DOMAIN Append(q, e) = 1 .. Len(q) + 1 /\ DOMAIN q = 1 .. Len(q) /\ Len(q) \in Nat
      /\ Append(q, e)[Len(q) + 1] = e
      /\ \A i \in 1 .. Len(q) : Append(q, e)[i] = q[i]
  OBVIOUS
<1>2. ASSUME NEW i \in DOMAIN q, Says(q[i], l, x) PROVE Named(Append(q, e), l, x)
  <2>1. i \in DOMAIN Append(q, e) /\ Append(q, e)[i] = q[i] BY <1>1
  <2> QED BY <1>2, <2>1 DEF Named
<1>3. ASSUME Says(e, l, x) PROVE Named(Append(q, e), l, x)
  <2>1. Len(q) + 1 \in DOMAIN Append(q, e) /\ Append(q, e)[Len(q) + 1] = e BY <1>1
  <2> QED BY <1>3, <2>1 DEF Named
<1>4. ASSUME NEW i \in DOMAIN Append(q, e), Says(Append(q, e)[i], l, x)
      PROVE  Named(q, l, x) \/ Says(e, l, x)
  <2>1. CASE i = Len(q) + 1 BY <1>1, <1>4, <2>1
  <2>2. CASE i # Len(q) + 1
    <3>1. i \in DOMAIN q /\ Append(q, e)[i] = q[i] BY <1>1, <2>2
    <3> QED BY <1>4, <3>1 DEF Named
  <2> QED BY <2>1, <2>2
<1> QED BY <1>2, <1>3, <1>4 DEF Named

\* What a channel says is said by its first frame or by the ones behind it.
LEMMA NamedTail ==
  ASSUME NEW S, NEW q \in Seq(S), q # <<>>, NEW l, NEW x, Named(q, l, x)
  PROVE  Says(Head(q), l, x) \/ Named(Tail(q), l, x)
<1>1. PICK i \in DOMAIN q : Says(q[i], l, x) BY DEF Named
<1>2. CASE i = 1
  <2>1. Head(q) = q[i] BY <1>2
  <2> QED BY <1>1, <2>1
<1>3. CASE i # 1
  <2>1. i - 1 \in DOMAIN Tail(q) /\ Tail(q)[i - 1] = q[i] BY <1>3
  <2> QED BY <1>1, <2>1 DEF Named
<1> QED BY <1>2, <1>3

\* Nothing is said by an empty channel.
LEMMA NamedEmpty == ASSUME NEW l, NEW x PROVE ~Named(<<>>, l, x)
BY DEF Named

\* A frame that names a row of the page makes the page read again.
LEMMA NewsInvalidates ==
  ASSUME StreamTypes, NEW p \in Pages, NEW frame, NEW l \in Lanes, NEW x \in Heard(p)[l],
         Says(frame, l, x)
  PROVE  Invalidates(p, frame)
BY HeardRows DEF Says, Invalidates

\* The scope of a stream leaves every name in that its page hears of.
LEMMA ScopedKeeps ==
  ASSUME StreamTypes, NEW p \in Pages, NEW change \in Changes
  PROVE  /\ Scoped(p, change) \subseteq change.names
         /\ \A x \in Heard(p)[change.lane] : x \in change.names => x \in Scoped(p, change)
<1>1. change.lane \in Lanes /\ scope[p] \in Scopes BY DEF Changes, StreamTypes
<1>2. change.lane = "topology" \/ change.lane = "configs" BY <1>1 DEF Lanes
<1>3. CASE scope[p] = NoScope
  <2>1. scope[p].topic = None BY <1>3 DEF NoScope
  <2>2. Scoped(p, change) = change.names BY <1>2, <1>3, <2>1 DEF Scoped
  <2> QED BY <2>2
<1>4. CASE scope[p] # NoScope
  <2>1. /\ Heard(p)[change.lane] \subseteq {scope[p].topic, scope[p].group}
        /\ Heard(p)[change.lane] \subseteq Items
    BY <1>1, <1>4, HeardRows
  <2>2. CASE change.lane = "topology"
    <3>1. Scoped(p, change) =
            IF scope[p].topic \in change.names \/ scope[p].group \in change.names
            THEN change.names ELSE {}
      BY <1>4, <2>2 DEF Scoped
    <3> QED BY <2>1, <3>1
  <2>3. CASE change.lane = "configs"
    <3>1. Scoped(p, change) = IF scope[p].topic = None THEN change.names
                              ELSE change.names \cap {scope[p].topic}
      BY <2>3 DEF Scoped
    <3>2. scope[p].topic # None => scope[p].group = None
      BY <1>1, UpdateAssumption DEF Scopes, NoScope, Items
    <3>3. None \notin Items BY UpdateAssumption
    <3> QED BY <2>1, <3>1, <3>2, <3>3
  <2> QED BY <1>2, <2>2, <2>3
<1> QED BY <1>3, <1>4

\* News of a row of the page that are lost with the connection count as missed.
LEMMA LostNews ==
  ASSUME StreamTypes, NEW p \in Pages, NEW l \in Lanes, NEW x \in Heard(p)[l],
         lagged[p] \/ Named(queue[p], l, x) \/ Named(wire[p], l, x)
  PROVE  Lost(p)
<1>1. CASE lagged[p] BY <1>1 DEF Lost
<1>2. CASE Named(queue[p], l, x)
  <2>1. PICK i \in DOMAIN queue[p] : Says(queue[p][i], l, x) BY <1>2 DEF Named
  <2>2. queue[p][i] \in Changes BY DEF StreamTypes
  <2>3. queue[p][i].kind = "change" BY <2>2 DEF Changes
  <2>4. queue[p][i].lane = l /\ x \in queue[p][i].names BY <2>1, <2>3 DEF Says
  <2> QED BY <2>4 DEF Lost
<1>3. CASE Named(wire[p], l, x)
  <2>1. PICK i \in DOMAIN wire[p] : Says(wire[p][i], l, x) BY <1>3 DEF Named
  <2> QED BY <2>1 DEF Lost, Says
<1> QED BY <1>1, <1>2, <1>3

------------------------------------------------------------------------------
(* One lemma per action.                                                     *)

\* A step of another page, or of none.
Untouched(p) ==
  /\ queue'[p] = queue[p] /\ lagged'[p] = lagged[p] /\ stream'[p] = stream[p]
  /\ attempt'[p] = attempt[p] /\ wire'[p] = wire[p] /\ session'[p] = session[p]
  /\ shown'[p] = shown[p] /\ request'[p] = request[p] /\ answer'[p] = answer[p]
  /\ missed'[p] = missed[p]

\* The step of one page leaves the others' part of the invariant.
LEMMA OthersKeep ==
  ASSUME StreamInv, StreamTypes', NEW p \in Pages, UNCHANGED storeVars,
         \A o \in Pages \ {p} : Untouched(o),
         Bounded(p)', HasRead(p)', Owed(p)'
  PROVE  StreamInv'
<1>1. SUFFICES ASSUME NEW o \in Pages \ {p} PROVE Bounded(o)' /\ HasRead(o)' /\ Owed(o)'
  BY DEF StreamInv
<1>2. Untouched(o) /\ Bounded(o) /\ HasRead(o) /\ Owed(o) BY DEF StreamInv
<1>3. /\ scope' = scope /\ query' = query /\ view' = view /\ told' = told BY DEF storeVars
<1>4. Bounded(o)' BY <1>2 DEF Bounded, Untouched
<1>5. Heard(o)' = Heard(o) BY <1>3 DEF Heard, Names, Shows
<1>6. HasRead(o)' BY <1>2, <1>5 DEF HasRead, Untouched
<1>7. (Informed(o)' <=> Informed(o)) /\ Base(o)' = Base(o)
  BY <1>2 DEF Informed, Base, Untouched
<1>8. ASSUME NEW l \in Lanes, NEW x PROVE Pending(o, l, x)' <=> Pending(o, l, x)
  BY <1>2, <1>3 DEF Pending, Untouched, Delta
<1>9. Owed(o)' BY <1>2, <1>3, <1>5, <1>7, <1>8 DEF Owed
<1> QED BY <1>4, <1>6, <1>9

\* A page whose reads and whose table are as they were still owes what it owed, as
\* long as no news of a row it hears of got lost.
LEMMA StillOwed ==
  ASSUME StreamInv, NEW p \in Pages, UNCHANGED storeVars,
         shown'[p] = shown[p], request'[p] = request[p], answer'[p] = answer[p],
         Informed(p)' => Informed(p),
         Informed(p)' =>
           \A l \in Lanes : \A x \in Heard(p)[l] :
             lagged[p] \/ Named(queue[p], l, x) \/ Named(wire[p], l, x)
               => Pending(p, l, x)'
  PROVE  HasRead(p)' /\ Owed(p)'
<1>1. scope' = scope /\ query' = query /\ view' = view /\ told' = told BY DEF storeVars
<1>2. Heard(p)' = Heard(p) BY <1>1 DEF Heard, Names, Shows
<1>3. HasRead(p) /\ Owed(p) BY DEF StreamInv
<1>4. HasRead(p)' BY <1>2, <1>3 DEF HasRead
<1>5. Base(p)' = Base(p) BY DEF Base
<1>6. ASSUME NEW l \in Lanes, NEW x PROVE x \in Delta(l) => Pending(p, l, x)'
  BY <1>1 DEF Pending, Delta
<1>7. SUFFICES ASSUME Informed(p)', NEW l \in Lanes, NEW x \in Heard(p)[l]
               PROVE  (x \in Base(p)[l] <=> x \in view[l]) \/ Pending(p, l, x)'
  BY <1>1, <1>2, <1>4, <1>5 DEF Owed
<1>8. (x \in Base(p)[l] <=> x \in view[l]) \/ Pending(p, l, x)
  BY <1>3, <1>7 DEF Owed
<1> QED BY <1>6, <1>7, <1>8 DEF Pending

\* Connect, WaitPasses and SessionEnds move the stream alone. None of them makes a
\* page informed that was not: a stream opens only with a session.
LEMMA StreamMoves ==
  ASSUME StreamInv, NEW p \in Pages, Connect(p) \/ WaitPasses(p) \/ SessionEnds(p)
  PROVE  StreamInv'
<1> USE DEF storeVars, busVars, streamVars, pageVars
<1>1. /\ UNCHANGED <<scope, query, view, told, queue, lagged, attempt, wire>>
      /\ UNCHANGED <<shown, request, answer, missed>>
  BY DEF Connect, WaitPasses, SessionEnds
<1>2. /\ stream' \in [Pages -> {"connecting", "open", "closing", "retry", "stopped"}]
      /\ session' \in [Pages -> BOOLEAN]
      /\ \A o \in Pages \ {p} : stream'[o] = stream[o] /\ session'[o] = session[o]
  BY DEF Connect, WaitPasses, SessionEnds, StreamInv, StreamTypes
<1>3. StreamTypes' BY <1>1, <1>2 DEF StreamInv, StreamTypes
<1>4. \A o \in Pages \ {p} : Untouched(o) BY <1>1, <1>2 DEF Untouched
<1>5. /\ session'[p] => session[p]
      /\ stream'[p] = "open" => stream[p] = "open" \/ session[p]
      /\ stream'[p] = "closing" <=> stream[p] = "closing"
      /\ stream[p] = "open" => stream'[p] = "open"
      /\ stream[p] = "stopped" <=> (stream'[p] = "stopped" /\ ~Connect(p))
  BY DEF Connect, WaitPasses, SessionEnds, StreamInv, StreamTypes
<1>6. Bounded(p)
  BY DEF StreamInv
<1>7. Bounded(p)' BY <1>1, <1>5, <1>6 DEF Bounded, Connect
<1>8. Informed(p)' => Informed(p) BY <1>1, <1>5 DEF Informed
<1>9. \A l \in Lanes : \A x \in Heard(p)[l] :
        lagged[p] \/ Named(queue[p], l, x) \/ Named(wire[p], l, x) => Pending(p, l, x)'
  BY <1>1 DEF Pending
<1>10. HasRead(p)' /\ Owed(p)' BY <1>1, <1>8, <1>9, StillOwed
<1> QED BY <1>1, <1>3, <1>4, <1>7, <1>10, OthersKeep

\* A lagged receiver tells its page to read everything again.
LEMMA RecvLaggedKeeps ==
  ASSUME StreamInv, NEW p \in Pages, RecvLagged(p)
  PROVE  StreamInv'
<1> USE DEF storeVars, pageVars
<1>1. /\ UNCHANGED <<scope, query, view, told, queue, attempt, session, stream>>
      /\ UNCHANGED <<shown, request, answer, missed>>
      /\ stream[p] = "open" /\ lagged[p] /\ Len(wire[p]) < WireCap
      /\ lagged' = [lagged EXCEPT ![p] = FALSE]
      /\ wire' = [wire EXCEPT ![p] = Append(wire[p], Resync)]
  BY DEF RecvLagged
<1>2. wire[p] \in Seq(Frames) /\ Resync \in Frames BY DEF StreamInv, StreamTypes, Frames
<1>3. wire' \in [Pages -> Seq(Frames)] /\ lagged' \in [Pages -> BOOLEAN]
  BY <1>1, <1>2 DEF StreamInv, StreamTypes
<1>4. StreamTypes' BY <1>1, <1>3 DEF StreamInv, StreamTypes
<1>5. wire'[p] = Append(wire[p], Resync) /\ ~lagged'[p] BY <1>1 DEF StreamInv, StreamTypes
<1>6. \A o \in Pages \ {p} : Untouched(o)
  BY <1>1 DEF Untouched, StreamInv, StreamTypes
<1>7. Bounded(p) BY DEF StreamInv
<1>8. Bounded(p)'
  <2>1. Len(wire'[p]) = Len(wire[p]) + 1 /\ DOMAIN wire[p] = 1 .. Len(wire[p])
        /\ DOMAIN wire'[p] = 1 .. Len(wire[p]) + 1
        /\ wire'[p][Len(wire[p]) + 1] = Resync
        /\ \A i \in DOMAIN wire[p] : wire'[p][i] = wire[p][i]
    BY <1>2, <1>5
  <2>2. Resync.kind = "resync" BY DEF Resync, Change
  <2>3. Len(wire[p]) \in Nat /\ WireCap \in Nat BY <1>2, UpdateAssumption
  <2>4. \A i \in DOMAIN wire[p] : wire[p][i].kind # "error" BY <1>1, <1>7 DEF Bounded
  <2>5. \A i \in DOMAIN wire'[p] : wire'[p][i].kind # "error" BY <2>1, <2>2, <2>3, <2>4
  <2>6. Len(wire'[p]) <= WireCap BY <1>1, <2>1, <2>3
  <2> QED BY <1>1, <1>5, <1>7, <2>5, <2>6 DEF Bounded
<1>9. ASSUME NEW l \in Lanes, NEW x PROVE Pending(p, l, x)'
  <2>1. Says(Resync, l, x) BY DEF Says, Resync, Change
  <2>2. Named(wire'[p], l, x) BY <1>2, <1>5, <2>1, NamedAppend
  <2> QED BY <2>2 DEF Pending
<1>10. Informed(p)' => Informed(p) BY <1>1 DEF Informed
<1>11. HasRead(p)' /\ Owed(p)' BY <1>1, <1>9, <1>10, StillOwed
<1> QED BY <1>1, <1>4, <1>6, <1>8, <1>11, OthersKeep

\* A frame for the wire that is not an error keeps the bounds of an open stream.
LEMMA FrameFits ==
  ASSUME NEW w \in Seq(Frames), NEW frame \in Frames, Len(w) < WireCap
  PROVE  /\ Append(w, frame) \in Seq(Frames) /\ Len(Append(w, frame)) <= WireCap
         /\ \A i \in DOMAIN Append(w, frame) :
              \/ i \in DOMAIN w /\ i < Len(Append(w, frame)) /\ Append(w, frame)[i] = w[i]
              \/ i = Len(Append(w, frame)) /\ Append(w, frame)[i] = frame
<1>1. Len(w) \in Nat /\ WireCap \in Nat BY UpdateAssumption
<1>2. /\ Append(w, frame) \in Seq(Frames) /\ Len(Append(w, frame)) = Len(w) + 1
      /\ DOMAIN Append(w, frame) = 1 .. Len(w) + 1 /\ DOMAIN w = 1 .. Len(w)
      /\ Append(w, frame)[Len(w) + 1] = frame
      /\ \A i \in 1 .. Len(w) : Append(w, frame)[i] = w[i]
  OBVIOUS
<1> QED BY <1>1, <1>2

\* A change that is received goes on as a frame that names every row of it the page
\* hears of. Without a session the stream ends, and the page is informed no more.
LEMMA RecvKeeps ==
  ASSUME StreamInv, NEW p \in Pages, Recv(p)
  PROVE  StreamInv'
<1> USE DEF storeVars, pageVars
<1> DEFINE change == Head(queue[p])
           names == Scoped(p, change)
           frame == [change EXCEPT !.names = names]
<1>1. /\ UNCHANGED <<scope, query, view, told, lagged, attempt, session>>
      /\ UNCHANGED <<shown, request, answer, missed>>
      /\ stream[p] = "open" /\ ~lagged[p] /\ queue[p] # <<>> /\ Len(wire[p]) < WireCap
  BY DEF Recv
<1>2. /\ wire[p] \in Seq(Frames) /\ queue[p] \in Seq(Changes) /\ StreamTypes
      /\ Tail(queue[p]) \in Seq(Changes) /\ Len(Tail(queue[p])) <= Len(queue[p])
      /\ Len(queue[p]) \in Nat /\ Capacity \in Nat
  BY <1>1, UpdateAssumption DEF StreamInv, StreamTypes
<1>3. change \in Changes BY <1>1, <1>2
<1>4. Bounded(p) BY DEF StreamInv
<1>5. \A i \in DOMAIN wire[p] : wire[p][i].kind # "error" BY <1>1, <1>4 DEF Bounded
<1>6. CASE Denied(p)
  <2>1. /\ wire' = [wire EXCEPT ![p] = Append(wire[p], Ended)]
        /\ stream' = [stream EXCEPT ![p] = "closing"]
        /\ queue' = [queue EXCEPT ![p] = <<>>]
    BY <1>6 DEF Recv
  <2>2. Ended \in Frames BY DEF Frames
  <2>3. /\ wire' \in [Pages -> Seq(Frames)] /\ queue' \in [Pages -> Seq(Changes)]
        /\ stream' \in [Pages -> {"connecting", "open", "closing", "retry", "stopped"}]
    BY <1>2, <2>1, <2>2, FrameFits DEF StreamTypes
  <2>4. StreamTypes' BY <1>1, <1>2, <2>3 DEF StreamTypes
  <2>5. wire'[p] = Append(wire[p], Ended) /\ stream'[p] = "closing" /\ queue'[p] = <<>>
    BY <1>2, <2>1 DEF StreamTypes
  <2>6. \A o \in Pages \ {p} : Untouched(o)
    BY <1>1, <1>2, <2>1 DEF Untouched, StreamTypes
  <2>7. Len(wire'[p]) <= WireCap /\ \A i \in DOMAIN wire'[p] :
          wire'[p][i].kind = "error" => i = Len(wire'[p])
    BY <1>1, <1>2, <1>5, <2>2, <2>5, FrameFits
  <2>8. Len(queue'[p]) <= Capacity BY <1>2, <2>5
  <2>9. Bounded(p)' BY <1>1, <1>4, <2>5, <2>7, <2>8 DEF Bounded
  <2>10. ~Informed(p)' BY <1>1, <1>6, <2>5 DEF Informed, Denied
  <2>11. HasRead(p)' /\ Owed(p)' BY <1>1, <2>10, StillOwed
  <2> QED BY <1>1, <2>4, <2>6, <2>9, <2>11, OthersKeep
<1>7. CASE ~Denied(p)
  <2>1. /\ wire' = IF names = {} THEN wire ELSE [wire EXCEPT ![p] = Append(wire[p], frame)]
        /\ queue' = [queue EXCEPT ![p] = Tail(queue[p])]
        /\ UNCHANGED stream
    BY <1>7 DEF Recv
  <2>2. names \subseteq change.names BY <1>2, <1>3, ScopedKeeps
  <2>3. frame \in Changes /\ frame.lane = change.lane /\ frame.names = names
        /\ frame.kind = "change"
    BY <1>3, <2>2 DEF Changes
  <2>4. frame \in Frames BY <2>3 DEF Frames
  <2>5. /\ queue' \in [Pages -> Seq(Changes)] /\ queue'[p] = Tail(queue[p])
        /\ \A o \in Pages \ {p} : queue'[o] = queue[o]
    BY <1>2, <2>1 DEF StreamTypes
  <2>6. /\ wire' \in [Pages -> Seq(Frames)]
        /\ wire'[p] = IF names = {} THEN wire[p] ELSE Append(wire[p], frame)
        /\ \A o \in Pages \ {p} : wire'[o] = wire[o]
    BY <1>1, <1>2, <2>1, <2>4, FrameFits DEF StreamTypes
  <2>7. StreamTypes' BY <1>1, <1>2, <2>1, <2>5, <2>6 DEF StreamTypes
  <2>8. \A o \in Pages \ {p} : Untouched(o) BY <1>1, <2>1, <2>5, <2>6 DEF Untouched
  <2>9. Len(wire'[p]) <= WireCap /\ \A i \in DOMAIN wire'[p] : wire'[p][i].kind # "error"
    <3>1. CASE names = {} BY <1>4, <1>5, <2>6, <3>1 DEF Bounded
    <3>2. CASE names # {} BY <1>1, <1>2, <1>5, <2>3, <2>4, <2>6, <3>2, FrameFits
    <3> QED BY <3>1, <3>2
  <2>10. Len(queue'[p]) <= Capacity BY <1>2, <1>4, <2>5 DEF Bounded
  <2>11. Bounded(p)' BY <1>1, <1>4, <2>1, <2>9, <2>10 DEF Bounded
  <2>12. ASSUME NEW l \in Lanes, NEW x \in Heard(p)[l],
                Named(queue[p], l, x) \/ Named(wire[p], l, x)
         PROVE  Named(queue'[p], l, x) \/ Named(wire'[p], l, x)
    <3>1. CASE Named(wire[p], l, x)
      BY <1>2, <2>4, <2>6, <3>1, NamedAppend
    <3>2. CASE Named(queue[p], l, x) /\ ~Named(Tail(queue[p]), l, x)
      <4>1. Says(change, l, x) BY <1>1, <1>2, <3>2, NamedTail
      <4>2. change.kind = "change" BY <1>3 DEF Changes
      <4>3. change.lane = l /\ x \in change.names BY <4>1, <4>2 DEF Says
      <4>4. x \in names BY <1>2, <1>3, <4>3, ScopedKeeps
      <4>5. Says(frame, l, x) BY <2>3, <4>3, <4>4 DEF Says
      <4>6. wire'[p] = Append(wire[p], frame) BY <2>6, <4>4
      <4> QED BY <1>2, <2>4, <4>5, <4>6, NamedAppend
    <3> QED BY <2>5, <2>12, <3>1, <3>2
  <2>13. Informed(p)' => Informed(p) BY <1>1, <2>1 DEF Informed
  <2>14. \A l \in Lanes : \A x \in Heard(p)[l] :
           lagged[p] \/ Named(queue[p], l, x) \/ Named(wire[p], l, x) => Pending(p, l, x)'
    BY <1>1, <2>12 DEF Pending
  <2>15. HasRead(p)' /\ Owed(p)' BY <1>1, <2>13, <2>14, StillOwed
  <2> QED BY <1>1, <2>7, <2>8, <2>11, <2>15, OthersKeep
<1> QED BY <1>6, <1>7

\* A connection that breaks loses what was on its way, and the page has missed it.
LEMMA DisconnectKeeps ==
  ASSUME StreamInv, NEW p \in Pages, Disconnect(p)
  PROVE  StreamInv'
<1> USE DEF storeVars, pageVars
<1>1. /\ UNCHANGED <<scope, query, view, told, session, shown, request, answer>>
      /\ stream[p] \in {"connecting", "open"}
      /\ stream' = [stream EXCEPT ![p] = Retry(p)]
      /\ attempt' = [attempt EXCEPT ![p] = attempt[p] + 1]
      /\ queue' = [queue EXCEPT ![p] = <<>>] /\ wire' = [wire EXCEPT ![p] = <<>>]
      /\ lagged' = [lagged EXCEPT ![p] = FALSE]
      /\ missed' = [missed EXCEPT ![p] = missed[p] \/ Lost(p)]
  BY DEF Disconnect
<1>2. StreamTypes /\ Bounded(p) BY DEF StreamInv
<1>3. /\ stream'[p] = Retry(p) /\ attempt'[p] = attempt[p] + 1
      /\ queue'[p] = <<>> /\ wire'[p] = <<>> /\ ~lagged'[p]
      /\ missed'[p] <=> missed[p] \/ Lost(p)
  BY <1>1, <1>2 DEF StreamTypes
<1>4. \A o \in Pages \ {p} : Untouched(o) BY <1>1, <1>2 DEF Untouched, StreamTypes
<1>5. attempt[p] \in Nat /\ attempt[p] + 1 \in Nat /\ Attempts \in Nat
  BY <1>2, UpdateAssumption DEF StreamTypes
<1>6. Retry(p) = IF attempt[p] + 1 > Attempts THEN "stopped" ELSE "retry" BY DEF Retry
<1>7. /\ stream' \in [Pages -> {"connecting", "open", "closing", "retry", "stopped"}]
      /\ attempt' \in [Pages -> Nat]
      /\ queue' \in [Pages -> Seq(Changes)] /\ wire' \in [Pages -> Seq(Frames)]
      /\ lagged' \in [Pages -> BOOLEAN]
  BY <1>1, <1>2, <1>5, <1>6 DEF StreamTypes
<1>8. (missed[p] \/ Lost(p)) \in BOOLEAN OBVIOUS
<1>9. missed' \in [Pages -> BOOLEAN] BY <1>1, <1>2, <1>8 DEF StreamTypes
<1>10. StreamTypes' BY <1>1, <1>2, <1>7, <1>9 DEF StreamTypes
<1>11. Bounded(p)'
  <2>1. attempt[p] <= Attempts BY <1>1, <1>2 DEF Bounded
  <2>2. /\ attempt'[p] <= Attempts + 1
        /\ stream'[p] # "stopped" => attempt'[p] <= Attempts
        /\ stream'[p] # "open"
    BY <1>3, <1>5, <1>6, <2>1
  <2>3. Len(queue'[p]) <= Capacity /\ Len(wire'[p]) <= WireCap
    BY <1>3, UpdateAssumption
  <2> QED BY <1>3, <2>2, <2>3 DEF Bounded
<1>12. Informed(p)' => Informed(p) /\ ~Lost(p)
  BY <1>1, <1>3, <1>6 DEF Informed
<1>13. Informed(p)' =>
         \A l \in Lanes : \A x \in Heard(p)[l] :
           lagged[p] \/ Named(queue[p], l, x) \/ Named(wire[p], l, x)
             => Pending(p, l, x)'
  BY <1>2, <1>12, LostNews
<1>14. HasRead(p)' /\ Owed(p)' BY <1>1, <1>12, <1>13, StillOwed
<1> QED BY <1>1, <1>4, <1>10, <1>11, <1>14, OthersKeep

\* A frame that is delivered makes the page read again, or says nothing of what it
\* hears of; the first read goes on, and has missed the change if it was answered.
LEMMA DeliverKeeps ==
  ASSUME StreamInv, NEW p \in Pages, Deliver(p)
  PROVE  StreamInv'
<1> USE DEF storeVars, busVars
<1> DEFINE frame == Head(wire[p])
           again == Invalidates(p, frame)
           first == shown[p] = None /\ request[p] \in {"asked", "answered"}
<1>1. /\ UNCHANGED <<scope, query, view, told, queue, lagged, session, shown>>
      /\ wire[p] # <<>>
      /\ wire' = [wire EXCEPT ![p] = Tail(wire[p])]
      /\ request' = IF again /\ ~first THEN [request EXCEPT ![p] = "asked"] ELSE request
      /\ answer' = IF again /\ ~first THEN [answer EXCEPT ![p] = None] ELSE answer
      /\ missed' = [missed EXCEPT ![p] =
                      missed[p] \/ (again /\ first /\ request[p] = "answered")]
  BY DEF Deliver
<1>2. frame.kind = "error" =>
        /\ attempt' = [attempt EXCEPT ![p] = 1]
        /\ stream' = [stream EXCEPT ![p] = IF Attempts = 0 THEN "stopped" ELSE "retry"]
  BY DEF Deliver
<1>3. frame.kind # "error" => attempt' = [attempt EXCEPT ![p] = 0] /\ stream' = stream
  BY DEF Deliver
<1>4. StreamTypes /\ Bounded(p) /\ HasRead(p) BY DEF StreamInv
<1>5. /\ wire[p] \in Seq(Frames) /\ Tail(wire[p]) \in Seq(Frames)
      /\ Len(wire[p]) \in Nat \ {0} /\ Len(Tail(wire[p])) = Len(wire[p]) - 1
      /\ DOMAIN wire[p] = 1 .. Len(wire[p])
      /\ DOMAIN Tail(wire[p]) = 1 .. Len(wire[p]) - 1
      /\ frame = wire[p][1]
      /\ \A i \in 1 .. Len(wire[p]) - 1 : Tail(wire[p])[i] = wire[p][i + 1]
  BY <1>1, <1>4 DEF StreamTypes
<1>6. /\ wire'[p] = Tail(wire[p]) /\ wire' \in [Pages -> Seq(Frames)]
      /\ missed'[p] <=> missed[p] \/ (again /\ first /\ request[p] = "answered")
      /\ \A o \in Pages \ {p} : wire'[o] = wire[o] /\ missed'[o] = missed[o]
  BY <1>1, <1>4, <1>5 DEF StreamTypes
<1>7. (missed[p] \/ (again /\ first /\ request[p] = "answered")) \in BOOLEAN OBVIOUS
<1>8. missed' \in [Pages -> BOOLEAN] BY <1>1, <1>4, <1>7 DEF StreamTypes
<1>9. /\ request' \in [Pages -> {"none", "asked", "answered", "failed"}]
      /\ answer' \in [Pages -> Tables \cup {None}]
      /\ \A o \in Pages \ {p} : request'[o] = request[o] /\ answer'[o] = answer[o]
  <2>1. CASE again /\ ~first BY <1>1, <1>4, <2>1 DEF StreamTypes
  <2>2. CASE ~(again /\ ~first) BY <1>1, <1>4, <2>2 DEF StreamTypes
  <2> QED BY <2>1, <2>2
<1>10. /\ attempt' \in [Pages -> Nat]
       /\ stream' \in [Pages -> {"connecting", "open", "closing", "retry", "stopped"}]
       /\ \A o \in Pages \ {p} : attempt'[o] = attempt[o] /\ stream'[o] = stream[o]
       /\ frame.kind = "error" =>
            attempt'[p] = 1 /\ stream'[p] = IF Attempts = 0 THEN "stopped" ELSE "retry"
       /\ frame.kind # "error" => attempt'[p] = 0 /\ stream'[p] = stream[p]
  <2>1. CASE frame.kind = "error"
    <3>1. PICK s \in {"stopped", "retry"} : s = IF Attempts = 0 THEN "stopped" ELSE "retry"
      OBVIOUS
    <3>2. attempt' = [attempt EXCEPT ![p] = 1] /\ stream' = [stream EXCEPT ![p] = s]
      BY <1>2, <2>1, <3>1
    <3> HIDE DEF frame
    <3>3. /\ attempt' \in [Pages -> Nat] /\ attempt'[p] = 1
          /\ \A o \in Pages \ {p} : attempt'[o] = attempt[o]
      BY <1>4, <3>2 DEF StreamTypes
    <3>4. /\ stream' \in [Pages -> {"connecting", "open", "closing", "retry", "stopped"}]
          /\ stream'[p] = s /\ \A o \in Pages \ {p} : stream'[o] = stream[o]
      BY <1>4, <3>2 DEF StreamTypes
    <3> QED BY <2>1, <3>1, <3>3, <3>4
  <2>2. CASE frame.kind # "error"
    <3>1. attempt' = [attempt EXCEPT ![p] = 0] /\ stream' = stream BY <1>3, <2>2
    <3> HIDE DEF frame
    <3>2. /\ attempt' \in [Pages -> Nat] /\ attempt'[p] = 0
          /\ \A o \in Pages \ {p} : attempt'[o] = attempt[o]
      BY <1>4, <3>1 DEF StreamTypes
    <3> QED BY <1>4, <2>2, <3>1, <3>2 DEF StreamTypes
  <2> QED BY <2>1, <2>2
<1>11. StreamTypes' BY <1>1, <1>4, <1>6, <1>8, <1>9, <1>10 DEF StreamTypes
<1>12. \A o \in Pages \ {p} : Untouched(o) BY <1>1, <1>6, <1>9, <1>10 DEF Untouched
<1>13. Len(wire'[p]) <= WireCap BY <1>4, <1>5, <1>6, UpdateAssumption DEF Bounded
<1>14. Bounded(p)'
  <2>1. CASE frame.kind = "error"
    <3>1. stream[p] = "closing" /\ Len(wire[p]) = 1
      <4>1. 1 \in DOMAIN wire[p] /\ wire[p][1].kind = "error" BY <1>5, <2>1
      <4> QED BY <1>4, <4>1 DEF Bounded
    <3>2. DOMAIN wire'[p] = {} BY <1>5, <1>6, <3>1
    <3>3. /\ attempt'[p] <= Attempts + 1 /\ stream'[p] # "open"
          /\ stream'[p] # "stopped" => attempt'[p] <= Attempts
      BY <1>10, <2>1, UpdateAssumption
    <3>4. queue'[p] = <<>> /\ ~lagged'[p] /\ Len(queue'[p]) <= Capacity
      BY <1>1, <1>4, <3>1 DEF Bounded
    <3> QED BY <1>13, <3>2, <3>3, <3>4 DEF Bounded
  <2>2. CASE frame.kind # "error"
    <3>1. attempt'[p] = 0 /\ stream'[p] = stream[p] BY <1>10, <2>2
    <3>2. attempt'[p] <= Attempts + 1 /\ attempt'[p] <= Attempts
      BY <3>1, UpdateAssumption
    <3>3. ASSUME NEW i \in DOMAIN wire'[p], wire'[p][i].kind = "error"
          PROVE  stream'[p] = "closing" /\ i = Len(wire'[p])
      <4>1. i \in 1 .. Len(wire[p]) - 1 /\ wire'[p][i] = wire[p][i + 1] BY <1>5, <1>6
      <4>2. i + 1 \in DOMAIN wire[p] BY <1>5, <4>1
      <4>3. stream[p] = "closing" /\ i + 1 = Len(wire[p])
        BY <1>4, <3>3, <4>1, <4>2 DEF Bounded
      <4> QED BY <1>5, <1>6, <3>1, <4>1, <4>3
    <3> QED BY <1>1, <1>4, <1>13, <3>1, <3>2, <3>3 DEF Bounded
  <2> QED BY <2>1, <2>2
<1>15. HasRead(p)' /\ Owed(p)'
  <2>1. CASE again /\ ~first
    <3>1. request'[p] = "asked" /\ answer'[p] = None BY <1>1, <1>4, <2>1 DEF StreamTypes
    <3>2. ~Informed(p)' BY <3>1 DEF Informed
    <3>3. Heard(p)' = Heard(p) BY <1>1 DEF Heard, Names, Shows
    <3>4. HasRead(p)' BY <1>1, <1>4, <3>1, <3>3 DEF HasRead
    <3> QED BY <3>2, <3>4 DEF Owed
  <2>2. CASE ~(again /\ ~first)
    <3>1. request'[p] = request[p] /\ answer'[p] = answer[p] BY <1>1, <2>2
    <3>2. stream'[p] = "open" => stream[p] = "open" BY <1>10
    <3>3. Informed(p)' => Informed(p) BY <1>1, <1>6, <3>1, <3>2 DEF Informed
    <3>4. Informed(p)' => ~again BY <1>6, <2>2, <3>1 DEF Informed
    <3>5. ASSUME Informed(p)', NEW l \in Lanes, NEW x \in Heard(p)[l], Named(wire[p], l, x)
          PROVE  Named(wire'[p], l, x)
      BY <1>1, <1>4, <1>5, <1>6, <3>4, <3>5, NamedTail, NewsInvalidates
    <3>6. Informed(p)' =>
            \A l \in Lanes : \A x \in Heard(p)[l] :
              lagged[p] \/ Named(queue[p], l, x) \/ Named(wire[p], l, x)
                => Pending(p, l, x)'
      BY <1>1, <3>5 DEF Pending
    <3> QED BY <1>1, <3>1, <3>3, <3>6, StillOwed
  <2> QED BY <2>1, <2>2
<1> QED BY <1>1, <1>11, <1>12, <1>14, <1>15, OthersKeep

\* A read of the page, answered, shown or failed. An answer is the tables as they
\* are, so the page is owed nothing.
LEMMA ReadKeeps ==
  ASSUME StreamInv, NEW p \in Pages, Answer(p) \/ Show(p) \/ ReadFails(p)
  PROVE  StreamInv'
<1> USE DEF storeVars, busVars, streamVars
<1>1. UNCHANGED <<scope, query, view, told, queue, lagged, stream, attempt, wire, session>>
  BY DEF Answer, Show, ReadFails
<1>2. StreamTypes /\ Bounded(p) /\ HasRead(p) /\ Owed(p) BY DEF StreamInv
<1>3. Bounded(p)' BY <1>1, <1>2 DEF Bounded
<1>4. Heard(p)' = Heard(p) BY <1>1 DEF Heard, Names, Shows
<1>5. CASE Answer(p)
  <2>1. /\ shown' = shown /\ request' = [request EXCEPT ![p] = "answered"]
        /\ answer' = [answer EXCEPT ![p] = Projected(p, view)]
        /\ missed' = [missed EXCEPT ![p] = FALSE]
    BY <1>5 DEF Answer
  <2>2. /\ Projected(p, view) \in Tables
        /\ \A l \in Lanes : Projected(p, view)[l] = view[l] \cap Shows(p)[l]
    BY <1>2 DEF Projected, StreamTypes, Tables
  <2>3. StreamTypes' BY <1>1, <1>2, <2>1, <2>2 DEF StreamTypes
  <2>4. request'[p] = "answered" /\ answer'[p] = Projected(p, view) /\ shown'[p] = shown[p]
    BY <1>2, <2>1 DEF StreamTypes
  <2>5. \A o \in Pages \ {p} : Untouched(o)
    BY <1>1, <1>2, <2>1 DEF Untouched, StreamTypes
  <2>6. HasRead(p)' BY <1>2, <1>4, <2>2, <2>4 DEF HasRead
  <2>7. Base(p)' = Projected(p, view) BY <2>4 DEF Base
  <2>8. \A l \in Lanes : Heard(p)[l] \subseteq Shows(p)[l] BY <1>2, HeardRows
  <2>9. Owed(p)' BY <1>1, <1>4, <2>2, <2>7, <2>8 DEF Owed
  <2> QED BY <1>1, <1>3, <2>3, <2>5, <2>6, <2>9, OthersKeep
<1>6. CASE Show(p)
  <2>1. /\ missed' = missed /\ request[p] = "answered"
        /\ request' = [request EXCEPT ![p] = "none"]
        /\ shown' = [shown EXCEPT ![p] = answer[p]]
        /\ answer' = [answer EXCEPT ![p] = None]
    BY <1>6 DEF Show
  <2>2. answer[p] \in Tables BY <1>2, <2>1 DEF HasRead
  <2>3. StreamTypes' BY <1>1, <1>2, <2>1, <2>2 DEF StreamTypes
  <2>4. request'[p] = "none" /\ answer'[p] = None /\ shown'[p] = answer[p]
    BY <1>2, <2>1 DEF StreamTypes
  <2>5. \A o \in Pages \ {p} : Untouched(o)
    BY <1>1, <1>2, <2>1 DEF Untouched, StreamTypes
  <2>6. answer[p] # None BY <2>2, UpdateAssumption DEF Tables
  <2>7. HasRead(p)' BY <1>2, <1>4, <2>2, <2>4, <2>6 DEF HasRead
  <2>8. Base(p)' = Base(p) BY <2>1, <2>4 DEF Base
  <2>9. Informed(p)' => Informed(p) BY <1>1, <2>1 DEF Informed
  <2>10. ASSUME NEW l \in Lanes, NEW x PROVE Pending(p, l, x)' <=> Pending(p, l, x)
    BY <1>1 DEF Pending, Delta
  <2>11. Owed(p)' BY <1>1, <1>2, <1>4, <2>8, <2>9, <2>10 DEF Owed
  <2> QED BY <1>1, <1>3, <2>3, <2>5, <2>7, <2>11, OthersKeep
<1>7. CASE ReadFails(p)
  <2>1. /\ missed' = missed /\ shown' = shown
        /\ request' = [request EXCEPT ![p] = "failed"]
        /\ answer' = [answer EXCEPT ![p] = None]
    BY <1>7 DEF ReadFails
  <2>2. StreamTypes' BY <1>1, <1>2, <2>1 DEF StreamTypes
  <2>3. request'[p] = "failed" /\ answer'[p] = None /\ shown'[p] = shown[p]
    BY <1>2, <2>1 DEF StreamTypes
  <2>4. \A o \in Pages \ {p} : Untouched(o)
    BY <1>1, <1>2, <2>1 DEF Untouched, StreamTypes
  <2>5. HasRead(p)' BY <1>2, <1>4, <2>3 DEF HasRead
  <2>6. Owed(p)' BY <2>3 DEF Owed, Informed
  <2> QED BY <1>1, <1>3, <2>2, <2>4, <2>5, <2>6, OthersKeep
<1> QED BY <1>5, <1>6, <1>7

\* A commit changes rows that are not yet published, and a lane is published whole
\* before it commits again.
LEMMA CommitKeeps ==
  ASSUME StreamInv, NEW l \in Lanes, NEW t \in SUBSET Rows(l), Commit(l, t)
  PROVE  StreamInv'
<1> USE DEF busVars, streamVars, pageVars
<1>1. /\ UNCHANGED <<scope, query, told, queue, lagged, stream, attempt, wire, session>>
      /\ UNCHANGED <<shown, request, answer, missed>>
      /\ told[l] = view[l] /\ view' = [view EXCEPT ![l] = t]
  BY DEF Commit
<1>2. StreamTypes BY DEF StreamInv
<1>3. t \subseteq Items BY DEF Rows, Items
<1>4. view' \in Tables /\ view'[l] = t /\ \A k \in Lanes \ {l} : view'[k] = view[k]
  BY <1>1, <1>2, <1>3 DEF StreamTypes, Tables
<1>5. StreamTypes' BY <1>1, <1>2, <1>4 DEF StreamTypes
<1>6. SUFFICES ASSUME NEW p \in Pages PROVE Bounded(p)' /\ HasRead(p)' /\ Owed(p)'
  BY <1>5 DEF StreamInv
<1>7. Bounded(p) /\ HasRead(p) /\ Owed(p) BY DEF StreamInv
<1>8. Heard(p)' = Heard(p) /\ Base(p)' = Base(p) /\ (Informed(p)' <=> Informed(p))
  BY <1>1 DEF Heard, Names, Shows, Base, Informed
<1>9. Bounded(p)' /\ HasRead(p)' BY <1>1, <1>7, <1>8 DEF Bounded, HasRead
<1>10. SUFFICES ASSUME Informed(p), NEW k \in Lanes, NEW x \in Heard(p)[k]
                PROVE  (x \in Base(p)[k] <=> x \in view'[k]) \/ Pending(p, k, x)'
  BY <1>8, <1>9 DEF Owed
<1>11. (x \in Base(p)[k] <=> x \in view[k]) \/ Pending(p, k, x) BY <1>7, <1>10 DEF Owed
<1>12. CASE k = l
  <2>1. x \notin Delta(l) BY <1>1 DEF Delta
  <2>2. (x \in view'[l] <=> x \in view[l]) \/ x \in Delta(l)'
    BY <1>1 DEF Delta
  <2> QED BY <1>1, <1>11, <1>12, <2>1, <2>2 DEF Pending
<1>13. CASE k # l
  <2>1. view'[k] = view[k] /\ (x \in Delta(k) => x \in Delta(k)')
    BY <1>1, <1>4, <1>13 DEF Delta
  <2> QED BY <1>1, <1>11, <2>1 DEF Pending
<1> QED BY <1>12, <1>13

\* The channel of a stream keeps its bound, and what falls out of it is covered by
\* the mark that it has lagged.
LEMMA SendFits ==
  ASSUME NEW q \in Seq(Changes), NEW change \in Changes, Len(q) <= Capacity
  PROVE  /\ Send(q, change) \in Seq(Changes) /\ Len(Send(q, change)) <= Capacity
         /\ \A l, x : Says(change, l, x) => Named(Send(q, change), l, x)
         /\ \A l, x : Named(q, l, x) =>
              Named(Send(q, change), l, x) \/ Len(q) = Capacity
<1>1. Len(q) \in Nat /\ Capacity \in Nat \ {0} BY UpdateAssumption
<1>2. CASE Len(q) < Capacity
  <2>1. Send(q, change) = Append(q, change) BY <1>2 DEF Send
  <2>2. Append(q, change) \in Seq(Changes) /\ Len(Append(q, change)) = Len(q) + 1 OBVIOUS
  <2>3. \A l, x : Named(Append(q, change), l, x) <=> Named(q, l, x) \/ Says(change, l, x)
    BY NamedAppend
  <2> QED BY <1>1, <1>2, <2>1, <2>2, <2>3
<1>3. CASE ~(Len(q) < Capacity)
  <2>1. Send(q, change) = Append(Tail(q), change) BY <1>3 DEF Send
  <2>2. Len(q) = Capacity /\ q # <<>> BY <1>1, <1>3
  <2>3. Tail(q) \in Seq(Changes) /\ Len(Tail(q)) = Len(q) - 1 BY <2>2
  <2>4. /\ Append(Tail(q), change) \in Seq(Changes)
        /\ Len(Append(Tail(q), change)) = Len(Tail(q)) + 1
    BY <2>3
  <2>5. \A l, x : Says(change, l, x) => Named(Append(Tail(q), change), l, x)
    BY <2>3, NamedAppend
  <2> QED BY <1>1, <2>1, <2>2, <2>3, <2>4, <2>5
<1> QED BY <1>2, <1>3

\* What is published goes to every open stream; a page without one has missed it.
LEMMA PublishKeeps ==
  ASSUME StreamInv, NEW l \in Lanes, Publish(l)
  PROVE  StreamInv'
<1> USE DEF streamVars
<1> DEFINE change == Change("change", l, Delta(l))
<1>1. /\ UNCHANGED <<scope, query, view, stream, attempt, wire, session, shown, request, answer>>
      /\ told' = [told EXCEPT ![l] = view[l]]
      /\ queue' = [p \in Pages |->
            IF stream[p] # "open" THEN queue[p] ELSE Send(queue[p], change)]
      /\ lagged' = [p \in Pages |->
            lagged[p] \/ (stream[p] = "open" /\ Len(queue[p]) = Capacity)]
      /\ missed' = [p \in Pages |-> missed[p] \/ Unheard(p, l)]
  BY DEF Publish
<1>2. StreamTypes BY DEF StreamInv
<1>3. Delta(l) \subseteq Items BY <1>2 DEF StreamTypes, Tables, Delta
<1>4. change \in Changes BY <1>3 DEF Change, Changes
<1>5. \A x : x \in Delta(l) => Says(change, l, x) BY DEF Says, Change
<1>6. told' \in Tables /\ \A k \in Lanes \ {l} : told'[k] = told[k]
  BY <1>1, <1>2 DEF StreamTypes, Tables
<1>7. ASSUME NEW p \in Pages
      PROVE  /\ queue[p] \in Seq(Changes) /\ Len(queue[p]) <= Capacity
             /\ Bounded(p) /\ HasRead(p) /\ Owed(p)
  BY <1>2 DEF StreamInv, StreamTypes, Bounded
<1>8. queue' \in [Pages -> Seq(Changes)] BY <1>1, <1>4, <1>7, SendFits
<1>9. lagged' \in [Pages -> BOOLEAN] /\ missed' \in [Pages -> BOOLEAN]
  <2>1. \A p \in Pages :
          /\ (lagged[p] \/ (stream[p] = "open" /\ Len(queue[p]) = Capacity)) \in BOOLEAN
          /\ (missed[p] \/ Unheard(p, l)) \in BOOLEAN
    OBVIOUS
  <2> QED BY <1>1, <2>1
<1>10. StreamTypes' BY <1>1, <1>2, <1>6, <1>8, <1>9 DEF StreamTypes
<1>11. SUFFICES ASSUME NEW p \in Pages PROVE Bounded(p)' /\ HasRead(p)' /\ Owed(p)'
  BY <1>10 DEF StreamInv
<1>12. /\ queue'[p] = IF stream[p] # "open" THEN queue[p] ELSE Send(queue[p], change)
       /\ lagged'[p] <=> lagged[p] \/ (stream[p] = "open" /\ Len(queue[p]) = Capacity)
       /\ missed'[p] <=> missed[p] \/ Unheard(p, l)
  BY <1>1
<1>13. Len(queue'[p]) <= Capacity BY <1>4, <1>7, <1>12, SendFits
<1>14. Bounded(p)' BY <1>1, <1>7, <1>12, <1>13 DEF Bounded
<1>15. Heard(p)' = Heard(p) /\ Base(p)' = Base(p) BY <1>1 DEF Heard, Names, Shows, Base
<1>16. HasRead(p)' BY <1>1, <1>7, <1>15 DEF HasRead
<1>17. Informed(p)' => Informed(p) /\ ~Unheard(p, l) BY <1>1, <1>12 DEF Informed
<1>18. SUFFICES ASSUME Informed(p)', NEW k \in Lanes, NEW x \in Heard(p)[k],
                       Pending(p, k, x)
                PROVE  Pending(p, k, x)'
  BY <1>1, <1>7, <1>14, <1>15, <1>16, <1>17 DEF Owed
<1>19. CASE lagged[p] \/ Named(wire[p], k, x) BY <1>1, <1>12, <1>19 DEF Pending
<1>20. CASE Named(queue[p], k, x)
  <2>1. Named(queue'[p], k, x) \/ lagged'[p] BY <1>4, <1>7, <1>12, <1>20, SendFits
  <2> QED BY <2>1 DEF Pending
<1>21. CASE x \in Delta(k) /\ k # l
  <2>1. x \in Delta(k)' BY <1>1, <1>6, <1>21 DEF Delta
  <2> QED BY <2>1 DEF Pending
<1>22. CASE x \in Delta(k) /\ k = l
  <2>1. CASE stream[p] = "open"
    <3>1. Says(change, l, x) BY <1>5, <1>22
    <3>2. Named(queue'[p], l, x) BY <1>4, <1>7, <1>12, <2>1, <3>1, SendFits
    <3> QED BY <1>22, <3>2 DEF Pending
  <2>2. CASE stream[p] # "open"
    <3>1. request[p] = "answered" \/ shown[p] \in Tables
      BY <1>7, <1>17, <1>18 DEF HasRead, Informed
    <3>2. request[p] = "answered" \/ shown[p] # None
      BY <3>1, UpdateAssumption DEF Tables
    <3> QED BY <1>17, <1>18, <1>22, <2>2, <3>2 DEF Unheard
  <2> QED BY <2>1, <2>2
<1> QED BY <1>18, <1>19, <1>20, <1>21, <1>22 DEF Pending

------------------------------------------------------------------------------
(* The results.                                                              *)

\* Every step keeps the invariant.
LEMMA StreamStep ==
  ASSUME StreamInv, [Next]_vars
  PROVE  StreamInv'
<1>1. CASE UNCHANGED vars
  <2>1. /\ UNCHANGED <<scope, query, view, told, queue, lagged, stream, attempt, wire>>
        /\ UNCHANGED <<session, shown, request, answer, missed>>
    BY <1>1 DEF vars, storeVars, busVars, streamVars, pageVars
  <2>2. StreamTypes' BY <2>1 DEF StreamInv, StreamTypes
  <2>3. ASSUME NEW p \in Pages PROVE Bounded(p)' /\ HasRead(p)' /\ Owed(p)'
    <3>1. Bounded(p) /\ HasRead(p) /\ Owed(p) BY DEF StreamInv
    <3>2. Heard(p)' = Heard(p) BY <2>1 DEF Heard, Names, Shows
    <3>3. Bounded(p)' /\ HasRead(p)' BY <2>1, <3>1 DEF Bounded, HasRead
    <3>4. Owed(p)' BY <2>1, <3>1, <3>2 DEF Owed, Informed, Base, Pending, Delta
    <3> QED BY <3>3, <3>4
  <2> QED BY <2>2, <2>3 DEF StreamInv
<1>2. ASSUME NEW l \in Lanes, Publish(l) PROVE StreamInv' BY <1>2, PublishKeeps
<1>3. ASSUME NEW l \in Lanes, NEW t \in SUBSET Rows(l), Commit(l, t) PROVE StreamInv'
  BY <1>3, CommitKeeps
<1>4. ASSUME NEW p \in Pages, RecvLagged(p) PROVE StreamInv' BY <1>4, RecvLaggedKeeps
<1>5. ASSUME NEW p \in Pages, Recv(p) PROVE StreamInv' BY <1>5, RecvKeeps
<1>6. ASSUME NEW p \in Pages, Disconnect(p) PROVE StreamInv' BY <1>6, DisconnectKeeps
<1>7. ASSUME NEW p \in Pages, Connect(p) \/ WaitPasses(p) \/ SessionEnds(p)
      PROVE  StreamInv'
  BY <1>7, StreamMoves
<1>8. ASSUME NEW p \in Pages, Deliver(p) PROVE StreamInv' BY <1>8, DeliverKeeps
<1>9. ASSUME NEW p \in Pages, Answer(p) \/ Show(p) \/ ReadFails(p) PROVE StreamInv'
  BY <1>9, ReadKeeps
<1> QED BY <1>1, <1>2, <1>3, <1>4, <1>5, <1>6, <1>7, <1>8, <1>9 DEF Next

\* The pages are opened before they have read anything: nothing is on its way, and
\* nothing is owed.
LEMMA StreamInit == Init => StreamInv
<1> SUFFICES ASSUME Init PROVE StreamInv OBVIOUS
<1>1. StreamTypes BY DEF Init, StreamTypes, Tables
<1>2. ASSUME NEW p \in Pages PROVE Bounded(p) /\ HasRead(p) /\ Owed(p)
  <2>1. Bounded(p) BY UpdateAssumption DEF Init, Bounded
  <2>2. HasRead(p) BY DEF Init, HasRead
  <2>3. Owed(p) BY DEF Init, Owed, Informed
  <2> QED BY <2>1, <2>2, <2>3
<1> QED BY <1>1, <1>2 DEF StreamInv

\* Whatever the streams lose, a row in its scope that an informed page has read
\* otherwise than the store has it is unpublished, or in the stream's queue, on the wire, or covered by
\* the receiver's mark that it lagged (bus.rs, updates.rs, updates.ts).
THEOREM StreamsAreSound == Spec => []StreamInv
<1>1. StreamInv /\ [Next]_vars => StreamInv' BY StreamStep
<1> QED BY <1>1, StreamInit, PTL DEF Spec

\* The channels and the attempts stay in their bounds, and a stream that is not open
\* holds nothing of the bus (ChangeBus, pump()).
THEOREM StreamsStayBounded == Spec => []TypeOK
<1>1. ASSUME StreamInv PROVE TypeOK
  <2>1. StreamTypes /\ \A p \in Pages : Bounded(p) BY <1>1 DEF StreamInv
  <2>2. \A p \in Pages : attempt[p] \in 0 .. Attempts + 1
    BY <2>1, UpdateAssumption DEF StreamTypes, Bounded
  <2> QED BY <2>1, <2>2 DEF StreamTypes, Bounded, TypeOK, Tables
<1> QED BY <1>1, StreamsAreSound, PTL

\* A page whose stream is open and drained shows the rows it hears of as the tables
\* have them, unless it missed a change: with nothing on its way, nothing is owed.
\* Rows outside the stream's scope, such as a topic's groups, are not promised.
THEOREM PagesStayFresh == Spec => []PageFresh
<1>1. ASSUME StreamInv PROVE PageFresh
  <2>1. SUFFICES ASSUME NEW p \in Pages, Idle(p), ~missed[p], NEW l \in Lanes
                 PROVE  shown[p][l] \cap Heard(p)[l] = view[l] \cap Heard(p)[l]
    BY DEF PageFresh
  <2>2. StreamTypes /\ HasRead(p) /\ Owed(p) BY <1>1 DEF StreamInv
  <2>3. /\ view = told /\ stream[p] = "open" /\ queue[p] = <<>> /\ ~lagged[p]
        /\ wire[p] = <<>> /\ request[p] = "none"
    BY <2>1 DEF Idle
  <2>4. Informed(p) /\ Base(p) = shown[p] BY <2>1, <2>3 DEF Informed, Base
  <2>5. ASSUME NEW x PROVE ~Pending(p, l, x)
    BY <2>3, NamedEmpty DEF Pending, Delta
  <2>6. \A x \in Heard(p)[l] : x \in shown[p][l] <=> x \in view[l]
    BY <2>2, <2>4, <2>5 DEF Owed
  <2> QED BY <2>6
<1> QED BY <1>1, StreamsAreSound, PTL
=============================================================================
