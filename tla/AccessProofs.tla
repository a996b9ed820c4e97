----------------------------- MODULE AccessProofs -----------------------------
(***************************************************************************)
(* Proofs about Sessions for every set of browsers, subjects and           *)
(* memberships, every policy of roles and every bound on time, age and     *)
(* number of sign-ins, and about ToolCalls for every set of clients, every *)
(* configuration of clusters and grants, every number of permits and quota. *)
(***************************************************************************)
EXTENDS Sessions, ToolCalls, FiniteSetTheorems, TLAPS

\* What the provider vouches for: a user has an expiry after the start of time,
\* so it is never NoUser, whatever the subjects are called.
User == [sub : Subjects, groups : Memberships, exp : Nat \ {0}]

Hashes == {Hash(user) : user \in User} \union {<<>>}
Record == [sub : Subjects \union {"none"}, hash : Hashes, until : Nat]
Callback == [user : User \union {NoUser}, keep : Ids \union {0}]
Reader == [kind : {"none", "stream", "export"}, id : Ids \union {0},
           sub : Subjects \union {"none"}, stage : {"check", "read"}, late : 0..2]

TypeOK ==
  /\ now \in Nat /\ enabled \in BOOLEAN
  /\ users \in [Subjects -> User \union {NoUser}]
  /\ records \in [Ids -> Record]
  /\ cookie \in [Browsers -> Ids \union {0}]
  /\ callback \in [Browsers -> Callback]
  /\ reader \in [Browsers -> Reader]
  /\ own \in [Ids -> User \union {NoUser}]
  /\ until \in [Ids -> Nat]
  /\ ended \subseteq Ids

\* A record that is there belongs to the sign-in behind its id: it carries that
\* sign-in's hash and its end, and the id has not been signed out since.
RecordsFit ==
  \A id \in Ids :
    records[id] # NoRecord =>
      /\ own[id] \in User
      /\ records[id].sub = own[id].sub /\ records[id].hash = Hash(own[id])
      /\ records[id].until = until[id]
      /\ id \notin ended

\* A reader is late by at most the page it was reading, and it only starts to
\* read when it is not late at all.
ReadersFit ==
  \A b \in Browsers :
    reader[b].late <= 1 /\ (reader[b].stage = "read" => reader[b].late = 0)

SessionsInv == TypeOK /\ RecordsFit /\ ReadersFit /\ OwnRights

\* The hash tells two sign-ins apart: equal hashes, equal users. Leaving the
\* groups out of it would lose exactly this.
LEMMA HashTellsApart ==
  ASSUME NEW u \in User, NEW v \in User, Hash(u) = Hash(v)
  PROVE  u = v
BY DEF User, Hash

\* A session that the store still finds is of its own sign-in and not over.
LEMMA LiveIsCurrent ==
  ASSUME TypeOK, RecordsFit, NEW id \in Ids \union {0}, Live(id)
  PROVE  /\ id \in Ids /\ id \notin ended /\ now < until[id]
         /\ own[id] \in User
         /\ records[id].sub = own[id].sub /\ records[id].hash = Hash(own[id])
<1>1. id \in Ids BY DEF Live
<1>2. records[id] # NoRecord BY <1>1 DEF Live, NoRecord, TypeOK
<1> QED BY <1>1, <1>2 DEF RecordsFit, Live

\* A request is answered as the user of its own sign-in: the cached user's hash
\* is the one the session stored.
LEMMA VerifiedIsOwn ==
  ASSUME TypeOK, RecordsFit, NEW id \in Ids \union {0}, Verified(id)
  PROVE  UserOf(id) = own[id] /\ Live(id)
<1>1. Live(id) BY DEF Verified, UserOf
<1>2. own[id] \in User /\ own[id].sub \in Subjects /\ records[id].sub = own[id].sub
  BY <1>1, LiveIsCurrent DEF User
<1>3. UserOf(id) \in User
  BY <1>1, <1>2 DEF Verified, UserOf, LiveUser, TypeOK
<1>4. Hash(UserOf(id)) = Hash(own[id]) BY <1>1, LiveIsCurrent DEF Verified
<1> QED BY <1>1, <1>2, <1>3, <1>4, HashTellsApart

\* A reader that is not denied has a session that is not over.
LEMMA NotDeniedNotOver ==
  ASSUME TypeOK, RecordsFit, NEW b \in Browsers, ~Denied(b)
  PROVE  ~Over(b)
<1>1. CASE ~enabled BY <1>1 DEF Over
<1>2. CASE enabled
  <2>1. Revalidate(reader[b].id, reader[b].sub) # Nobody
    BY DEF Denied, RefusedRead, Shown, InScope, Nobody
  <2>2. Live(reader[b].id) BY <1>2, <2>1 DEF Revalidate
  <2>3. reader[b].id \in Ids \union {0} BY DEF TypeOK, Reader
  <2>4. reader[b].id \in Ids /\ reader[b].id \notin ended /\ now < until[reader[b].id]
    BY <2>2, <2>3, LiveIsCurrent
  <2>5. now \in Nat /\ until[reader[b].id] \in Nat BY <2>4 DEF TypeOK
  <2> QED BY <2>4, <2>5 DEF Over
<1> QED BY <1>1, <1>2 DEF TypeOK

\* Flushing a session drops its record, so that every record left still fits.
LEMMA FlushKeeps ==
  ASSUME TypeOK, RecordsFit, NEW b \in Browsers, NEW id \in Ids \union {0},
         Flush(b, id), UNCHANGED <<own, until>>
  PROVE  /\ records' \in [Ids -> Record]
         /\ cookie' \in [Browsers -> Ids \union {0}]
         /\ ended' \subseteq Ids
         /\ RecordsFit'
<1>1. NoRecord \in Record BY DEF NoRecord, Record, Hashes
<1>2. records' \in [Ids -> Record] BY <1>1 DEF Flush, TypeOK
<1>3. cookie' \in [Browsers -> Ids \union {0}] BY DEF Flush, TypeOK
<1>4. ended' \subseteq Ids BY DEF Flush, TypeOK
<1>5. RecordsFit' BY <1>2 DEF Flush, RecordsFit
<1> QED BY <1>2, <1>3, <1>4, <1>5

\* Every step keeps the invariant. Only Remember writes a record, and it writes
\* the sign-in with it; every step that could outdate an answer forgets it.
LEMMA SessionsStep ==
  ASSUME SessionsInv, [Next]_vars
  PROVE  SessionsInv'
<1> USE SessionsAssumption DEF SessionsInv, vars, caches, browsing, history
<1>1. ASSUME answered' = NoAnswer PROVE OwnRights' BY <1>1 DEF OwnRights
<1>2. ASSUME UNCHANGED reader PROVE ReadersFit' BY <1>2 DEF ReadersFit
<1>3. ASSUME UNCHANGED <<records, own, until, ended>> PROVE RecordsFit'
  BY <1>3 DEF RecordsFit
<1>4. CASE Tick
  <2>1. TypeOK' BY <1>4 DEF Tick, TypeOK
  <2> QED BY <1>1, <1>2, <1>3, <1>4, <2>1 DEF Tick
<1>5. ASSUME NEW b \in Browsers, Login(b) PROVE SessionsInv'
  <2>1. TypeOK' BY <1>5 DEF Login, TypeOK
  <2> QED BY <1>1, <1>2, <1>3, <1>5, <2>1 DEF Login
<1>6. ASSUME NEW b \in Browsers, NEW state, CallbackFails(b, state) PROVE SessionsInv'
  <2>1. cookie[b] \in Ids \union {0} BY DEF TypeOK
  <2>2. Flush(b, cookie[b]) /\ answered' = NoAnswer BY <1>6 DEF CallbackFails, LoginError
  <2>3. UNCHANGED <<now, enabled, users, callback, reader, own, until>>
    BY <1>6 DEF CallbackFails
  <2>4. TypeOK' /\ RecordsFit' BY <2>1, <2>2, <2>3, FlushKeeps DEF TypeOK
  <2> QED BY <1>1, <1>2, <2>2, <2>3, <2>4
<1>7. ASSUME NEW b \in Browsers, NEW state, NEW sub \in Subjects,
             NEW groups \in Memberships, NEW claimed \in 0..MaxTime,
             Exchange(b, state, sub, groups, claimed)
      PROVE  SessionsInv'
  <2>1. cookie[b] \in Ids \union {0} BY DEF TypeOK
  <2>2. UNCHANGED <<now, enabled, users, reader, own, until>> /\ answered' = NoAnswer
    BY <1>7 DEF Exchange
  <2>3. Capped(claimed) \in Nat \ {0} BY <1>7 DEF Exchange, Capped, TypeOK
  <2>4. callback' \in [Browsers -> Callback]
    BY <1>7, <2>1, <2>3 DEF Exchange, TypeOK, Callback, User
  <2>5. CASE Flush(b, cookie[b])
    <3>1. TypeOK' /\ RecordsFit' BY <2>1, <2>2, <2>4, <2>5, FlushKeeps DEF TypeOK
    <3> QED BY <1>1, <1>2, <2>2, <3>1
  <2>6. CASE UNCHANGED <<records, cookie, ended>>
    <3>1. TypeOK' BY <2>2, <2>4, <2>6 DEF TypeOK
    <3> QED BY <1>1, <1>2, <1>3, <2>2, <2>6, <3>1
  <2> QED BY <1>7, <2>5, <2>6 DEF Exchange
<1>8. ASSUME NEW b \in Browsers, Refuse(b) PROVE SessionsInv'
  <2>1. callback[b].keep \in Ids \union {0} BY DEF TypeOK, Callback
  <2>2. Flush(b, callback[b].keep) /\ answered' = NoAnswer BY <1>8 DEF Refuse, LoginError
  <2>3. UNCHANGED <<now, enabled, users, reader, own, until>> BY <1>8 DEF Refuse
  <2>4. callback' \in [Browsers -> Callback]
    BY <1>8 DEF Refuse, TypeOK, NoCallback, Callback
  <2>5. TypeOK' /\ RecordsFit' BY <2>1, <2>2, <2>3, <2>4, FlushKeeps DEF TypeOK
  <2> QED BY <1>1, <1>2, <2>2, <2>3, <2>5
<1>9. ASSUME NEW b \in Browsers, NEW id \in SessionIds(b), Remember(b, id)
      PROVE  SessionsInv'
  <2> DEFINE user == callback[b].user
             end == IF user.exp > now THEN user.exp ELSE now + 1
             record == [sub |-> user.sub, hash |-> Hash(user), until |-> end]
  <2>1. id \in Ids BY DEF SessionIds, TypeOK, Callback
  <2>2. user \in User BY <1>9 DEF Remember, TypeOK, Callback
  <2>3. end \in Nat BY <2>2 DEF TypeOK, User
  <2>4. record \in Record BY <2>2, <2>3 DEF Record, Hashes, User
  <2>5. records' = [records EXCEPT ![id] = record] BY <1>9 DEF Remember
  <2>6. own' = [own EXCEPT ![id] = user] /\ ended' = ended \ {id} BY <1>9 DEF Remember
  <2> HIDE DEF record, end
  <2>7. records'[id] = record BY <2>1, <2>5 DEF TypeOK
  <2>8. until' = [until EXCEPT ![id] = record.until] BY <1>9, <2>7 DEF Remember
  <2>9. TypeOK'
    <3>1. users' \in [Subjects -> User \union {NoUser}]
      BY <1>9, <2>2 DEF Remember, TypeOK, User
    <3>2. records' \in [Ids -> Record] BY <2>4, <2>5 DEF TypeOK
    <3>3. cookie' \in [Browsers -> Ids \union {0}] BY <1>9, <2>1 DEF Remember, TypeOK
    <3>4. callback' \in [Browsers -> Callback]
      BY <1>9 DEF Remember, TypeOK, NoCallback, Callback
    <3>5. own' \in [Ids -> User \union {NoUser}] BY <2>2, <2>6 DEF TypeOK
    <3>6. until' \in [Ids -> Nat] BY <2>4, <2>8 DEF TypeOK, Record
    <3>7. UNCHANGED <<now, enabled, reader>> /\ ended' \subseteq Ids
      BY <1>9, <2>6 DEF Remember, TypeOK
    <3> QED BY <3>1, <3>2, <3>3, <3>4, <3>5, <3>6, <3>7 DEF TypeOK
  <2>10. RecordsFit'
    <3> SUFFICES ASSUME NEW i \in Ids, records'[i] # NoRecord
                 PROVE  /\ own'[i] \in User
                        /\ records'[i].sub = own'[i].sub
                        /\ records'[i].hash = Hash(own'[i])
                        /\ records'[i].until = until'[i]
                        /\ i \notin ended'
      BY DEF RecordsFit, Hash
    <3>1. CASE i = id
      BY <2>1, <2>2, <2>6, <2>7, <2>8, <3>1 DEF record, TypeOK
    <3>2. CASE i # id
      BY <2>5, <2>6, <2>8, <3>2 DEF TypeOK, RecordsFit
    <3> QED BY <3>1, <3>2
  <2>11. UNCHANGED reader /\ answered' = NoAnswer BY <1>9 DEF Remember
  <2> QED BY <1>1, <1>2, <2>9, <2>10, <2>11
<1>10. ASSUME NEW b \in Browsers, Logout(b) \/ RequestStale(b) PROVE SessionsInv'
  <2>1. cookie[b] \in Ids \union {0} BY DEF TypeOK
  <2>2. Flush(b, cookie[b]) /\ answered' = NoAnswer BY <1>10 DEF Logout, RequestStale
  <2>3. UNCHANGED <<now, enabled, users, callback, reader, own, until>>
    BY <1>10 DEF Logout, RequestStale
  <2>4. TypeOK' /\ RecordsFit' BY <2>1, <2>2, <2>3, FlushKeeps DEF TypeOK
  <2> QED BY <1>1, <1>2, <2>2, <2>3, <2>4
<1>11. ASSUME NEW b \in Browsers, Request(b) PROVE SessionsInv'
  <2>1. cookie[b] \in Ids \union {0} BY DEF TypeOK
  <2>2. UserOf(cookie[b]) = own[cookie[b]] BY <1>11, <2>1, VerifiedIsOwn DEF Request
  <2>3. TypeOK' BY <1>11 DEF Request, TypeOK
  <2>4. OwnRights' BY <1>11, <2>2 DEF Request, OwnRights
  <2> QED BY <1>2, <1>3, <1>11, <2>3, <2>4 DEF Request
<1>12. ASSUME NEW b \in Browsers, NEW kind \in {"stream", "export"}, Open(b, kind)
       PROVE  SessionsInv'
  <2>1. cookie[b] \in Ids \union {0} BY DEF TypeOK
  <2>2. UserOf(cookie[b]).sub \in Subjects \union {"none"}
    <3>1. CASE Live(cookie[b])
      <4>1. records[cookie[b]].sub \in Subjects
        BY <2>1, <3>1, LiveIsCurrent DEF User
      <4> QED BY <3>1, <4>1 DEF UserOf, LiveUser, TypeOK, NoUser, User
    <3>2. CASE ~Live(cookie[b]) BY <3>2 DEF UserOf, NoUser
    <3> QED BY <3>1, <3>2
  <2>3. reader' \in [Browsers -> Reader]
    BY <1>12, <2>1, <2>2 DEF Open, TypeOK, Reader, Guard
  <2>4. TypeOK' BY <1>12, <2>3 DEF Open, TypeOK
  <2>5. ReadersFit' BY <1>12, <2>3 DEF Open, ReadersFit, TypeOK
  <2> QED BY <1>1, <1>3, <1>12, <2>4, <2>5 DEF Open
<1>13. ASSUME NEW b \in Browsers, Looks(b) PROVE SessionsInv'
  <2>1. ~Denied(b) => ~Over(b) BY NotDeniedNotOver
  <2>2. NoReader \in Reader BY DEF NoReader, Reader
  <2>3. reader'[b] \in Reader /\ reader'[b].late = 0
    BY <1>13, <2>1, <2>2 DEF Looks, TypeOK, Reader, NoReader
  <2>4. \A c \in Browsers : c # b => reader'[c] = reader[c] BY <1>13 DEF Looks, TypeOK
  <2>5. reader' \in [Browsers -> Reader] BY <1>13, <2>3, <2>4 DEF Looks, TypeOK
  <2>6. TypeOK' BY <1>13, <2>5 DEF Looks, TypeOK
  <2>7. ReadersFit' BY <2>3, <2>4 DEF ReadersFit
  <2> QED BY <1>1, <1>3, <1>13, <2>6, <2>7 DEF Looks
<1>14. ASSUME NEW b \in Browsers, NEW last \in BOOLEAN, SendsPage(b, last)
       PROVE  SessionsInv'
  <2>1. reader[b].late = 0 BY <1>14 DEF SendsPage, ReadersFit
  <2>2. NoReader \in Reader BY DEF NoReader, Reader
  <2>3. /\ reader'[b] \in Reader /\ reader'[b].late <= 1
        /\ reader'[b].stage = "check"
    <3>1. CASE last BY <1>14, <2>2, <3>1 DEF SendsPage, TypeOK, NoReader
    <3>2. CASE ~last
      <4> DEFINE late == IF Over(b) THEN Later(reader[b].late) ELSE 0
      <4>1. reader[b] \in Reader BY DEF TypeOK
      <4>2. reader'[b] = [reader[b] EXCEPT !.stage = "check", !.late = late]
        BY <1>14, <3>2 DEF SendsPage, TypeOK
      <4>3. late \in 0..2 /\ late <= 1 BY <2>1 DEF Later
      <4> HIDE DEF late
      <4> QED BY <4>1, <4>2, <4>3 DEF Reader
    <3> QED BY <3>1, <3>2
  <2>4. \A c \in Browsers : c # b => reader'[c] = reader[c]
    BY <1>14 DEF SendsPage, TypeOK
  <2>5. reader' \in [Browsers -> Reader] BY <1>14, <2>3, <2>4 DEF SendsPage, TypeOK
  <2>6. TypeOK' BY <1>14, <2>5 DEF SendsPage, TypeOK
  <2>7. ReadersFit' BY <2>3, <2>4 DEF ReadersFit
  <2> QED BY <1>1, <1>3, <1>14, <2>6, <2>7 DEF SendsPage
<1>15. CASE UNCHANGED vars
  BY <1>15 DEF TypeOK, RecordsFit, ReadersFit, OwnRights
<1> QED BY <1>4, <1>5, <1>6, <1>7, <1>8, <1>9, <1>10, <1>11, <1>12, <1>13, <1>14,
           <1>15 DEF Next

\* The inductive invariant of the sessions: every record in the store is the one
\* its own sign-in wrote, and no reader is further behind than its one page.
THEOREM SessionsSafe == Spec => []SessionsInv
<1>1. Init => SessionsInv
  <2> SUFFICES ASSUME Init PROVE SessionsInv OBVIOUS
  <2>1. TypeOK
    BY DEF Init, TypeOK, Record, Hashes, NoRecord, Callback, NoCallback, Reader,
           NoReader, NoUser
  <2>2. RecordsFit BY DEF Init, RecordsFit
  <2>3. ReadersFit BY DEF Init, ReadersFit, NoReader
  <2>4. OwnRights BY DEF Init, OwnRights
  <2> QED BY <2>1, <2>2, <2>3, <2>4 DEF SessionsInv
<1> QED BY <1>1, SessionsStep, PTL DEF Spec

\* A request is answered with the rights of the sign-in behind its own session,
\* however often and from wherever the same subject signs in with other groups.
THEOREM RequestsRunAsTheirSignIn == Spec => []OwnRights
<1>1. SessionsInv => OwnRights BY DEF SessionsInv
<1> QED BY <1>1, SessionsSafe, PTL

\* Once its session is signed out or past its end, a stream sends nothing more
\* and an export at most the page it was already reading.
THEOREM ReadersStopWithTheirSession == Spec => []EndedSessionGetsNothing
<1>1. SessionsInv => EndedSessionGetsNothing
  BY DEF SessionsInv, ReadersFit, EndedSessionGetsNothing
<1> QED BY <1>1, SessionsSafe, PTL
-----------------------------------------------------------------------------
(* ToolCalls *)

\* A set of places has a first one.
LEMMA FirstIsLeast ==
  ASSUME NEW places \in SUBSET Nat, places # {}
  PROVE  First(places) \in places /\ \A j \in places : First(places) <= j
<1> DEFINE initials == {1..i : i \in places}
           smaller == StrictSubsetOrdering(Nat)
<1>1. initials \subseteq FiniteSubsetsOf(Nat)
  <2>1. ASSUME NEW i \in places PROVE 1..i \in SUBSET Nat /\ IsFiniteSet(1..i)
    BY FS_Interval
  <2> QED BY <2>1 DEF FiniteSubsetsOf
<1>2. initials # {} OBVIOUS
<1>3. IsWellFoundedOn(smaller, FiniteSubsetsOf(Nat))
  BY FS_StrictSubsetOrderingWellFounded
<1>4. PICK initial \in initials : \A other \in initials : <<other, initial>> \notin smaller
  <2> HIDE DEF initials, smaller
  <2> QED BY <1>1, <1>2, <1>3, WFMin
<1>5. PICK i \in places : initial = 1..i OBVIOUS
<1>6. ASSUME NEW j \in places, j < i PROVE FALSE
  <2>1. 1..j \subseteq 1..i /\ i \in 1..i /\ i \notin 1..j BY <1>6
  <2>2. <<1..j, 1..i>> \in smaller BY <2>1, <1>6 DEF StrictSubsetOrdering
  <2> QED BY <1>4, <1>5, <2>2
<1>7. \A j \in places : i <= j BY <1>6
<1> QED BY <1>7 DEF First

------------------------------------------------------------------------------
(* What each handler's order of steps promises.                             *)

Rights == READS \cup WRITES

Steps ==
  {"cluster", "named_cluster", "args", "known", "internal", "partition", "registry", "live"}
    \cup Lanes \cup Rights \cup Asks

\* What a handler may still do once it has paid: no check that is free.
Afterwards == {"known"} \cup Asks

\* The one place where a handler pays, past its end for one that never does:
\* it asks nobody for anything before.
PaysAt(steps, place) ==
  /\ place \in DOMAIN steps => steps[place] = "live"
  /\ \A i \in DOMAIN steps : steps[i] = "live" => i = place
  /\ \A i \in DOMAIN steps : steps[i] \in Asks => i > place
  /\ \A i \in DOMAIN steps : i > place => steps[i] \in Afterwards

\* The right a tool needs is asked for right after its cluster, and no other.
RightsFirst(steps, needs) ==
  /\ needs # "nothing" => 2 \in DOMAIN steps /\ steps[1] = "cluster" /\ steps[2] = needs
  /\ \A i \in DOMAIN steps : steps[i] \in Rights => steps[i] = needs

\* Only a tool that needs a privilege to write changes anything, and only the
\* producer encodes.
OnlyChangesChange(steps, needs) ==
  \A i \in DOMAIN steps :
    /\ steps[i] = "change" => needs \in WRITES
    /\ steps[i] = "encode" => needs = "produce"

InOrder(steps, needs) ==
  /\ steps \in Seq(Steps)
  /\ \E place \in 1..(Len(steps) + 1) : PaysAt(steps, place)
  /\ RightsFirst(steps, needs)
  /\ OnlyChangesChange(steps, needs)

\* The order of every handler, line by line.
LEMMA HandlersInOrder ==
  ASSUME NEW q \in Queries
  PROVE  InOrder(Handler(q), Gates[q.tool].needs)
<1> DEFINE order(steps, needs, place) ==
             /\ steps \in Seq(Steps) /\ place \in 1..(Len(steps) + 1)
             /\ PaysAt(steps, place)
             /\ RightsFirst(steps, needs) /\ OnlyChangesChange(steps, needs)
<1>0. ASSUME NEW place, order(Handler(q), Gates[q.tool].needs, place)
      PROVE  InOrder(Handler(q), Gates[q.tool].needs)
  BY <1>0 DEF InOrder
<1> HIDE DEF order
<1>1. CASE q.tool = "clusters"
  <2> Gates[q.tool].needs = "nothing" BY <1>1 DEF Gates, Gate
  <2>1. order(<<>>, "nothing", 1)
    <3>1. <<>> \in Seq(Steps)
      BY SMTT(60) DEF Steps, Rights, READS, WRITES, Lanes, Asks, Awaits
    <3> QED
      BY SMTT(60), <3>1 DEF order, PaysAt, RightsFirst, OnlyChangesChange, Rights, READS,
         WRITES, Asks, Awaits, Afterwards
  <2>2. order(<<"named_cluster", "topology">>, "nothing", 3)
    <3>1. <<"named_cluster", "topology">> \in Seq(Steps)
      BY SMTT(60) DEF Steps, Rights, READS, WRITES, Lanes, Asks, Awaits
    <3> QED
      BY SMTT(60), <3>1 DEF order, PaysAt, RightsFirst, OnlyChangesChange, Rights, READS,
         WRITES, Asks, Awaits, Afterwards
  <2>3. Handler(q) = <<>> \/ Handler(q) = <<"named_cluster", "topology">>
    BY <1>1 DEF Handler, KlensClusters
  <2> QED BY <1>0, <2>1, <2>2, <2>3
<1>2. CASE q.tool = "access_explain"
  <2> Gates[q.tool].needs = "nothing" BY <1>2 DEF Gates, Gate
  <2>1. order(<<>>, "nothing", 1)
    <3>1. <<>> \in Seq(Steps)
      BY SMTT(60) DEF Steps, Rights, READS, WRITES, Lanes, Asks, Awaits
    <3> QED
      BY SMTT(60), <3>1 DEF order, PaysAt, RightsFirst, OnlyChangesChange, Rights, READS,
         WRITES, Asks, Awaits, Afterwards
  <2>2. order(<<"named_cluster">>, "nothing", 2)
    <3>1. <<"named_cluster">> \in Seq(Steps)
      BY SMTT(60) DEF Steps, Rights, READS, WRITES, Lanes, Asks, Awaits
    <3> QED
      BY SMTT(60), <3>1 DEF order, PaysAt, RightsFirst, OnlyChangesChange, Rights, READS,
         WRITES, Asks, Awaits, Afterwards
  <2>3. Handler(q) = <<>> \/ Handler(q) = <<"named_cluster">>
    BY <1>2 DEF Handler, KlensAccessExplain, OneOrEach
  <2> QED BY <1>0, <2>1, <2>2, <2>3
<1>3. CASE q.tool = "search"
  <2> Gates[q.tool].needs = "nothing" BY <1>3 DEF Gates, Gate
  <2>1. order(<<"args">>, "nothing", 2)
    <3>1. <<"args">> \in Seq(Steps)
      BY SMTT(60) DEF Steps, Rights, READS, WRITES, Lanes, Asks, Awaits
    <3> QED
      BY SMTT(60), <3>1 DEF order, PaysAt, RightsFirst, OnlyChangesChange, Rights, READS,
         WRITES, Asks, Awaits, Afterwards
  <2>2. order(<<"args", "named_cluster", "topology">>, "nothing", 4)
    <3>1. <<"args", "named_cluster", "topology">> \in Seq(Steps)
      BY SMTT(60) DEF Steps, Rights, READS, WRITES, Lanes, Asks, Awaits
    <3> QED
      BY SMTT(60), <3>1 DEF order, PaysAt, RightsFirst, OnlyChangesChange, Rights, READS,
         WRITES, Asks, Awaits, Afterwards
  <2>3. Handler(q) = <<"args">> \/ Handler(q) = <<"args", "named_cluster", "topology">>
    BY <1>3 DEF Handler, KlensSearch
  <2> QED BY <1>0, <2>1, <2>2, <2>3
<1>4. CASE q.tool = "topics_list"
  <2> Gates[q.tool].needs = "nothing" BY <1>4 DEF Gates, Gate
  <2>1. order(<<"cluster", "topology">>, "nothing", 3)
    <3>1. <<"cluster", "topology">> \in Seq(Steps)
      BY SMTT(60) DEF Steps, Rights, READS, WRITES, Lanes, Asks, Awaits
    <3> QED
      BY SMTT(60), <3>1 DEF order, PaysAt, RightsFirst, OnlyChangesChange, Rights, READS,
         WRITES, Asks, Awaits, Afterwards
  <2>2. Handler(q) = <<"cluster", "topology">>
    BY <1>4 DEF Handler, KlensTopicsList
  <2> QED BY <1>0, <2>1, <2>2
<1>5. CASE q.tool = "topic_create"
  <2> Gates[q.tool].needs = "create_topics" BY <1>5 DEF Gates, Gate
  <2>1. order(<<"cluster", "create_topics", "args", "live", "change">>, "create_topics", 4)
    <3>1. <<"cluster", "create_topics", "args", "live", "change">> \in Seq(Steps)
      BY SMTT(60) DEF Steps, Rights, READS, WRITES, Lanes, Asks, Awaits
    <3> QED
      BY SMTT(60), <3>1 DEF order, PaysAt, RightsFirst, OnlyChangesChange, Rights, READS,
         WRITES, Asks, Awaits, Afterwards
  <2>2. Handler(q) = <<"cluster", "create_topics", "args", "live", "change">>
    BY <1>5 DEF Handler, KlensTopicCreate
  <2> QED BY <1>0, <2>1, <2>2
<1>6. CASE q.tool = "topic_describe"
  <2> Gates[q.tool].needs = "nothing" BY <1>6 DEF Gates, Gate
  <2>1. order(<<"cluster", "topology", "known">>, "nothing", 4)
    <3>1. <<"cluster", "topology", "known">> \in Seq(Steps)
      BY SMTT(60) DEF Steps, Rights, READS, WRITES, Lanes, Asks, Awaits
    <3> QED
      BY SMTT(60), <3>1 DEF order, PaysAt, RightsFirst, OnlyChangesChange, Rights, READS,
         WRITES, Asks, Awaits, Afterwards
  <2>2. Handler(q) = <<"cluster", "topology", "known">>
    BY <1>6 DEF Handler, KlensTopicDescribe
  <2> QED BY <1>0, <2>1, <2>2
<1>7. CASE q.tool = "groups_list"
  <2> Gates[q.tool].needs = "nothing" BY <1>7 DEF Gates, Gate
  <2>1. order(<<"cluster", "topology">>, "nothing", 3)
    <3>1. <<"cluster", "topology">> \in Seq(Steps)
      BY SMTT(60) DEF Steps, Rights, READS, WRITES, Lanes, Asks, Awaits
    <3> QED
      BY SMTT(60), <3>1 DEF order, PaysAt, RightsFirst, OnlyChangesChange, Rights, READS,
         WRITES, Asks, Awaits, Afterwards
  <2>2. Handler(q) = <<"cluster", "topology">>
    BY <1>7 DEF Handler, KlensGroupsList
  <2> QED BY <1>0, <2>1, <2>2
<1>8. CASE q.tool = "group_describe"
  <2> Gates[q.tool].needs = "nothing" BY <1>8 DEF Gates, Gate
  <2>1. order(<<"cluster", "topology", "live", "known", "watch">>, "nothing", 3)
    <3>1. <<"cluster", "topology", "live", "known", "watch">> \in Seq(Steps)
      BY SMTT(60) DEF Steps, Rights, READS, WRITES, Lanes, Asks, Awaits
    <3> QED
      BY SMTT(60), <3>1 DEF order, PaysAt, RightsFirst, OnlyChangesChange, Rights, READS,
         WRITES, Asks, Awaits, Afterwards
  <2>2. Handler(q) = <<"cluster", "topology", "live", "known", "watch">>
    BY <1>8 DEF Handler, KlensGroupDescribe
  <2> QED BY <1>0, <2>1, <2>2
<1>9. CASE q.tool = "record_get"
  <2> Gates[q.tool].needs = "records" BY <1>9 DEF Gates, Gate
  <2>1. order(<<"cluster", "records", "args", "live", "read">>, "records", 4)
    <3>1. <<"cluster", "records", "args", "live", "read">> \in Seq(Steps)
      BY SMTT(60) DEF Steps, Rights, READS, WRITES, Lanes, Asks, Awaits
    <3> QED
      BY SMTT(60), <3>1 DEF order, PaysAt, RightsFirst, OnlyChangesChange, Rights, READS,
         WRITES, Asks, Awaits, Afterwards
  <2>2. Handler(q) = <<"cluster", "records", "args", "live", "read">>
    BY <1>9 DEF Handler, KlensRecordGet
  <2> QED BY <1>0, <2>1, <2>2
<1>10. CASE q.tool = "record_produce"
  <2> Gates[q.tool].needs = "produce" BY <1>10 DEF Gates, Gate
  <2>1. order(<<"cluster", "produce", "known", "internal", "partition", "live", "encode", "change">>, "produce", 6)
    <3>1. <<"cluster", "produce", "known", "internal", "partition", "live", "encode", "change">> \in Seq(Steps)
      BY SMTT(60) DEF Steps, Rights, READS, WRITES, Lanes, Asks, Awaits
    <3> QED
      BY SMTT(60), <3>1 DEF order, PaysAt, RightsFirst, OnlyChangesChange, Rights, READS,
         WRITES, Asks, Awaits, Afterwards
  <2>2. Handler(q) = <<"cluster", "produce", "known", "internal", "partition", "live", "encode", "change">>
    BY <1>10 DEF Handler, KlensRecordProduce
  <2> QED BY <1>0, <2>1, <2>2
<1>11. CASE q.tool = "records_read"
  <2> Gates[q.tool].needs = "records" BY <1>11 DEF Gates, Gate
  <2>1. order(<<"cluster", "records", "args", "live", "read">>, "records", 4)
    <3>1. <<"cluster", "records", "args", "live", "read">> \in Seq(Steps)
      BY SMTT(60) DEF Steps, Rights, READS, WRITES, Lanes, Asks, Awaits
    <3> QED
      BY SMTT(60), <3>1 DEF order, PaysAt, RightsFirst, OnlyChangesChange, Rights, READS,
         WRITES, Asks, Awaits, Afterwards
  <2>2. Handler(q) = <<"cluster", "records", "args", "live", "read">>
    BY <1>11 DEF Handler, KlensRecordsRead
  <2> QED BY <1>0, <2>1, <2>2
<1>12. CASE q.tool = "schema_get"
  <2> Gates[q.tool].needs = "schema_text" BY <1>12 DEF Gates, Gate
  <2>1. order(<<"cluster", "schema_text", "registry", "args", "live", "read">>, "schema_text", 5)
    <3>1. <<"cluster", "schema_text", "registry", "args", "live", "read">> \in Seq(Steps)
      BY SMTT(60) DEF Steps, Rights, READS, WRITES, Lanes, Asks, Awaits
    <3> QED
      BY SMTT(60), <3>1 DEF order, PaysAt, RightsFirst, OnlyChangesChange, Rights, READS,
         WRITES, Asks, Awaits, Afterwards
  <2>2. order(<<"cluster", "schema_text", "registry", "subjects", "known", "live", "read">>, "schema_text", 6)
    <3>1. <<"cluster", "schema_text", "registry", "subjects", "known", "live", "read">> \in Seq(Steps)
      BY SMTT(60) DEF Steps, Rights, READS, WRITES, Lanes, Asks, Awaits
    <3> QED
      BY SMTT(60), <3>1 DEF order, PaysAt, RightsFirst, OnlyChangesChange, Rights, READS,
         WRITES, Asks, Awaits, Afterwards
  <2>3. \/ Handler(q) = <<"cluster", "schema_text", "registry", "args", "live", "read">>
        \/ Handler(q) = <<"cluster", "schema_text", "registry", "subjects", "known", "live", "read">>
    BY <1>12 DEF Handler, KlensSchemaGet
  <2> QED BY <1>0, <2>1, <2>2, <2>3
<1>13. CASE q.tool = "schema_register"
  <2> Gates[q.tool].needs = "register_schemas" BY <1>13 DEF Gates, Gate
  <2>1. order(<<"cluster", "register_schemas", "registry", "live", "change">>, "register_schemas", 4)
    <3>1. <<"cluster", "register_schemas", "registry", "live", "change">> \in Seq(Steps)
      BY SMTT(60) DEF Steps, Rights, READS, WRITES, Lanes, Asks, Awaits
    <3> QED
      BY SMTT(60), <3>1 DEF order, PaysAt, RightsFirst, OnlyChangesChange, Rights, READS,
         WRITES, Asks, Awaits, Afterwards
  <2>2. Handler(q) = <<"cluster", "register_schemas", "registry", "live", "change">>
    BY <1>13 DEF Handler, KlensSchemaRegister
  <2> QED BY <1>0, <2>1, <2>2
<1>14. CASE q.tool = "schemas_list"
  <2> Gates[q.tool].needs = "nothing" BY <1>14 DEF Gates, Gate
  <2>1. order(<<"cluster", "registry", "subjects">>, "nothing", 4)
    <3>1. <<"cluster", "registry", "subjects">> \in Seq(Steps)
      BY SMTT(60) DEF Steps, Rights, READS, WRITES, Lanes, Asks, Awaits
    <3> QED
      BY SMTT(60), <3>1 DEF order, PaysAt, RightsFirst, OnlyChangesChange, Rights, READS,
         WRITES, Asks, Awaits, Afterwards
  <2>2. Handler(q) = <<"cluster", "registry", "subjects">>
    BY <1>14 DEF Handler, KlensSchemasList
  <2> QED BY <1>0, <2>1, <2>2
<1>15. CASE q.tool = "acls_list"
  <2> Gates[q.tool].needs = "acls" BY <1>15 DEF Gates, Gate
  <2>1. order(<<"cluster", "acls", "acls_lane">>, "acls", 4)
    <3>1. <<"cluster", "acls", "acls_lane">> \in Seq(Steps)
      BY SMTT(60) DEF Steps, Rights, READS, WRITES, Lanes, Asks, Awaits
    <3> QED
      BY SMTT(60), <3>1 DEF order, PaysAt, RightsFirst, OnlyChangesChange, Rights, READS,
         WRITES, Asks, Awaits, Afterwards
  <2>2. Handler(q) = <<"cluster", "acls", "acls_lane">>
    BY <1>15 DEF Handler, KlensAclsList
  <2> QED BY <1>0, <2>1, <2>2
<1>16. CASE q.tool = "brokers_list"
  <2> Gates[q.tool].needs = "nothing" BY <1>16 DEF Gates, Gate
  <2>1. order(<<"cluster", "topology">>, "nothing", 3)
    <3>1. <<"cluster", "topology">> \in Seq(Steps)
      BY SMTT(60) DEF Steps, Rights, READS, WRITES, Lanes, Asks, Awaits
    <3> QED
      BY SMTT(60), <3>1 DEF order, PaysAt, RightsFirst, OnlyChangesChange, Rights, READS,
         WRITES, Asks, Awaits, Afterwards
  <2>2. order(<<"cluster", "topology", "args", "known", "live", "read">>, "nothing", 5)
    <3>1. <<"cluster", "topology", "args", "known", "live", "read">> \in Seq(Steps)
      BY SMTT(60) DEF Steps, Rights, READS, WRITES, Lanes, Asks, Awaits
    <3> QED
      BY SMTT(60), <3>1 DEF order, PaysAt, RightsFirst, OnlyChangesChange, Rights, READS,
         WRITES, Asks, Awaits, Afterwards
  <2>3. order(<<"cluster", "topology", "args", "known">>, "nothing", 5)
    <3>1. <<"cluster", "topology", "args", "known">> \in Seq(Steps)
      BY SMTT(60) DEF Steps, Rights, READS, WRITES, Lanes, Asks, Awaits
    <3> QED
      BY SMTT(60), <3>1 DEF order, PaysAt, RightsFirst, OnlyChangesChange, Rights, READS,
         WRITES, Asks, Awaits, Afterwards
  <2>4. \/ Handler(q) = <<"cluster", "topology">>
        \/ Handler(q) = <<"cluster", "topology", "args", "known", "live", "read">>
        \/ Handler(q) = <<"cluster", "topology", "args", "known">>
    BY <1>16 DEF Handler, KlensBrokersList
  <2> QED BY <1>0, <2>1, <2>2, <2>3, <2>4
<1> QED BY <1>1, <1>2, <1>3, <1>4, <1>5, <1>6, <1>7, <1>8, <1>9, <1>10, <1>11, <1>12, <1>13,
           <1>14, <1>15, <1>16
        DEF Queries, Tools, Gates
------------------------------------------------------------------------------
(* What a step answers, and what is left of a handler that it ends.         *)

FreeCodes == {"forbidden", "read_only", "unknown_cluster", "not_ready", "rate_limited"}
NotFound == {"unknown_group", "unknown_subject", "unknown_broker", "unknown_topic"}
Codes == FreeCodes \cup NotFound
           \cup {"no", "no_schema_registry", "too_many_live_calls", "unprocessable",
                 "internal_topic", "unknown_partition"}

\* A step that is paid for or comes after it never answers with a free code, and
\* only a check of rights answers that a right is missing.
LEMMA RefusedBy ==
  ASSUME NEW q \in Queries, NEW step \in Steps
  PROVE  /\ Refused(q, step) \in Codes
         /\ step = "live" => Refused(q, step) \in {"no", "too_many_live_calls"}
         /\ step \in Afterwards => Refused(q, step) \in NotFound \cup {"no"}
         /\ step \notin Rights => Refused(q, step) \notin {"forbidden", "read_only"}
         /\ step \in Rights => Refused(q, step) = RefusedCapability(q, step)
         /\ step = "cluster" => (Refused(q, step) = "no" <=> ClusterOrOnly(q) \in Visible)
<1> USE DEF Steps, Rights, READS, WRITES, Lanes, Asks, Awaits, Afterwards, Codes, FreeCodes,
            NotFound
<1>1. "none" \notin Visible BY ToolsAssumption DEF Visible
<1>2. q.misses \in Lanes \cup {"nothing", "args", "known", "internal", "partition", "registry"}
  BY DEF Queries
<1>3. CASE step \in {"cluster", "named_cluster"}
  <2>1. Refused(q, step) = RefusedCluster(q, step) BY <1>3, <1>2 DEF Refused
  <2> QED BY <1>1, <1>3, <2>1 DEF RefusedCluster
<1>4. CASE step \in Rights
  <2>1. Refused(q, step) = RefusedCapability(q, step) BY <1>4, <1>2 DEF Refused
  <2>2. RefusedCapability(q, step) \in {"no", "unknown_cluster", "read_only", "forbidden"}
    BY DEF RefusedCapability, RefusedRead, RefusedWrite
  <2> QED BY <1>4, <2>1, <2>2
<1>5. CASE step \notin Rights \cup {"cluster", "named_cluster"}
  <2>2. CASE step = q.misses
    <3>1. Refused(q, step) = RefusedInput(q, step) BY <1>5, <1>2, <2>2 DEF Refused
    <3>2. step \in Lanes \cup {"args", "known", "internal", "partition", "registry"}
      BY <1>5, <1>2, <2>2
    <3>3. CASE step \in Lanes
      <4>1. RefusedInput(q, step) = "not_ready" BY <3>3 DEF RefusedInput
      <4> QED BY <3>1, <3>3, <4>1
    <3>4. CASE step = "args"
      <4>1. RefusedInput(q, step) = "unprocessable" BY <3>4 DEF RefusedInput
      <4> QED BY <3>1, <3>4, <4>1
    <3>5. CASE step = "registry"
      <4>1. RefusedInput(q, step) = "no_schema_registry" BY <3>5 DEF RefusedInput
      <4> QED BY <3>1, <3>5, <4>1
    <3>6. CASE step = "known"
      <4>1. RefusedInput(q, step) \in NotFound BY <3>6 DEF RefusedInput
      <4> QED BY <3>1, <3>6, <4>1
    <3>7. CASE step \in {"internal", "partition"}
      <4>1. RefusedInput(q, step) \in {"internal_topic", "unknown_partition"}
        BY <3>7 DEF RefusedInput
      <4> QED BY <3>1, <3>7, <4>1
    <3> QED BY <3>2, <3>3, <3>4, <3>5, <3>6, <3>7
  <2>3. CASE step # q.misses /\ step = "live" BY <2>3 DEF Refused
  <2>4. CASE step # q.misses /\ step # "live"
    <3>1. Refused(q, step) = "no" BY <1>5, <2>4 DEF Refused
    <3> QED BY <1>5, <2>4, <3>1
  <2> QED BY <2>2, <2>3, <2>4
<1> QED BY <1>3, <1>4, <1>5

\* A call takes all the steps of its handler, or those up to the first that
\* refuses it.
LEMMA TakenUpTo ==
  ASSUME NEW q \in Queries
  PROVE  LET steps == Handler(q) IN
         \/ /\ Taken(q) = steps /\ LastRefusal(q, Taken(q)) = "no"
            /\ \A i \in DOMAIN steps : Refused(q, steps[i]) = "no"
         \/ \E last \in DOMAIN steps :
              /\ DOMAIN Taken(q) = 1..last
              /\ \A i \in 1..last : Taken(q)[i] = steps[i]
              /\ \A i \in 1..(last - 1) : Refused(q, steps[i]) = "no"
              /\ Refused(q, steps[last]) # "no"
              /\ LastRefusal(q, Taken(q)) = Refused(q, steps[last])
<1> DEFINE steps == Handler(q)
           bad == {i \in DOMAIN steps : Refused(q, steps[i]) # "no"}
<1>1. steps \in Seq(Steps) BY HandlersInOrder DEF InOrder
<1> HIDE DEF steps
<1>2. CASE bad = {}
  <2>1. Taken(q) = steps BY <1>2 DEF Taken, steps
  <2>2. \A i \in DOMAIN steps : Refused(q, steps[i]) = "no" BY <1>2
  <2>3. LastRefusal(q, Taken(q)) = "no" BY <1>1, <2>1, <2>2 DEF LastRefusal
  <2> QED BY <2>1, <2>2, <2>3 DEF steps
<1>3. CASE bad # {}
  <2> DEFINE last == First(bad)
  <2>1. bad \in SUBSET Nat BY <1>1
  <2>2. last \in bad /\ \A i \in bad : last <= i BY <1>3, <2>1, FirstIsLeast
  <2>3. Taken(q) = SubSeq(steps, 1, last) BY <1>3 DEF Taken, steps
  <2> HIDE DEF last
  <2>4. last \in DOMAIN steps /\ Refused(q, steps[last]) # "no" BY <2>2
  <2>5. last \in 1..Len(steps) BY <1>1, <2>4
  <2>6. \A i \in 1..(last - 1) : Refused(q, steps[i]) = "no"
    <3> TAKE i \in 1..(last - 1)
    <3>1. i \in DOMAIN steps BY <1>1, <2>5
    <3>2. i \notin bad BY <2>2, <2>5
    <3> QED BY <3>1, <3>2
  <2>7. /\ Len(Taken(q)) = last /\ DOMAIN Taken(q) = 1..last
        /\ \A i \in 1..last : Taken(q)[i] = steps[i]
    BY <1>1, <2>3, <2>5
  <2>8. LastRefusal(q, Taken(q)) = Refused(q, steps[last])
    <3>1. Taken(q) # <<>> BY <2>5, <2>7
    <3>2. Taken(q)[Len(Taken(q))] = steps[last] BY <2>5, <2>7
    <3> QED BY <3>1, <3>2 DEF LastRefusal
  <2> QED BY <2>4, <2>6, <2>7, <2>8 DEF steps
<1> QED BY <1>2, <1>3

\* What is awaited are steps of the handler.
LEMMA AwaitedSteps ==
  ASSUME NEW steps \in Seq(Steps)
  PROVE  /\ Awaited(steps) \in Seq(Steps)
         /\ \A i \in DOMAIN Awaited(steps) :
              \E j \in DOMAIN steps : Awaited(steps)[i] = steps[j]
<1> DEFINE awaits == {i \in DOMAIN steps : steps[i] \in Awaits}
<1>1. CASE awaits = {} BY <1>1 DEF Awaited
<1>2. CASE awaits # {}
  <2> DEFINE first == First(awaits)
  <2>1. awaits \in SUBSET Nat OBVIOUS
  <2>2. first \in awaits BY <1>2, <2>1, FirstIsLeast
  <2>3. Awaited(steps) = SubSeq(steps, first, Len(steps)) BY <1>2 DEF Awaited
  <2>4. first \in 1..Len(steps) BY <2>2
  <2> HIDE DEF first
  <2>5. Awaited(steps) \in Seq(Steps) BY <2>3, <2>4
  <2>6. ASSUME NEW i \in DOMAIN Awaited(steps)
        PROVE  i + first - 1 \in DOMAIN steps /\ Awaited(steps)[i] = steps[i + first - 1]
    BY <2>3, <2>4
  <2> QED BY <2>5, <2>6
<1> QED BY <1>1, <1>2

------------------------------------------------------------------------------
(* The invariant of a call.                                                  *)

Clusters == Configured \cup {"none", "no_such_cluster"}
Ends == {"none", "ok", "timeout", "cancelled", "failed", "not_from_gateway"}

\* What an await may answer: a refusal by Kafka, the registry or the payload.
Awry ==
  {"unprocessable", "unencodable", "unknown_schema", "no_schema_registry", "schema_registry",
   "unknown_topic", "internal_topic", "unknown_partition", "refused", "client",
   "unknown_offset", "unknown_subject", "unknown_broker", "broker_configs",
   "registry_refused", "limit_too_small", "invalid_cursor", "inverted_timestamp_range",
   "filter_too_long"}

\* The refusals that name a tool which is perhaps not offered.
OfSchemas == {"unencodable", "unknown_schema"}

Call ==
  [tool : Tools \cup {"none"}, cluster : Clusters,
   stage : {"idle", "running", "ended"}, todo : Seq(Steps),
   paid : BOOLEAN, asked : BOOLEAN, applied : BOOLEAN,
   section : {"none", "needs", "not_read", "shown"}, answer : Codes \cup Ends \cup Awry]

CallsTyped == calls \in [Clients -> Call]

\* A call that was let through is for a tool that is offered, and one that is
\* explained as available on the cluster it is for.
LetThrough(call) ==
  /\ call.tool \in ListTools
  /\ call.cluster \in Visible => UsableOn(call.tool, call.cluster)

\* What holds of a call from its first step to its answer.
Sound(call) ==
  /\ call.asked => call.paid
  /\ call.answer \in FreeCodes => ~call.paid
  /\ call.answer = "unprocessable" /\ call.paid
       => call.tool \in {"record_produce", "records_read"}
  /\ call.applied => Changes(call.tool)
  /\ \A i \in DOMAIN call.todo :
       /\ call.todo[i] = "change" => Changes(call.tool)
       /\ call.todo[i] = "encode" => call.tool = "record_produce"
  /\ call.answer = "cancelled" => ~Changes(call.tool)
  /\ call.stage = "running" => LetThrough(call) /\ call.answer = "none"

SectionExplained(call) ==
  LET told == Missing(call.cluster, Gates[call.tool].section) IN
  /\ call.section = "needs" => told # "nothing"
  /\ call.section \in {"shown", "not_read"} => told = "nothing"

AnswerExplained(call) ==
  LET told == Explain(call.tool, call.cluster) IN
  /\ call.stage = "ended" /\ call.cluster \in Visible =>
       /\ ("access_explain" \in Hint(call.answer)) <=> ~told.available
       /\ call.answer = "forbidden" => told.needs # "nothing"
  /\ call.answer = "ok" => call.tool \in ListTools
  /\ \A named \in Hint(call.answer) \ ListTools :
       named = "schema_get" /\ call.tool = "record_produce"

CallInv(call) == Sound(call) /\ SectionExplained(call) /\ AnswerExplained(call)

ToolsInv == CallsTyped /\ \A c \in Clients : CallInv(calls[c])

\* The hints name tools that everybody is offered, but for that of a schema.
LEMMA Hints ==
  ASSUME NEW answer \in Codes \cup Ends \cup Awry
  PROVE  /\ Hint(answer) \subseteq ListTools \cup {"schema_get"}
         /\ answer \notin OfSchemas => Hint(answer) \subseteq ListTools
         /\ ("access_explain" \in Hint(answer)) <=> answer \in {"forbidden", "read_only"}
<1>1. {"access_explain", "search", "topic_describe", "schemas_list", "clusters",
       "groups_list"} \subseteq ListTools
  BY DEF ListTools, OfferedTo, Tools, Gates, Gate
<1>2. answer \in {"forbidden", "read_only"} => Hint(answer) = {"access_explain"}
  BY DEF Hint, Failures
<1>3. answer \in NotFound => Hint(answer) = {"search"} BY DEF Hint, NotFound, Failures
<1>4. answer \in {"unknown_cluster", "not_ready", "schema_registry", "client", "broker_configs"}
        => Hint(answer) = {"clusters"}
  BY DEF Hint, Failures
<1>5. answer = "too_many_live_calls" => Hint(answer) = {"groups_list"} BY DEF Hint, Failures
<1>6. answer \in Ends \cup {"unprocessable", "rate_limited", "no", "no_schema_registry",
                           "internal_topic", "refused", "registry_refused",
                           "limit_too_small", "invalid_cursor", "inverted_timestamp_range",
                           "filter_too_long"}
        => Hint(answer) = {}
  BY DEF Hint, Ends, Failures
<1>7. answer \in {"unknown_partition", "unknown_offset"} => Hint(answer) = {"topic_describe"}
  BY DEF Hint, Failures
<1>8. answer \in OfSchemas => Hint(answer) = {"schemas_list", "schema_get"}
  BY DEF Hint, Failures, OfSchemas
<1> QED BY <1>1, <1>2, <1>3, <1>4, <1>5, <1>6, <1>7, <1>8
        DEF Codes, FreeCodes, NotFound, Awry, OfSchemas

\* A check of a tool's rights on a cluster that is shown passes exactly when the
\* tool is explained as available there.
LEMMA RightsExplained ==
  ASSUME NEW q \in Queries, Gates[q.tool].needs # "nothing", ClusterOrOnly(q) \in Visible
  PROVE  LET needs == Gates[q.tool].needs
             refusal == RefusedCapability(q, needs)
         IN  /\ (refusal = "no") <=> UsableOn(q.tool, ClusterOrOnly(q))
             /\ refusal \in {"no", "forbidden", "read_only"}
             /\ refusal = "forbidden" => Missing(ClusterOrOnly(q), needs) # "nothing"
             /\ needs \in Rights
<1>1. Gates[q.tool].needs \in Rights
  BY DEF Queries, Tools, Gates, Gate, Rights, READS, WRITES
<1>2. Shown(McpAccess, ClusterOrOnly(q)) BY DEF Visible
<1>3. CASE Gates[q.tool].needs \in WRITES
  BY <1>1, <1>2, <1>3 DEF RefusedCapability, RefusedWrite, UsableOn, May, Changes, Missing,
     Rights, READS, WRITES
<1>4. CASE Gates[q.tool].needs \notin WRITES
  BY <1>1, <1>2, <1>4 DEF RefusedCapability, RefusedRead, UsableOn, May, Changes, Missing,
     Rights, READS
<1> QED BY <1>3, <1>4

\* The cluster that a call names is configured, or none.
LEMMA ClusterType == ASSUME NEW q \in Queries PROVE ClusterOrOnly(q) \in Clusters
<1>1. CASE q.named # "none" BY <1>1 DEF ClusterOrOnly, Queries, Clusters
<1>2. CASE q.named = "none" /\ Cardinality(Visible) = 1
  <2>1. Visible # {} BY <1>2, FS_EmptySet
  <2> QED BY <1>2, <2>1 DEF ClusterOrOnly, Clusters, Visible
<1>3. CASE q.named = "none" /\ Cardinality(Visible) # 1
  BY <1>3 DEF ClusterOrOnly, Clusters
<1> QED BY <1>1, <1>2, <1>3

\* A section is left out, with the privilege it needs, exactly when that
\* privilege is explained as missing.
LEMMA SectionFits ==
  ASSUME NEW q \in Queries
  PROVE  LET told == Missing(ClusterOrOnly(q), Gates[q.tool].section) IN
         /\ SectionOf(q) \in {"none", "needs", "not_read", "shown"}
         /\ SectionOf(q) = "needs" => told # "nothing"
         /\ SectionOf(q) \in {"shown", "not_read"} => told = "nothing"
<1>1. Gates[q.tool].section # "nothing" BY DEF Queries, Tools, Gates, Gate
<1> QED BY <1>1 DEF SectionOf, Missing

\* The call that a handler refuses.
LEMMA RefusedCall ==
  ASSUME NEW q \in Queries, NEW call, LastRefusal(q, Taken(q)) # "no",
         call = [tool |-> q.tool, cluster |-> ClusterOrOnly(q), stage |-> "ended",
                 todo |-> <<>>,
                 paid |-> /\ Has(Taken(q), {"live"})
                          /\ LastRefusal(q, Taken(q)) # "too_many_live_calls",
                 asked |-> FALSE, applied |-> FALSE, section |-> "none",
                 answer |-> LastRefusal(q, Taken(q))]
  PROVE  call \in Call /\ CallInv(call)
<1> DEFINE steps == Handler(q)
           needs == Gates[q.tool].needs
           refusal == LastRefusal(q, Taken(q))
<1>1. InOrder(steps, needs) BY HandlersInOrder
<1>2. PICK place \in 1..(Len(steps) + 1) : PaysAt(steps, place) BY <1>1 DEF InOrder
<1>3. PICK last \in DOMAIN steps :
        /\ DOMAIN Taken(q) = 1..last
        /\ \A i \in 1..last : Taken(q)[i] = steps[i]
        /\ \A i \in 1..(last - 1) : Refused(q, steps[i]) = "no"
        /\ Refused(q, steps[last]) # "no"
        /\ refusal = Refused(q, steps[last])
  BY TakenUpTo
<1>4. /\ steps \in Seq(Steps) /\ last \in 1..Len(steps)
      /\ \A i \in 1..Len(steps) : i \in DOMAIN steps /\ steps[i] \in Steps
  BY <1>1 DEF InOrder
<1> HIDE DEF steps, needs, refusal
<1>5. refusal \in Codes \ {"no"} BY <1>3, <1>4, RefusedBy
<1>6. refusal \in FreeCodes \cup {"unprocessable"} => ~Has(Taken(q), {"live"})
  <2> SUFFICES ASSUME NEW i \in 1..last, steps[i] = "live",
                      refusal \in FreeCodes \cup {"unprocessable"}
               PROVE  FALSE
    BY <1>3 DEF Has
  <2>1. i = place BY <1>2, <1>4 DEF PaysAt
  <2>2. CASE i = last BY <1>3, <1>4, <2>2, RefusedBy DEF FreeCodes
  <2>3. CASE i < last
    <3>1. steps[last] \in Afterwards BY <1>2, <1>4, <2>1, <2>3 DEF PaysAt
    <3> QED BY <1>3, <1>4, <3>1, RefusedBy DEF FreeCodes, NotFound
  <2> QED BY <1>4, <2>2, <2>3
<1>7. ASSUME ClusterOrOnly(q) \in Visible
      PROVE  /\ refusal \in {"forbidden", "read_only"} <=> ~UsableOn(q.tool, ClusterOrOnly(q))
             /\ refusal = "forbidden" => Missing(ClusterOrOnly(q), needs) # "nothing"
  <2>1. CASE needs = "nothing"
    <3>1. steps[last] \notin Rights
      BY <1>1, <2>1 DEF InOrder, RightsFirst, Rights, READS, WRITES
    <3>2. refusal \notin {"forbidden", "read_only"} BY <1>3, <1>4, <3>1, RefusedBy
    <3>3. UsableOn(q.tool, ClusterOrOnly(q))
      BY <2>1 DEF UsableOn, Changes, WRITES, needs
    <3> QED BY <3>2, <3>3
  <2>2. CASE needs # "nothing"
    <3>1. 2 \in 1..Len(steps) /\ steps[1] = "cluster" /\ steps[2] = needs
      BY <1>1, <1>4, <2>2 DEF InOrder, RightsFirst
    <3>2. Refused(q, steps[1]) = "no" BY <1>4, <1>7, <3>1, RefusedBy
    <3>3. last # 1 BY <1>3, <3>2
    <3>4. needs \in Rights /\ Refused(q, needs) = RefusedCapability(q, needs)
      BY <1>4, <1>7, <2>2, <3>1, RightsExplained, RefusedBy DEF needs
    <3>5. CASE last = 2
      BY <1>3, <1>7, <2>2, <3>1, <3>4, <3>5, RightsExplained DEF needs
    <3>6. CASE last > 2
      <4>1. Refused(q, needs) = "no" BY <1>3, <3>1, <3>6
      <4>2. UsableOn(q.tool, ClusterOrOnly(q))
        BY <1>7, <2>2, <3>4, <4>1, RightsExplained DEF needs
      <4>3. steps[last] \notin Rights BY <1>1, <1>3, <4>1 DEF InOrder, RightsFirst
      <4>4. refusal \notin {"forbidden", "read_only"} BY <1>3, <1>4, <4>3, RefusedBy
      <4> QED BY <4>2, <4>4
    <3> QED BY <1>4, <3>3, <3>5, <3>6
  <2> QED BY <2>1, <2>2
<1>8. q.tool \in Tools /\ ClusterOrOnly(q) \in Clusters BY ClusterType DEF Queries
<1>9. call \in Call BY <1>5, <1>8 DEF Call, refusal
<1>10. Sound(call) BY <1>5, <1>6 DEF Sound, refusal, Codes, FreeCodes, NotFound
<1>11. SectionExplained(call) BY DEF SectionExplained
<1>12. AnswerExplained(call)
  <2>1. Hint(refusal) \subseteq ListTools
    BY <1>5, Hints DEF Codes, FreeCodes, NotFound, OfSchemas
  <2>2. "access_explain" \in Hint(refusal) <=> refusal \in {"forbidden", "read_only"}
    BY <1>5, Hints
  <2>3. refusal # "ok" BY <1>5 DEF Codes, FreeCodes, NotFound
  <2>4. call.answer = refusal /\ call.tool = q.tool /\ call.cluster = ClusterOrOnly(q)
    BY DEF refusal
  <2> QED BY <1>7, <2>1, <2>2, <2>3, <2>4 DEF AnswerExplained, Explain, needs
<1> QED BY <1>9, <1>10, <1>11, <1>12 DEF CallInv

\* The call that a handler lets through.
LEMMA AcceptedCall ==
  ASSUME NEW q \in Queries, NEW call, NEW todo, LastRefusal(q, Taken(q)) = "no",
         todo = Awaited(Taken(q)),
         call = [tool |-> q.tool, cluster |-> ClusterOrOnly(q),
                 stage |-> IF todo = <<>> THEN "ended" ELSE "running", todo |-> todo,
                 paid |-> Has(Taken(q), {"live"}),
                 asked |-> Has(Taken(q), Asks), applied |-> FALSE,
                 section |-> SectionOf(q),
                 answer |-> IF todo = <<>> THEN "ok" ELSE "none"]
  PROVE  call \in Call /\ CallInv(call)
<1> DEFINE steps == Handler(q)
           needs == Gates[q.tool].needs
<1>1. InOrder(steps, needs) BY HandlersInOrder
<1>2. PICK place \in 1..(Len(steps) + 1) : PaysAt(steps, place) BY <1>1 DEF InOrder
<1>3. Taken(q) = steps /\ \A i \in DOMAIN steps : Refused(q, steps[i]) = "no"
  BY TakenUpTo
<1>4. /\ steps \in Seq(Steps)
      /\ \A i \in 1..Len(steps) : i \in DOMAIN steps /\ steps[i] \in Steps
  BY <1>1 DEF InOrder
<1> HIDE DEF steps, needs
<1>5. Has(Taken(q), Asks) => Has(Taken(q), {"live"})
  <2> SUFFICES ASSUME NEW i \in DOMAIN steps, steps[i] \in Asks
               PROVE  \E j \in DOMAIN steps : steps[j] \in {"live"}
    BY <1>3 DEF Has
  <2>1. place < i BY <1>2 DEF PaysAt
  <2>2. place \in DOMAIN steps BY <1>4, <2>1
  <2> QED BY <1>2, <2>2 DEF PaysAt
<1>6. q.tool \in Tools /\ ClusterOrOnly(q) \in Clusters BY ClusterType DEF Queries
<1>7. /\ ClusterOrOnly(q) \in Visible => UsableOn(q.tool, ClusterOrOnly(q))
      /\ q.tool \in ListTools
  <2>1. CASE needs = "nothing"
    BY <1>6, <2>1 DEF UsableOn, Changes, WRITES, ListTools, OfferedTo, needs
  <2>2. CASE needs # "nothing"
    <3>1. 2 \in 1..Len(steps) /\ steps[1] = "cluster" /\ steps[2] = needs
      BY <1>1, <1>4, <2>2 DEF InOrder, RightsFirst
    <3>2. Refused(q, "cluster") = "no" /\ Refused(q, needs) = "no"
      BY <1>3, <1>4, <3>1
    <3>3. ClusterOrOnly(q) \in Visible BY <1>4, <3>1, <3>2, RefusedBy
    <3>4. Refused(q, needs) = RefusedCapability(q, needs)
      BY <1>4, <2>2, <3>1, <3>3, RightsExplained, RefusedBy DEF needs
    <3>5. UsableOn(q.tool, ClusterOrOnly(q))
      BY <2>2, <3>2, <3>3, <3>4, RightsExplained DEF needs
    <3> QED BY <1>6, <3>3, <3>5 DEF ListTools, OfferedTo
  <2> QED BY <2>1, <2>2
<1>8. /\ todo \in Seq(Steps)
      /\ \A i \in DOMAIN todo : todo[i] = "change" => Changes(q.tool)
      /\ \A i \in DOMAIN todo : todo[i] = "encode" => q.tool = "record_produce"
  <2>1. todo \in Seq(Steps) BY <1>3, <1>4, AwaitedSteps
  <2>2. ASSUME NEW i \in DOMAIN todo, todo[i] = "change" PROVE Changes(q.tool)
    <3>1. PICK j \in DOMAIN steps : todo[i] = steps[j] BY <1>3, <1>4, AwaitedSteps
    <3> QED BY <1>1, <2>2, <3>1 DEF InOrder, OnlyChangesChange, Changes, needs
  <2>3. ASSUME NEW i \in DOMAIN todo, todo[i] = "encode" PROVE q.tool = "record_produce"
    <3>1. PICK j \in DOMAIN steps : todo[i] = steps[j] BY <1>3, <1>4, AwaitedSteps
    <3>2. needs = "produce" BY <1>1, <2>3, <3>1 DEF InOrder, OnlyChangesChange
    <3> QED BY <1>6, <3>2 DEF Tools, Gates, Gate, needs
  <2> QED BY <2>1, <2>2, <2>3
<1>9. call \in Call
  <2>1. Has(Taken(q), {"live"}) \in BOOLEAN /\ Has(Taken(q), Asks) \in BOOLEAN
    BY DEF Has
  <2>2. call.stage \in {"running", "ended"} /\ call.answer \in Ends BY DEF Ends
  <2> QED BY <1>6, <1>8, <2>1, <2>2, SectionFits DEF Call
<1>10. Sound(call)
  BY <1>5, <1>7, <1>8 DEF Sound, LetThrough, FreeCodes
<1>11. SectionExplained(call) BY SectionFits DEF SectionExplained
<1>12. AnswerExplained(call)
  <2>1. call.answer \in Ends \ {"forbidden", "read_only"} BY DEF Ends
  <2>2. Hint(call.answer) \subseteq ListTools /\ "access_explain" \notin Hint(call.answer)
    BY <2>1, Hints DEF Ends, OfSchemas
  <2>3. call.answer # "forbidden" /\ call.tool = q.tool /\ call.cluster = ClusterOrOnly(q)
    BY <2>1
  <2> QED BY <1>7, <2>2, <2>3 DEF AnswerExplained, Explain
<1> QED BY <1>9, <1>10, <1>11, <1>12 DEF CallInv

------------------------------------------------------------------------------
(* Every step keeps the invariant of every call.                             *)

\* Nothing changes the one grant of the server, so a call that fits keeps
\* fitting.
LEMMA GrantIsFixed ==
  ASSUME UNCHANGED mcp, NEW c \in Clients, CallInv(calls'[c])
  PROVE  CallInv(calls[c])'
BY DEF CallInv, Sound, SectionExplained, AnswerExplained, LetThrough, Explain, Missing,
       ListTools, OfferedTo, UsableOn, Visible, May, Shown, Allows, InScope, McpAccess,
       Changes, Hint, Holds

\* A running call ends with something that is no refusal of its rights.
LEMMA EndedCall ==
  ASSUME CallsTyped, NEW c \in Clients, CallInv(calls[c]), calls[c].stage = "running",
         NEW answer \in {"ok", "timeout", "cancelled", "failed"} \cup Awry,
         answer = "cancelled" => ~Changes(calls[c].tool),
         answer = "unprocessable" => calls[c].tool \in {"record_produce", "records_read"},
         answer \in OfSchemas => calls[c].tool = "record_produce", End(c, answer)
  PROVE  calls'[c] \in Call /\ CallInv(calls'[c])
<1> DEFINE old == calls[c]
           new == [old EXCEPT !.stage = "ended", !.answer = answer, !.todo = <<>>]
<1>1. old \in Call BY DEF CallsTyped
<1>2. calls'[c] = new BY DEF End, CallsTyped
<1>3. answer \in Ends \cup Awry BY DEF Ends
<1>4. new \in Call
  <2>1. answer \in Codes \cup Ends \cup Awry /\ <<>> \in Seq(Steps) BY <1>3
  <2> QED BY <1>1, <2>1 DEF Call
<1>5. /\ new.tool = old.tool /\ new.cluster = old.cluster /\ new.section = old.section
      /\ new.paid = old.paid /\ new.asked = old.asked /\ new.applied = old.applied
      /\ new.stage = "ended" /\ new.answer = answer /\ new.todo = <<>>
  BY <1>1 DEF Call
<1> HIDE DEF new
<1>6. Sound(new) BY <1>5 DEF CallInv, Sound, FreeCodes, Awry
<1>7. SectionExplained(new) BY <1>5 DEF CallInv, SectionExplained
<1>8. AnswerExplained(new)
  <2>1. LetThrough(old) BY DEF CallInv, Sound
  <2>2. /\ "access_explain" \notin Hint(answer)
        /\ \A named \in Hint(answer) \ ListTools :
             named = "schema_get" /\ calls[c].tool = "record_produce"
    BY <1>3, Hints DEF Ends, Awry
  <2>3. \A named \in Hint(new.answer) \ ListTools :
          named = "schema_get" /\ new.tool = "record_produce"
    BY <1>5, <2>2
  <2>4. "access_explain" \notin Hint(new.answer) /\ new.answer # "forbidden"
    BY <1>3, <1>5, <2>2 DEF Ends, Awry
  <2>5. new.tool \in ListTools /\ (new.cluster \in Visible => UsableOn(new.tool, new.cluster))
    BY <1>5, <2>1 DEF LetThrough
  <2> QED BY <2>3, <2>4, <2>5 DEF AnswerExplained, Explain
<1> QED BY <1>2, <1>4, <1>6, <1>7, <1>8 DEF CallInv

\* A slot without a call meets what is asked of calls.
LEMMA NoCallFits == NoCall \in Call /\ CallInv(NoCall)
<1>1. NoCall \in Call BY DEF NoCall, Call, Clusters, Ends
<1>2. Hint("none") = {} BY DEF Hint, Failures
<1>3. Sound(NoCall) BY DEF NoCall, Sound, FreeCodes
<1>4. SectionExplained(NoCall) BY DEF NoCall, SectionExplained
<1>5. AnswerExplained(NoCall) BY <1>2 DEF NoCall, AnswerExplained
<1> QED BY <1>1, <1>3, <1>4, <1>5 DEF CallInv

\* A call that is turned away meets it too: it waits for nothing.
LEMMA TurnedAwayFits ==
  ASSUME NEW answer \in {"not_from_gateway", "rate_limited", "unprocessable"}, NEW call,
         call = [tool |-> "none", cluster |-> "none", stage |-> "ended", todo |-> <<>>,
                 paid |-> FALSE, asked |-> FALSE, applied |-> FALSE,
                 section |-> "none", answer |-> answer]
  PROVE  call \in Call /\ CallInv(call)
<1>1. answer \in Codes \cup Ends BY DEF Codes, FreeCodes, Ends
<1>2. call \in Call BY <1>1 DEF Call, Clusters
<1>3. Sound(call) BY DEF Sound
<1>4. SectionExplained(call) BY DEF SectionExplained
<1>5. AnswerExplained(call)
  <2>1. "none" \notin Visible BY ToolsAssumption DEF Visible
  <2>2. Hint(answer) \subseteq ListTools BY <1>1, Hints DEF OfSchemas
  <2> QED BY <2>1, <2>2 DEF AnswerExplained
<1> QED BY <1>2, <1>3, <1>4, <1>5 DEF CallInv

\* Every step keeps the invariant.
LEMMA ToolsStep ==
  ASSUME ToolsInv, [ToolsNext]_toolVars
  PROVE  ToolsInv'
<1> USE DEF ToolsInv
<1>1. UNCHANGED mcp
  BY DEF ToolsNext, toolVars, TurnAway, CallTool, Serve, Fail, Return, Cancel, Panic,
         Receive, Replenish
<1>2. ASSUME NEW c \in Clients, NEW call, calls' = [calls EXCEPT ![c] = call],
             call \in Call /\ CallInv(call)
      PROVE  ToolsInv'
  <2>1. CallsTyped' BY <1>2 DEF CallsTyped
  <2>2. \A d \in Clients : CallInv(calls'[d])
    <3> TAKE d \in Clients
    <3>1. calls'[d] = IF d = c THEN call ELSE calls[d] BY <1>2 DEF CallsTyped
    <3> QED BY <1>2, <3>1
  <2> QED BY <1>1, <2>1, <2>2, GrantIsFixed
<1>3. ASSUME NEW c \in Clients, calls' = [calls EXCEPT ![c] = calls'[c]],
             calls'[c] \in Call /\ CallInv(calls'[c])
      PROVE  ToolsInv'
  BY <1>2, <1>3
<1>4. ASSUME UNCHANGED calls PROVE ToolsInv'
  BY <1>1, <1>4, GrantIsFixed DEF CallsTyped
<1>5. ASSUME NEW c \in Clients, TurnAway(c) PROVE ToolsInv'
  <2>1. PICK sender \in Senders, fits \in BOOLEAN :
          /\ Turned(sender, fits) # "no"
          /\ calls' = [calls EXCEPT ![c] =
                          [NoCall EXCEPT !.stage = "ended", !.answer = Turned(sender, fits)]]
    BY <1>5 DEF TurnAway
  <2>2. Turned(sender, fits) \in {"not_from_gateway", "rate_limited", "unprocessable"}
    BY <2>1 DEF Turned
  <2>3. ASSUME NEW r, r = [NoCall EXCEPT !.stage = "ended", !.answer = Turned(sender, fits)]
        PROVE  r \in Call /\ CallInv(r)
    <3>1. r = [tool |-> "none", cluster |-> "none", stage |-> "ended", todo |-> <<>>,
               paid |-> FALSE, asked |-> FALSE, applied |-> FALSE,
               section |-> "none", answer |-> Turned(sender, fits)]
      BY <2>3 DEF NoCall
    <3> QED BY <2>2, <3>1, TurnedAwayFits
  <2> QED BY <1>2, <2>1, <2>3
<1>6. ASSUME NEW c \in Clients, CallTool(c) PROVE ToolsInv'
  <2> DEFINE paid(q) == /\ Has(Taken(q), {"live"})
                        /\ LastRefusal(q, Taken(q)) # "too_many_live_calls"
             call(q) == [NoCall EXCEPT !.tool = q.tool, !.cluster = ClusterOrOnly(q),
                                       !.paid = paid(q)]
             todo(q) == Awaited(Taken(q))
             refused(q) == [call(q) EXCEPT !.stage = "ended",
                                           !.answer = LastRefusal(q, Taken(q))]
             accepted(q) == [call(q) EXCEPT
                               !.stage = IF todo(q) = <<>> THEN "ended" ELSE "running",
                               !.answer = IF todo(q) = <<>> THEN "ok" ELSE "none",
                               !.todo = todo(q), !.asked = Has(Taken(q), Asks),
                               !.section = SectionOf(q)]
  <2>1. PICK q \in Queries :
          calls' = [calls EXCEPT ![c] =
                      IF LastRefusal(q, Taken(q)) # "no" THEN refused(q) ELSE accepted(q)]
    BY <1>6 DEF CallTool
  <2>2. CASE LastRefusal(q, Taken(q)) # "no"
    <3> DEFINE new == [tool |-> q.tool, cluster |-> ClusterOrOnly(q), stage |-> "ended",
                       todo |-> <<>>, paid |-> paid(q), asked |-> FALSE,
                       applied |-> FALSE, section |-> "none",
                       answer |-> LastRefusal(q, Taken(q))]
    <3>1. ASSUME NEW r, r = refused(q) PROVE r = new BY <3>1 DEF NoCall
    <3>2. new \in Call /\ CallInv(new) BY <2>2, RefusedCall
    <3> HIDE DEF new, refused, accepted
    <3>3. calls' = [calls EXCEPT ![c] = new] BY <2>1, <2>2, <3>1
    <3> QED BY <1>2, <3>2, <3>3
  <2>3. CASE LastRefusal(q, Taken(q)) = "no"
    <3> DEFINE new == [tool |-> q.tool, cluster |-> ClusterOrOnly(q),
                       stage |-> IF todo(q) = <<>> THEN "ended" ELSE "running",
                       todo |-> todo(q), paid |-> Has(Taken(q), {"live"}),
                       asked |-> Has(Taken(q), Asks), applied |-> FALSE,
                       section |-> SectionOf(q),
                       answer |-> IF todo(q) = <<>> THEN "ok" ELSE "none"]
    <3>1. paid(q) = Has(Taken(q), {"live"}) BY <2>3 DEF Has
    <3>2. ASSUME NEW r, r = accepted(q) PROVE r = new
      <4> HIDE DEF todo
      <4> QED BY <3>1, <3>2 DEF NoCall
    <3>3. new \in Call /\ CallInv(new) BY <2>3, AcceptedCall
    <3> HIDE DEF new, refused, accepted
    <3>4. calls' = [calls EXCEPT ![c] = new] BY <2>1, <2>3, <3>2
    <3> QED BY <1>2, <3>3, <3>4
  <2> QED BY <2>2, <2>3
<1>7. ASSUME NEW c \in Clients, Serve(c) PROVE ToolsInv'
  <2> DEFINE old == calls[c]
             new == [old EXCEPT !.todo = Tail(old.todo),
                                !.applied = (Head(old.todo) = "change")]
  <2>1. old \in Call BY DEF CallsTyped
  <2>2. calls' = [calls EXCEPT ![c] = new] BY <1>7, <2>1 DEF Serve, CallsTyped
  <2>3. old.todo \in Seq(Steps) /\ old.todo # <<>> BY <1>7, <2>1 DEF Serve, Call
  <2>4. /\ Tail(old.todo) \in Seq(Steps) /\ Head(old.todo) = old.todo[1]
        /\ 1 \in DOMAIN old.todo
        /\ \A i \in DOMAIN Tail(old.todo) :
             i + 1 \in DOMAIN old.todo /\ Tail(old.todo)[i] = old.todo[i + 1]
    BY <2>3
  <2>5. /\ new.tool = old.tool /\ new.cluster = old.cluster /\ new.section = old.section
        /\ new.paid = old.paid /\ new.asked = old.asked
        /\ new.stage = old.stage /\ new.answer = old.answer
        /\ new.todo = Tail(old.todo) /\ new.applied = (Head(old.todo) = "change")
    BY <2>1 DEF Call
  <2>6. new \in Call BY <2>1, <2>4 DEF Call
  <2> HIDE DEF new
  <2>7. Sound(new)
    <3>1. Sound(old) BY DEF CallInv
    <3> HIDE DEF old
    <3>2. \A i \in DOMAIN new.todo :
            /\ new.todo[i] = "change" => Changes(new.tool)
            /\ new.todo[i] = "encode" => new.tool = "record_produce"
      BY <2>4, <2>5, <3>1 DEF Sound
    <3>3. new.applied => Changes(new.tool) BY <2>4, <2>5, <3>1 DEF Sound
    <3>4. new.stage = "running" => LetThrough(new) /\ new.answer = "none"
      BY <2>5, <3>1 DEF Sound, LetThrough
    <3> QED BY <2>5, <3>1, <3>2, <3>3, <3>4 DEF Sound
  <2>8. SectionExplained(new) /\ AnswerExplained(new)
    BY <2>5 DEF CallInv, SectionExplained, AnswerExplained
  <2> QED BY <1>2, <2>2, <2>6, <2>7, <2>8 DEF CallInv
<1>8. ASSUME NEW c \in Clients,
             NEW answer \in {"ok", "timeout", "cancelled", "failed"} \cup Awry,
             calls[c].stage = "running",
             answer = "cancelled" => ~Changes(calls[c].tool),
             answer = "unprocessable" => calls[c].tool \in {"record_produce", "records_read"},
             answer \in OfSchemas => calls[c].tool = "record_produce", End(c, answer)
      PROVE  ToolsInv'
  <2>1. calls'[c] \in Call /\ CallInv(calls'[c]) BY <1>8, EndedCall
  <2>2. calls' = [calls EXCEPT ![c] = calls'[c]] BY <1>8 DEF End, CallsTyped
  <2> QED BY <1>3, <2>1, <2>2
<1>9. ASSUME NEW c \in Clients, Fail(c) \/ Return(c) \/ Cancel(c) \/ Panic(c)
      PROVE  ToolsInv'
  <2>1. CASE Fail(c)
    <3>1. CASE End(c, "timeout") BY <1>8, <2>1, <3>1 DEF Fail, OfSchemas
    <3>2. CASE ~End(c, "timeout")
      <4>1. /\ calls[c].stage = "running" /\ calls[c].todo # <<>>
            /\ \E code \in Failing(calls[c].tool, Head(calls[c].todo)) : End(c, code)
        BY <2>1, <3>2 DEF Fail
      <4>2. PICK code \in Failing(calls[c].tool, Head(calls[c].todo)) : End(c, code)
        BY <4>1
      <4>3. /\ Head(calls[c].todo) = calls[c].todo[1] /\ 1 \in DOMAIN calls[c].todo
        <5>1. calls[c].todo \in Seq(Steps) BY DEF CallsTyped, Call
        <5> QED BY <4>1, <5>1
      <4>4. Head(calls[c].todo) = "encode" => calls[c].tool = "record_produce"
        BY <4>3 DEF CallInv, Sound
      <4>5. code \in Awry BY <4>2 DEF Failing, Awry, QueryErrors
      <4>6. code \in OfSchemas \cup {"unprocessable"} => Head(calls[c].todo) = "encode"
        BY <4>2 DEF Failing, OfSchemas, QueryErrors
      <4> QED BY <1>8, <4>1, <4>2, <4>4, <4>5, <4>6 DEF Awry
    <3> QED BY <3>1, <3>2
  <2>2. CASE Return(c) BY <1>8, <2>2 DEF Return, Returned, OfSchemas, Awry
  <2>3. CASE Cancel(c) BY <1>8, <2>3 DEF Cancel, StopsOnCancel, OfSchemas
  <2>4. CASE Panic(c) BY <1>8, <2>4 DEF Panic, OfSchemas
  <2> QED BY <1>9, <2>1, <2>2, <2>3, <2>4
<1>10. ASSUME NEW c \in Clients, Receive(c) PROVE ToolsInv'
  BY <1>2, <1>10, NoCallFits DEF Receive
<1>11. CASE Replenish BY <1>4, <1>11 DEF Replenish
<1>12. CASE UNCHANGED toolVars BY <1>4, <1>12 DEF toolVars
<1> QED BY <1>5, <1>6, <1>7, <1>9, <1>10, <1>11, <1>12 DEF ToolsNext

\* The invariant of the calls: what each of them paid, may change and is told
\* about fits the tool and the cluster it is for.
THEOREM CallsAreSound == ToolsSpec => []ToolsInv
<1>1. ToolsInit => ToolsInv
  <2> SUFFICES ASSUME ToolsInit PROVE ToolsInv OBVIOUS
  <2>1. \A c \in Clients : calls[c] = NoCall BY DEF ToolsInit
  <2>2. CallsTyped BY NoCallFits DEF ToolsInit, CallsTyped
  <2> QED BY <2>1, <2>2, NoCallFits DEF ToolsInv
<1> QED BY <1>1, ToolsStep, PTL DEF ToolsSpec

\* Whatever a tool asks of Kafka or the registry was paid for, and a call that
\* its rights, a lane that is not read or the limit of calls rules out pays
\* nothing; one whose arguments cannot be read pays only in the two places where
\* its handler finds that out after it paid.
THEOREM LiveCallsPaid == ToolsSpec => []LiveCallsArePaid
<1>1. ToolsInv => LiveCallsArePaid
  BY DEF ToolsInv, CallInv, Sound, LiveCallsArePaid, FreeCodes
<1> QED BY <1>1, CallsAreSound, PTL

\* A client that cancels never drops a call whose change may be on its way.
THEOREM ChangesAnswered == ToolsSpec => []ChangesAreAnswered
<1>1. ToolsInv => ChangesAreAnswered
  BY DEF ToolsInv, CallInv, Sound, ChangesAreAnswered
<1> QED BY <1>1, CallsAreSound, PTL

\* What klens_access_explain and the tool list say of a tool is what a call of it
\* meets, under every grant and on every cluster.
THEOREM ExplanationsHold == ToolsSpec => []ExplainedAsCalled
<1>1. ToolsInv => ExplainedAsCalled
  BY DEF ToolsInv, CallInv, SectionExplained, AnswerExplained, ExplainedAsCalled, Explain
<1> QED BY <1>1, CallsAreSound, PTL
=============================================================================
