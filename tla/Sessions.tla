------------------------------ MODULE Sessions ------------------------------
(***************************************************************************)
(* Signing in, the cache of users by subject, the store of session         *)
(* records, and what outlives the request that opened it: streams and      *)
(* exports that look at their session again and again.  The store and the  *)
(* cache drop an entry when it is due; a tick of the clock is one action.  *)
(* axum-login and tower-sessions are external: how they load, verify,      *)
(* cycle and save a session is modelled from how the handlers use them.    *)
(***************************************************************************)
EXTENDS Access, Integers

CONSTANTS Browsers, Subjects,
          Memberships,     \* the sets of groups the provider may report
          MaxTime, MaxAge, LoginTimeout, MaxSignIns,
          Cluster          \* the cluster that streams and exports read

ASSUME SessionsAssumption ==
  /\ {MaxTime, MaxAge, LoginTimeout, MaxSignIns} \subseteq Nat \ {0}
  /\ Cluster \in Configured

VARIABLES
  now,
  enabled,      \* is auth configured?
  \* the server's two caches
  users,        \* subject -> the user of its latest sign-in
  records,      \* session id -> [sub, hash, until], absent as NoRecord
  \* each browser: its cookies, the provider pages it has open, its callback
  cookie, pending, pages, callback,
  \* a reader that outlives its request: a stream or an export
  reader,
  \* history: the sign-in behind each id and when its session ends, the ids
  \* that were signed out, the user the last request was answered as, and the
  \* states issued
  own, until, ended, answered, issued

caches == <<users, records>>
browsing == <<cookie, pending, pages, callback>>
history == <<own, until, ended, answered, issued>>
vars == <<now, enabled, caches, browsing, reader, history>>

NoUser == [sub |-> "none", groups |-> {}, exp |-> 0]
NoRecord == [sub |-> "none", hash |-> <<>>, until |-> 0]
NoLogin == [state |-> 0, until |-> 0]
NoCallback == [user |-> NoUser, keep |-> 0]
NoAnswer == [id |-> 0, as |-> NoUser]
NoReader == [kind |-> "none", id |-> 0, sub |-> "none", stage |-> "check", late |-> 0]

Ids == 1..MaxSignIns

\* Subjects only: what stays equal when the provider changes a membership.
HashOfSubject(user) == <<user.sub, user.exp>>

\* SessionUser::new: everything that decides what a user may do is hashed.
Hash(user) == <<user.sub, user.exp, user.groups>>

\* with_live_user: a user is cached until its exp.
LiveUser(sub) == IF now < users[sub].exp THEN users[sub] ELSE NoUser

\* ExpiringStore::contains.
Live(id) == id # 0 /\ now < records[id].until

AccessFromUser(user) ==
  IF ~enabled THEN Unrestricted
  ELSE IF user = NoUser THEN Nobody ELSE Admit(user.groups)

Init ==
  /\ now = 0 /\ enabled \in BOOLEAN
  /\ users = [s \in Subjects |-> NoUser]
  /\ records = [i \in Ids |-> NoRecord]
  /\ cookie = [b \in Browsers |-> 0]
  /\ pending = [b \in Browsers |-> NoLogin]
  /\ pages = [b \in Browsers |-> {}]
  /\ callback = [b \in Browsers |-> NoCallback]
  /\ reader = [b \in Browsers |-> NoReader]
  /\ own = [i \in Ids |-> NoUser] /\ until = [i \in Ids |-> 0]
  /\ ended = {} /\ answered = NoAnswer /\ issued = 0

Tick ==
  /\ now < MaxTime /\ now' = now + 1
  /\ answered' = NoAnswer
  /\ UNCHANGED <<enabled, caches, browsing, reader, own, until, ended, issued>>

\* AuthManager: the user of a session, if its hash is still the one stored.
UserOf(id) == IF Live(id) THEN LiveUser(records[id].sub) ELSE NoUser
Verified(id) == UserOf(id) # NoUser /\ records[id].hash = Hash(UserOf(id))
Stale(id) == UserOf(id) # NoUser /\ records[id].hash # Hash(UserOf(id))

\* Session::flush, by logout and for a session that does not verify.
Flush(b, id) ==
  /\ records' = [i \in Ids |-> IF i = id THEN NoRecord ELSE records[i]]
  /\ cookie' = [cookie EXCEPT ![b] = 0]
  /\ ended' = ended \union ({id} \ {0})

\* LoginCookie::start.
Started(state) == [state |-> state, until |-> now + LoginTimeout]

\* login: a new state, kept in a signed cookie that replaces the last one.
Login(b) ==
  /\ enabled /\ issued < MaxSignIns
  /\ issued' = issued + 1
  /\ pending' = [pending EXCEPT ![b] = Started(issued')]
  /\ pages' = [pages EXCEPT ![b] = @ \union {issued'}]
  /\ answered' = NoAnswer
  /\ UNCHANGED <<now, enabled, caches, cookie, callback, reader, own, until, ended>>

\* LoginCookie::finish, and the checks of complete_login before the exchange.
Pending(b, state) == now < pending[b].until /\ pending[b].state = state

\* login_error: the session is logged out, the user sent back.
LoginError(b, id) == Flush(b, id) /\ answered' = NoAnswer

\* A callback that complete_login turns away, or the provider's own error.
CallbackFails(b, state) ==
  /\ callback[b] = NoCallback /\ state \in pages[b]
  /\ pages' = [pages EXCEPT ![b] = @ \ {state}]
  /\ pending' = [pending EXCEPT ![b] = NoLogin]
  /\ LoginError(b, cookie[b])
  /\ UNCHANGED <<now, enabled, users, callback, reader, own, until, issued>>

\* Oidc::authenticate: the token's expiry, capped; a token that is due fails.
Capped(claimed) == IF claimed < now + MaxAge THEN claimed ELSE now + MaxAge

Exchange(b, state, sub, groups, claimed) ==
  /\ callback[b] = NoCallback /\ state \in pages[b] /\ Pending(b, state)
  /\ Capped(claimed) > now
  /\ pages' = [pages EXCEPT ![b] = @ \ {state}]
  /\ pending' = [pending EXCEPT ![b] = NoLogin]
  /\ callback' = [callback EXCEPT ![b] =
       [user |-> [sub |-> sub, groups |-> groups, exp |-> Capped(claimed)],
        keep |-> IF Live(cookie[b]) /\ ~Stale(cookie[b]) THEN cookie[b] ELSE 0]]
  /\ IF Stale(cookie[b]) THEN Flush(b, cookie[b])
     ELSE UNCHANGED <<records, cookie, ended>>
  /\ answered' = NoAnswer
  /\ UNCHANGED <<now, enabled, users, reader, own, until, issued>>

\* complete_login, refused: no role of the policy matches.
Refuse(b) ==
  /\ callback[b] # NoCallback /\ AccessFromUser(callback[b].user).grants = {}
  /\ callback' = [callback EXCEPT ![b] = NoCallback]
  /\ LoginError(b, callback[b].keep)
  /\ UNCHANGED <<now, enabled, users, pending, pages, reader, own, until, issued>>

\* AuthSession::login: a session that was signed in when the callback began
\* keeps its id, any other one gets a new id.
SessionIds(b) ==
  IF callback[b].keep # 0 THEN {callback[b].keep}
  ELSE {i \in Ids : own[i] = NoUser /\ \A j \in 1..(i - 1) : own[j] # NoUser}

\* complete_login: remember, then login with the time that the token has left.
Remember(b, id) ==
  LET user == callback[b].user IN
  /\ user # NoUser /\ AccessFromUser(user).grants # {}
  /\ users' = [users EXCEPT ![user.sub] = user]
  /\ records' = [records EXCEPT ![id] =
                   [sub |-> user.sub, hash |-> Hash(user),
                    until |-> IF user.exp > now THEN user.exp ELSE now + 1]]
  /\ cookie' = [cookie EXCEPT ![b] = id]
  /\ own' = [own EXCEPT ![id] = user] /\ ended' = ended \ {id}
  /\ until' = [until EXCEPT ![id] = records'[id].until]
  /\ callback' = [callback EXCEPT ![b] = NoCallback]
  /\ answered' = NoAnswer
  /\ UNCHANGED <<now, enabled, pending, pages, reader, issued>>

Logout(b) ==
  /\ enabled /\ cookie[b] # 0
  /\ Flush(b, cookie[b])
  /\ answered' = NoAnswer
  /\ UNCHANGED <<now, enabled, users, pending, pages, callback, reader, own, until, issued>>

\* require_session with a session that no longer verifies: it is flushed.
RequestStale(b) ==
  /\ Stale(cookie[b])
  /\ Flush(b, cookie[b])
  /\ answered' = NoAnswer
  /\ UNCHANGED <<now, enabled, users, pending, pages, callback, reader, own, until, issued>>

\* require_session: the request runs with the access of the session's user.
Request(b) ==
  /\ Verified(cookie[b]) /\ AccessFromUser(UserOf(cookie[b])) # Nobody
  /\ answered' = [id |-> cookie[b], as |-> UserOf(cookie[b])]
  /\ UNCHANGED <<now, enabled, caches, browsing, reader, own, until, ended, issued>>

RevalidateUser(id, sub) ==
  IF ~enabled THEN Unrestricted ELSE AccessFromUser(LiveUser(sub))

\* guard and denied: nobody's session when auth is off.
Revalidate(id, sub) ==
  IF ~enabled THEN Unrestricted
  ELSE IF ~Live(id) THEN Nobody ELSE AccessFromUser(LiveUser(sub))

Denied(b) ==
  RefusedRead(Revalidate(reader[b].id, reader[b].sub), Cluster, "records") # "no"

\* AuthState::guard: the id and the subject of the request's session.
Guard(b) == [id |-> cookie[b], sub |-> UserOf(cookie[b]).sub]

\* A stream or an export of records opens with the access of its request.
Open(b, kind) ==
  /\ reader[b] = NoReader
  /\ enabled => Verified(cookie[b])
  /\ RefusedRead(AccessFromUser(UserOf(cookie[b])), Cluster, "records") = "no"
  /\ reader' = [reader EXCEPT ![b] =
       [kind |-> kind, id |-> Guard(b).id, sub |-> Guard(b).sub,
        stage |-> "check", late |-> 0]]
  /\ answered' = NoAnswer
  /\ UNCHANGED <<now, enabled, caches, browsing, own, until, ended, issued>>

\* The session behind a reader is over: signed out, or past the end that its
\* sign-in gave it.
Over(b) ==
  /\ enabled
  /\ reader[b].id \in ended \/ now >= until[reader[b].id]

\* A stream looks at its session and sends the frame in the same step; an
\* export looks, reads a page, and sends it after the await.
Looks(b) ==
  /\ reader[b].kind # "none" /\ reader[b].stage = "check"
  /\ reader' = [reader EXCEPT ![b] =
       IF Denied(b) THEN NoReader
       ELSE IF @.kind = "export"
       THEN [@ EXCEPT !.stage = "read", !.late = IF Over(b) THEN @ ELSE 0]
       ELSE [@ EXCEPT !.late = IF Over(b) THEN 2 ELSE 0]]
  /\ answered' = NoAnswer
  /\ UNCHANGED <<now, enabled, caches, browsing, own, until, ended, issued>>

\* Pages sent after the session was over, counted up to the one too many.
Later(late) == IF late < 2 THEN late + 1 ELSE 2

\* Export::next answered: the page goes out, or there was none left.
SendsPage(b, last) ==
  /\ reader[b].stage = "read"
  /\ reader' = [reader EXCEPT ![b] =
       IF last THEN NoReader
       ELSE [@ EXCEPT !.stage = "check",
                      !.late = IF Over(b) THEN Later(reader[b].late) ELSE 0]]
  /\ answered' = NoAnswer
  /\ UNCHANGED <<now, enabled, caches, browsing, own, until, ended, issued>>

Next ==
  \/ Tick
  \/ \E b \in Browsers :
       \/ Login(b) \/ Refuse(b) \/ Logout(b)
       \/ \E id \in SessionIds(b) : Remember(b, id)
       \/ RequestStale(b) \/ Request(b) \/ Looks(b)
       \/ \E state \in 1..issued :
            \/ CallbackFails(b, state)
            \/ \E sub \in Subjects, groups \in Memberships,
                  claimed \in 0..MaxTime : Exchange(b, state, sub, groups, claimed)
       \/ \E kind \in {"stream", "export"} : Open(b, kind)
       \/ \E last \in BOOLEAN : SendsPage(b, last)

Spec == Init /\ [][Next]_vars

\* A request is answered with the rights of the sign-in behind its own
\* session, however often the same subject signs in elsewhere with other
\* groups: the hash of the session no longer fits the cached user.
OwnRights == answered # NoAnswer => answered.as = own[answered.id]

\* Once a session is signed out, or its sign-in is past, a stream gets
\* nothing and an export at most the page it was already reading.
EndedSessionGetsNothing ==
  \A b \in Browsers : reader[b].late <= 1
=============================================================================
