---------------------------- MODULE Logins_proofs ----------------------------
(***************************************************************************)
(* SessionsAreCurrent and GuessesAreBounded, for any number of requests,      *)
(* addresses, names, changes, failures and sessions.                           *)
(*                                                                          *)
(* A session can only be as current as the login that made it, and as the      *)
(* row it was read from: LoginInv carries the statement back to the             *)
(* logins under way (LoginsAreCurrent), and says that no password is read where  *)
(* there is no account (RealSecrets), without which a name that is created        *)
(* again would bring a deleted account's sessions back to life.                    *)
(*                                                                          *)
(* Guesses are bounded by what the entries of the two tables know: GuessInv says  *)
(* which failures an entry counts, that those before it are of a run that was      *)
(* over, and that the failures it counts and the logins it did not stop are         *)
(* together no more than the bound.  It holds because nobody comes in while it is    *)
(* locked, and a lock only goes when it has expired or its key is forgotten.          *)
(***************************************************************************)
EXTENDS Logins, FiniteSetTheorems, TLAPS

Steps == {"idle", "read", "load", "compare", "create", "findNew", "findOld", "findGone",
          "insert", "update", "count", "delete", "revoke", "davCheck"}

Names == User \cup {Nobody}

Requests == [at : Steps, ip : IP \cup {Nobody}, user : Names, by : Names \cup {"cli"},
             secret : Nat \cup {NoAdmin}, late : BOOLEAN]

SessionRecords == [user : Names, till : Int, secret : Int, late : BOOLEAN]

Changing == {"findNew", "findOld", "findGone", "insert", "update", "count", "delete"}

\* What the statement is about, with its types.
ReqTypes      == req \in [Proc -> Requests]
SessionTypes  == sessions \subseteq SessionRecords
AccountTypes  == /\ \A u \in DOMAIN admins : admins[u] \in Nat
                 /\ now \in Int /\ changes \in Nat

\* A password that is let in, or is to be set, is one that an account has or will have.
RealSecrets ==
  /\ \A p \in Proc : req[p].at \in {"create"} \cup Changing => req[p].secret \in Nat
  /\ \A s \in sessions : s.secret \in Nat

\* No command revokes: a restart ends every request that does.
CommandsDoNotRevoke == \A p \in Proc : At(p, "revoke") => req[p].by # "cli"

\* A login whose account has not been changed since has read what the account has now.
LoginsAreCurrent ==
  \A p \in Proc : req[p].at \in {"compare", "create"} /\ req[p].secret # NoAdmin
                    => req[p].late \/ req[p].secret = Secret(req[p].user)

LoginInv == /\ ReqTypes /\ SessionTypes /\ AccountTypes /\ RealSecrets /\ CommandsDoNotRevoke
            /\ LoginsAreCurrent /\ SessionsAreCurrent
-----------------------------------------------------------------------------
\* Nothing the statement is about has changed.
LEMMA Still ==
  ASSUME LoginInv, UNCHANGED <<accounts, req>>, now' \in Int, changes' \in Nat
  PROVE  LoginInv'
  BY DEF LoginInv, ReqTypes, SessionTypes, AccountTypes, RealSecrets, CommandsDoNotRevoke,
         LoginsAreCurrent, SessionsAreCurrent, Secret, At, accounts

\* Sessions only go.
LEMMA Fewer ==
  ASSUME LoginInv, sessions' \subseteq sessions, UNCHANGED <<admins, req, now, changes>>
  PROVE  LoginInv'
  BY DEF LoginInv, ReqTypes, SessionTypes, AccountTypes, RealSecrets, CommandsDoNotRevoke,
         LoginsAreCurrent, SessionsAreCurrent, Secret, At

\* One request takes a step of its own, that is neither the revocation nor what calls for one.
LEMMA Moved ==
  ASSUME LoginInv, NEW p \in Proc, NEW r \in Requests, Goto(p, r), UNCHANGED accounts,
         now' \in Int, changes' \in Nat, ~At(p, "revoke"), r.at # "revoke",
         r.at \in {"create"} \cup Changing => r.secret \in Nat,
         r.at \in {"compare", "create"} /\ r.secret # NoAdmin
           => r.late \/ r.secret = Secret(r.user)
  PROVE  LoginInv'
<1> USE DEF LoginInv
<1>1. /\ req' \in [Proc -> Requests]
      /\ req'[p] = r
      /\ \A q \in Proc : q # p => req'[q] = req[q]
  BY DEF ReqTypes, Goto
<1>2. admins' = admins /\ sessions' = sessions
  BY DEF accounts
<1>3. \A u : Secret(u)' = Secret(u)
  BY <1>2 DEF Secret
<1>4. ReqTypes' /\ SessionTypes' /\ AccountTypes' /\ RealSecrets'
  BY <1>1, <1>2 DEF ReqTypes, SessionTypes, AccountTypes, RealSecrets
<1>5. CommandsDoNotRevoke'
  BY <1>1 DEF CommandsDoNotRevoke, At
<1>6. LoginsAreCurrent'
  BY <1>1, <1>2 DEF LoginsAreCurrent, Secret
<1>7. SessionsAreCurrent'
  BY <1>1, <1>2 DEF SessionsAreCurrent, Secret, At
<1> QED BY <1>4, <1>5, <1>6, <1>7

\* The records requests are made of.
LEMMA IdleIsARequest == Idle \in Requests
  BY DEF Idle, Requests, Steps, Names, NoAdmin

LEMMA SecretType == ASSUME LoginInv, NEW u PROVE Secret(u) \in Nat \cup {NoAdmin}
  BY DEF LoginInv, AccountTypes, Secret, NoAdmin

-----------------------------------------------------------------------------
(* The steps that change a session or an account. *)

LEMMA Created ==
  ASSUME LoginInv, NEW p \in Proc, CreateSession(p) PROVE LoginInv'
<1> DEFINE r == req[p]
           s == [user |-> r.user, till |-> now + TTL, secret |-> r.secret, late |-> r.late]
<1>1. /\ r \in Requests /\ r.at = "create" /\ r.secret \in Nat
      /\ r.late \/ r.secret = Secret(r.user)
  BY DEF LoginInv, ReqTypes, RealSecrets, LoginsAreCurrent, CreateSession, At, NoAdmin
<1>2. /\ sessions' = sessions \cup {s}
      /\ req' = [req EXCEPT ![p] = Idle]
      /\ admins' = admins /\ now' = now /\ changes' = changes
  BY DEF CreateSession, Goto
<1>3. s \in SessionRecords
  BY <1>1, LimitAssumption DEF LoginInv, AccountTypes, Requests, SessionRecords
<1>4. ReqTypes' /\ SessionTypes' /\ AccountTypes' /\ RealSecrets'
  BY <1>1, <1>2, <1>3, IdleIsARequest
     DEF LoginInv, ReqTypes, SessionTypes, AccountTypes, RealSecrets, Idle, Changing
<1>5. CommandsDoNotRevoke' /\ LoginsAreCurrent'
  BY <1>2 DEF LoginInv, ReqTypes, CommandsDoNotRevoke, LoginsAreCurrent, At, Idle, Secret
<1>6. SessionsAreCurrent'
  <2> SUFFICES ASSUME NEW t \in sessions', ~t.late, t.secret # Secret(t.user)'
               PROVE  \E q \in Proc : At(q, "revoke")' /\ req'[q].user = t.user
    BY DEF SessionsAreCurrent
  <2>1. t # s
    BY <1>1, <1>2 DEF Secret
  <2>2. PICK q \in Proc : At(q, "revoke") /\ req[q].user = t.user
    BY <2>1, <1>2 DEF LoginInv, SessionsAreCurrent, Secret
  <2>3. q # p
    BY <1>1, <2>2 DEF At
  <2> QED BY <1>2, <2>2, <2>3 DEF LoginInv, ReqTypes, At
<1> QED BY <1>4, <1>5, <1>6 DEF LoginInv

\* Where there is no account, nothing is current: a new one makes nothing stale.
LEMMA Inserted ==
  ASSUME LoginInv, NEW p \in Proc, Insert(p) PROVE LoginInv'
<1> DEFINE u == req[p].user
           New(v) == IF v \in DOMAIN admins' THEN admins'[v] ELSE NoAdmin
<1>1. /\ req[p] \in Requests /\ req[p].at = "insert" /\ req[p].secret \in Nat
  BY DEF LoginInv, ReqTypes, RealSecrets, Insert, At, Changing
<1>2. /\ req' = [req EXCEPT ![p] = Idle]
      /\ sessions' = sessions /\ now' = now /\ changes' = changes
      /\ admins' = IF u \in DOMAIN admins THEN admins ELSE Put(admins, u, req[p].secret)
  BY DEF Insert, Goto
<1>3. \A v \in Names : Secret(v) # NoAdmin => New(v) = Secret(v)
  BY <1>2 DEF Secret, Put
<1>4. ReqTypes' /\ SessionTypes' /\ AccountTypes' /\ RealSecrets'
  <2>1. AccountTypes'
    BY <1>1, <1>2 DEF LoginInv, AccountTypes, Put
  <2> QED BY <2>1, <1>2, IdleIsARequest
          DEF LoginInv, ReqTypes, SessionTypes, RealSecrets, Idle, Changing
<1>5. CommandsDoNotRevoke'
  BY <1>2 DEF LoginInv, ReqTypes, CommandsDoNotRevoke, At, Idle
<1>6. LoginsAreCurrent'
  <2> SUFFICES ASSUME NEW q \in Proc, req'[q].at \in {"compare", "create"},
                      req'[q].secret # NoAdmin, ~req'[q].late
               PROVE  req'[q].secret = New(req'[q].user)
    BY DEF LoginsAreCurrent, Secret
  <2>1. req'[q] = req[q]
    BY <1>2 DEF LoginInv, ReqTypes, Idle
  <2>2. req[q].secret = Secret(req[q].user) /\ Secret(req[q].user) # NoAdmin
    BY <2>1 DEF LoginInv, LoginsAreCurrent
  <2>3. req[q].user \in Names
    BY DEF LoginInv, ReqTypes, Requests
  <2> QED BY <2>1, <2>2, <2>3, <1>3
<1>7. SessionsAreCurrent'
  <2> SUFFICES ASSUME NEW t \in sessions, ~t.late, t.secret # New(t.user)
               PROVE  \E q \in Proc : At(q, "revoke")' /\ req'[q].user = t.user
    BY <1>2 DEF SessionsAreCurrent, Secret
  <2>1. t.secret # NoAdmin /\ t.user \in Names
    BY DEF LoginInv, RealSecrets, SessionTypes, SessionRecords, NoAdmin
  <2>2. t.secret # Secret(t.user)
    BY <2>1, <1>3
  <2>3. PICK q \in Proc : At(q, "revoke") /\ req[q].user = t.user
    BY <2>2 DEF LoginInv, SessionsAreCurrent
  <2>4. q # p
    BY <1>1, <2>3 DEF At
  <2> QED BY <1>2, <2>3, <2>4 DEF LoginInv, ReqTypes, At
<1> QED BY <1>4, <1>5, <1>6, <1>7 DEF LoginInv

\* A change of one name's row tells that name's logins and sessions, or has them revoked.
LEMMA Changed ==
  ASSUME LoginInv, NEW p \in Proc, NEW new, Change(p, new), req[p].at \in {"delete", "update"},
         \A v \in DOMAIN new : new[v] \in Nat,
         \A v \in Names : v # req[p].user
           => (IF v \in DOMAIN new THEN new[v] ELSE NoAdmin) = Secret(v)
  PROVE  LoginInv'
<1> DEFINE u == req[p].user
           o == Overtaken(u)
           New(v) == IF v \in DOMAIN admins' THEN admins'[v] ELSE NoAdmin
<1>1. req[p] \in Requests /\ req \in [Proc -> Requests]
  BY DEF LoginInv, ReqTypes
<1>2. admins' = new /\ now' = now /\ changes' = changes
  BY DEF Change
<1>3. \A v \in Names : v # u => New(v) = Secret(v)
  BY <1>2 DEF Secret
<1>4. /\ o \in [Proc -> Requests]
      /\ \A q \in Proc : /\ o[q].at = req[q].at /\ o[q].user = req[q].user /\ o[q].by = req[q].by
                         /\ o[q].secret = req[q].secret
                         /\ req[q].late => o[q].late
                         /\ req[q].user = u /\ req[q].at \in {"compare", "create"} => o[q].late
  BY <1>1 DEF Overtaken, Requests
<1>5. AccountTypes'
  BY <1>2 DEF LoginInv, AccountTypes
<1>6. \A q \in Proc \ {p} : req'[q] = o[q]
  BY <1>4 DEF Change
<1>7. \A q \in Proc : q # p /\ req'[q].at \in {"compare", "create"} /\ req'[q].secret # NoAdmin
                        => req'[q].late \/ req'[q].secret = New(req'[q].user)
  <2> SUFFICES ASSUME NEW q \in Proc, q # p, req[q].at \in {"compare", "create"},
                      req[q].secret # NoAdmin, ~o[q].late
               PROVE  req[q].secret = New(req[q].user)
    BY <1>4, <1>6
  <2>1. req[q].user \in Names /\ req[q].user # u /\ ~req[q].late
    BY <1>1, <1>4 DEF Requests
  <2>2. req[q].secret = Secret(req[q].user)
    BY <2>1 DEF LoginInv, LoginsAreCurrent
  <2> QED BY <2>1, <2>2, <1>3
<1>8. CASE req[p].by = "cli"
  <2>1. /\ req' = [o EXCEPT ![p] = Idle]
        /\ sessions' = {[s EXCEPT !.late = @ \/ s.user = u] : s \in sessions}
    BY <1>8 DEF Change
  <2>2. req'[p] = Idle /\ ReqTypes' /\ CommandsDoNotRevoke' /\ LoginsAreCurrent'
    BY <2>1, <1>4, <1>6, <1>7, IdleIsARequest
       DEF LoginInv, ReqTypes, CommandsDoNotRevoke, LoginsAreCurrent, At, Idle, Secret
  <2>3. SessionTypes' /\ RealSecrets'
    <3>1. ASSUME NEW s \in sessions
          PROVE  LET t == [s EXCEPT !.late = @ \/ s.user = u]
                 IN t \in SessionRecords /\ t.secret \in Nat
      <4>1. s \in SessionRecords /\ s.secret \in Nat /\ (s.late \/ s.user = u) \in BOOLEAN
        BY DEF LoginInv, SessionTypes, SessionRecords, RealSecrets
      <4> QED BY <4>1 DEF SessionRecords
    <3>2. \A t \in sessions' : t \in SessionRecords /\ t.secret \in Nat
      BY <3>1, <2>1
    <3>3. \A q \in Proc : req'[q].at \in {"create"} \cup Changing => req'[q].secret \in Nat
      BY <2>2, <1>4, <1>6 DEF LoginInv, RealSecrets, Idle, Changing
    <3> QED BY <3>2, <3>3 DEF SessionTypes, RealSecrets
  <2>4. SessionsAreCurrent'
    <3> SUFFICES ASSUME NEW t \in sessions', ~t.late, t.secret # New(t.user)
                 PROVE  \E q \in Proc : At(q, "revoke")' /\ req'[q].user = t.user
      BY DEF SessionsAreCurrent, Secret
    <3>1. PICK s \in sessions : t = [s EXCEPT !.late = @ \/ s.user = u]
      BY <2>1
    <3>2. s \in SessionRecords
      BY DEF LoginInv, SessionTypes
    <3>3. ~s.late /\ s.user # u /\ t.user = s.user /\ t.secret = s.secret /\ s.user \in Names
      BY <3>1, <3>2 DEF SessionRecords
    <3>4. PICK q \in Proc : At(q, "revoke") /\ req[q].user = s.user
      BY <3>3, <1>3 DEF LoginInv, SessionsAreCurrent
    <3> QED BY <3>3, <3>4, <1>4, <1>6 DEF At
  <2> QED BY <2>2, <2>3, <2>4, <1>5 DEF LoginInv
<1>9. CASE req[p].by # "cli"
  <2>1. req' = [o EXCEPT ![p] = [req[p] EXCEPT !.at = "revoke"]] /\ sessions' = sessions
    BY <1>9 DEF Change
  <2>2. /\ req'[p].at = "revoke" /\ req'[p].user = u /\ req'[p].by # "cli"
        /\ req'[p] \in Requests
    BY <2>1, <1>1, <1>4, <1>9 DEF Requests, Steps
  <2>3. ReqTypes' /\ CommandsDoNotRevoke' /\ LoginsAreCurrent'
    BY <2>1, <2>2, <1>4, <1>6, <1>7
       DEF LoginInv, ReqTypes, CommandsDoNotRevoke, LoginsAreCurrent, At, Secret
  <2>4. SessionTypes' /\ RealSecrets'
    BY <2>1, <2>2, <1>4, <1>6 DEF LoginInv, SessionTypes, RealSecrets, Changing
  <2>5. SessionsAreCurrent'
    <3> SUFFICES ASSUME NEW t \in sessions, ~t.late, t.secret # New(t.user)
                 PROVE  \E q \in Proc : At(q, "revoke")' /\ req'[q].user = t.user
      BY <2>1 DEF SessionsAreCurrent, Secret
    <3>1. CASE t.user = u
      BY <3>1, <2>2 DEF At
    <3>2. CASE t.user # u
      <4>1. t.user \in Names
        BY DEF LoginInv, SessionTypes, SessionRecords
      <4>2. PICK q \in Proc : At(q, "revoke") /\ req[q].user = t.user
        BY <4>1, <3>2, <1>3 DEF LoginInv, SessionsAreCurrent
      <4> QED BY <4>2, <3>2, <1>4, <1>6 DEF At
    <3> QED BY <3>1, <3>2
  <2> QED BY <2>3, <2>4, <2>5, <1>5 DEF LoginInv
<1> QED BY <1>8, <1>9

\* What a revocation was owed to is gone when it has run.
LEMMA Revoked ==
  ASSUME LoginInv, NEW p \in Proc, Revoke(p) PROVE LoginInv'
<1>1. /\ req' = [req EXCEPT ![p] = Idle] /\ req \in [Proc -> Requests]
      /\ sessions' = {s \in sessions : s.user # req[p].user}
      /\ admins' = admins /\ now' = now /\ changes' = changes
  BY DEF LoginInv, ReqTypes, Revoke, Goto
<1>2. ReqTypes' /\ SessionTypes' /\ AccountTypes' /\ RealSecrets'
  BY <1>1, IdleIsARequest
     DEF LoginInv, ReqTypes, SessionTypes, AccountTypes, RealSecrets, Idle, Changing
<1>3. CommandsDoNotRevoke' /\ LoginsAreCurrent'
  BY <1>1 DEF LoginInv, CommandsDoNotRevoke, LoginsAreCurrent, At, Idle, Secret
<1>4. SessionsAreCurrent'
  BY <1>1 DEF LoginInv, SessionsAreCurrent, At, Secret
<1> QED BY <1>2, <1>3, <1>4 DEF LoginInv

LEMMA Restarted ==
  ASSUME LoginInv, Restart PROVE LoginInv'
<1>1. /\ req' = [p \in Proc |-> IF req[p].by = "cli" THEN req[p] ELSE Idle]
      /\ sessions' = {} /\ admins' = admins /\ now' = now /\ changes' = changes
  BY DEF Restart
<1>2. ReqTypes' /\ SessionTypes' /\ AccountTypes' /\ RealSecrets'
  BY <1>1, IdleIsARequest
     DEF LoginInv, ReqTypes, SessionTypes, AccountTypes, RealSecrets, Idle, Changing
<1>3. CommandsDoNotRevoke' /\ LoginsAreCurrent' /\ SessionsAreCurrent'
  BY <1>1 DEF LoginInv, CommandsDoNotRevoke, LoginsAreCurrent, SessionsAreCurrent, At, Idle, Secret
<1> QED BY <1>2, <1>3 DEF LoginInv

-----------------------------------------------------------------------------
(* Every step. *)

\* BeginLogin, CheckName, LoadAdmin, Refuse, Accept, CreateSession.
LEMMA LoggedIn ==
  ASSUME LoginInv, NEW p \in Proc, Login(p) PROVE LoginInv'
<1>0. req[p] \in Requests /\ now \in Int /\ changes \in Nat
  BY DEF LoginInv, ReqTypes, AccountTypes
<1>1. CASE BeginLogin(p)
  <2>0. UNCHANGED <<accounts, now, changes>> /\ ~At(p, "revoke")
    BY <1>1 DEF BeginLogin, At
  <2>1. CASE UNCHANGED req
    BY <2>0, <2>1, <1>0, Still
  <2>2. CASE ~ UNCHANGED req
    <3>1. PICK ip \in IP : Goto(p, [Idle EXCEPT !.at = "read", !.ip = ip])
      BY <1>1, <2>2 DEF BeginLogin
    <3> DEFINE r == [Idle EXCEPT !.at = "read", !.ip = ip]
    <3>2. r \in Requests /\ r.at = "read"
      BY IdleIsARequest DEF Idle, Requests, Steps
    <3> QED BY <3>1, <3>2, <2>0, <1>0, Moved DEF Changing
  <2> QED BY <2>1, <2>2
<1>2. CASE CheckName(p)
  <2>1. PICK u \in User : Goto(p, IF Locked(Keys(req[p].ip, u)) THEN Idle
                                  ELSE [req[p] EXCEPT !.at = "load", !.user = u])
    BY <1>2 DEF CheckName
  <2> DEFINE r == IF Locked(Keys(req[p].ip, u)) THEN Idle
                  ELSE [req[p] EXCEPT !.at = "load", !.user = u]
  <2>2. r \in Requests /\ r.at \in {"idle", "load"}
    BY <1>0, IdleIsARequest DEF Idle, Requests, Steps, Names
  <2>3. UNCHANGED <<accounts, now, changes>> /\ ~At(p, "revoke")
    BY <1>2 DEF CheckName, At
  <2> QED BY <2>1, <2>2, <2>3, <1>0, Moved DEF Changing
<1>3. CASE LoadAdmin(p)
  <2> DEFINE r == [req[p] EXCEPT !.at = "compare", !.secret = Secret(req[p].user)]
  <2>1. r \in Requests /\ r.at = "compare" /\ r.secret = Secret(r.user)
    BY <1>0, SecretType DEF Requests, Steps
  <2>2. Goto(p, r) /\ UNCHANGED <<accounts, now, changes>> /\ ~At(p, "revoke")
    BY <1>3 DEF LoadAdmin, At
  <2> QED BY <2>1, <2>2, <1>0, Moved DEF Changing
<1>4. CASE Refuse(p)
  <2>1. Goto(p, Idle) /\ UNCHANGED <<accounts, now, changes>> /\ ~At(p, "revoke")
    BY <1>4 DEF Refuse, At
  <2> QED BY <2>1, <1>0, IdleIsARequest, Moved DEF Idle, Changing
<1>5. CASE Accept(p)
  <2> DEFINE r == [req[p] EXCEPT !.at = "create"]
  <2>1. /\ r \in Requests /\ r.at = "create" /\ r.secret \in Nat
        /\ r.late \/ r.secret = Secret(r.user)
    BY <1>0, <1>5 DEF LoginInv, LoginsAreCurrent, Accept, At, Requests, Steps
  <2>2. Goto(p, r) /\ UNCHANGED <<accounts, now, changes>> /\ ~At(p, "revoke")
    BY <1>5 DEF Accept, At
  <2> QED BY <2>1, <2>2, <1>0, Moved
<1>6. CASE CreateSession(p)
  BY <1>6, Created
<1> QED BY <1>1, <1>2, <1>3, <1>4, <1>5, <1>6 DEF Login

LEMMA Begun ==
  ASSUME LoginInv, NEW p \in Proc, NEW at \in {"findNew", "findOld", "findGone"}, Begin(p, at)
  PROVE  LoginInv'
<1>1. PICK u \in User, by \in {s.user : s \in {s \in sessions : now <= s.till}} \cup {"cli"} :
        Goto(p, [Idle EXCEPT !.at = at, !.user = u, !.by = by, !.secret = changes'])
  BY DEF Begin
<1> DEFINE r == [Idle EXCEPT !.at = at, !.user = u, !.by = by, !.secret = changes']
<1>2. changes' \in Nat /\ now' \in Int /\ UNCHANGED accounts /\ ~At(p, "revoke")
  BY DEF Begin, LoginInv, AccountTypes, At
<1>3. by \in Names \cup {"cli"}
  BY DEF LoginInv, SessionTypes, SessionRecords
<1>4. r \in Requests /\ r.at = at /\ r.secret \in Nat
  BY <1>2, <1>3, IdleIsARequest DEF Idle, Requests, Steps, Names
<1> QED BY <1>1, <1>2, <1>4, Moved

LEMMA Managed ==
  ASSUME LoginInv, NEW p \in Proc, Manage(p) PROVE LoginInv'
<1>0. /\ req[p] \in Requests /\ now \in Int /\ changes \in Nat
      /\ req[p].at \in Changing => req[p].secret \in Nat
  BY DEF LoginInv, ReqTypes, AccountTypes, RealSecrets
<1>1. CASE BeginCreate(p) \/ BeginPassword(p) \/ BeginDelete(p)
  BY <1>1, Begun DEF BeginCreate, BeginPassword, BeginDelete
<1>2. CASE Find(p)
  <2> DEFINE there == req[p].user \in DOMAIN admins
             r == CASE req[p].at = "findNew" /\ ~there -> [req[p] EXCEPT !.at = "insert"]
                    [] req[p].at = "findOld" /\ there -> [req[p] EXCEPT !.at = "update"]
                    [] req[p].at = "findGone" /\ there /\ req[p].user # req[p].by
                         -> [req[p] EXCEPT !.at = "count"]
                    [] OTHER -> Idle
  <2>1. /\ r \in {Idle} \cup {[req[p] EXCEPT !.at = at] : at \in {"insert", "update", "count"}}
        /\ req[p].at \in {"findNew", "findOld", "findGone"}
    BY <1>2 DEF Find
  <2>2. r \in Requests /\ r.at \in {"idle", "insert", "update", "count"}
        /\ (r.at # "idle" => r.secret \in Nat)
    BY <2>1, <1>0, IdleIsARequest DEF Idle, Requests, Steps, Changing
  <2>3. Goto(p, r) /\ UNCHANGED <<accounts, now, changes>> /\ ~At(p, "revoke")
    BY <1>2 DEF Find, At
  <2> HIDE DEF r
  <2> QED BY <2>2, <2>3, <1>0, Moved DEF Changing
<1>3. CASE Insert(p)
  BY <1>3, Inserted
<1>4. CASE Count(p)
  <2> DEFINE r == IF Cardinality(DOMAIN admins) <= 1 THEN Idle
                  ELSE [req[p] EXCEPT !.at = "delete"]
  <2>1. r \in Requests /\ r.at \in {"idle", "delete"} /\ (r.at # "idle" => r.secret \in Nat)
    BY <1>4, <1>0, IdleIsARequest DEF Count, At, Idle, Requests, Steps, Changing
  <2>2. Goto(p, r) /\ UNCHANGED <<accounts, now, changes>> /\ ~At(p, "revoke")
    BY <1>4 DEF Count, At
  <2> HIDE DEF r
  <2> QED BY <2>1, <2>2, <1>0, Moved DEF Changing
<1>5. CASE Delete(p)
  <2>1. req[p].at = "delete" /\ Change(p, Drop(admins, {req[p].user}))
    BY <1>5 DEF Delete, At
  <2> QED BY <2>1, Changed DEF Drop, Secret, LoginInv, AccountTypes
<1>6. CASE Update(p)
  <2> DEFINE u == req[p].user
             new == IF u \in DOMAIN admins THEN Put(admins, u, req[p].secret) ELSE admins
  <2>1. req[p].at = "update" /\ Change(p, new) /\ req[p].secret \in Nat
    BY <1>6, <1>0 DEF Update, At, Changing
  <2>2. /\ \A v \in DOMAIN new : new[v] \in Nat
        /\ \A v \in Names : v # u => (IF v \in DOMAIN new THEN new[v] ELSE NoAdmin) = Secret(v)
    BY <2>1 DEF Put, Secret, LoginInv, AccountTypes
  <2> HIDE DEF new
  <2> QED BY <2>1, <2>2, Changed
<1>7. CASE RefuseChange(p)
  <2>1. Goto(p, Idle) /\ UNCHANGED <<accounts, now, changes>> /\ ~At(p, "revoke")
    BY <1>7 DEF RefuseChange, At
  <2> QED BY <2>1, <1>0, IdleIsARequest, Moved DEF Idle, Changing
<1>8. CASE Revoke(p)
  BY <1>8, Revoked
<1> QED BY <1>1, <1>2, <1>3, <1>4, <1>5, <1>6, <1>7, <1>8 DEF Manage

LEMMA DavTried ==
  ASSUME LoginInv, NEW p \in Proc, Dav(p) PROVE LoginInv'
<1>0. now \in Int /\ changes \in Nat
  BY DEF LoginInv, AccountTypes
<1>1. UNCHANGED <<accounts, now, changes>> /\ ~At(p, "revoke")
  BY DEF Dav, BeginDav, FailDav, PassDav, At
<1>2. CASE BeginDav(p)
  <2>1. PICK ip \in IP : Goto(p, [Idle EXCEPT !.at = "davCheck", !.ip = ip])
    BY <1>2 DEF BeginDav
  <2> DEFINE r == [Idle EXCEPT !.at = "davCheck", !.ip = ip]
  <2>2. r \in Requests /\ r.at = "davCheck"
    BY IdleIsARequest DEF Idle, Requests, Steps
  <2> QED BY <2>1, <2>2, <1>0, <1>1, Moved DEF Changing
<1>3. CASE FailDav(p) \/ PassDav(p)
  <2>1. Goto(p, Idle)
    BY <1>3 DEF FailDav, PassDav
  <2> QED BY <2>1, <1>0, <1>1, IdleIsARequest, Moved DEF Idle, Changing
<1> QED BY <1>2, <1>3 DEF Dav

LEMMA LoginInvInit == Init => LoginInv
  BY IdleIsARequest
     DEF Init, LoginInv, ReqTypes, SessionTypes, AccountTypes, RealSecrets, CommandsDoNotRevoke,
         LoginsAreCurrent, SessionsAreCurrent, At, Idle, Changing

LEMMA LoginInvNext == LoginInv /\ [Next]_loginVars => LoginInv'
<1> SUFFICES ASSUME LoginInv, [Next]_loginVars PROVE LoginInv'
  OBVIOUS
<1>0. now \in Int /\ changes \in Nat
  BY DEF LoginInv, AccountTypes
<1>1. CASE Tick
  BY <1>0, <1>1, Still DEF Tick
<1>2. CASE Restart
  BY <1>2, Restarted
<1>3. CASE Logout \/ Cleanup
  <2>1. sessions' \subseteq sessions /\ UNCHANGED <<admins, req, now, changes>>
    BY <1>3 DEF Logout, Cleanup
  <2> QED BY <2>1, Fewer
<1>4. ASSUME NEW p \in Proc, Login(p) \/ Manage(p) \/ Dav(p) PROVE LoginInv'
  BY <1>4, LoggedIn, Managed, DavTried
<1>5. CASE UNCHANGED loginVars
  BY <1>0, <1>5, Still DEF loginVars, accounts
<1> QED BY <1>1, <1>2, <1>3, <1>4, <1>5 DEF Next

\* No session outlives the password it was opened with, or its account: revokeSessions comes
\* after the change (admin/admins.go:137, admin/admins.go:186) and reaches every session that
\* was there, and every later one was opened with what the account has now.  Excepted are the
\* logins that had read the row before the change, and changes made from the command line.
THEOREM SessionsStayCurrent == LoginSpec => []SessionsAreCurrent
<1>1. LoginInv => SessionsAreCurrent
  BY DEF LoginInv
<1> QED BY LoginInvInit, LoginInvNext, <1>1, PTL DEF LoginSpec
-----------------------------------------------------------------------------
(* Guesses: what the two tables of failed logins know of the failures so far. *)

P == Cardinality(Proc)

\* How much of a run that just missed the lock may still count when the next one begins:
\* its first failure does not.
Slack == IF MaxFails > 1 THEN MaxFails - 2 ELSE 0

Bound(d) == P + (MaxFails - 1) + (IF d = "admin" THEN Slack ELSE 0)

\* GuessesAreBounded, for one key.
Spaced(d, s) ==
  \A i \in 1..Len(s) : i + Bound(d) <= Len(s) =>
    IF d = "admin" THEN s[i + Bound(d)] > s[i] + Window ELSE s[i + Bound(d)] >= s[i] + Window

\* The failures of a key, none later than t.
History(s, t) == s \in Seq(Nat) /\ \A i \in 1..Len(s) : s[i] <= t

\* All failures but the last of a run are older than Window.
Over(s, t) == \A i \in 1..Len(s) : i <= Len(s) - Slack => s[i] + Window < t

\* An entry of the admin API, while n logins that it did not stop are under way: it counts
\* the last failures, those before belong to a run that was over when it began, and once
\* locked it lets nobody in, so that failures to come and those counted are bounded.
Counts(s, a, t, n) ==
  /\ 1 <= a.count /\ a.start <= t
  /\ \A i \in 1..Len(s) : i <= Len(s) - a.count + 1 => s[i] <= a.start
  /\ \A i \in 1..Len(s) : i <= Len(s) - a.count - Slack => s[i] + Window < a.start
  /\ a.count < MaxFails => a.locked = Never
  /\ a.count >= MaxFails => a.locked # Never /\ \A i \in 1..Len(s) : s[i] <= a.locked
  /\ a.count + n <= MaxFails - 1 + P

Entry == [count : Nat, start : Nat, locked : Nat \cup {Never}, seen : Nat]

\* The table r, the failures h, the time t, and the logins n under way for each key.
Watched(r, h, t, n) ==
  /\ DOMAIN r \subseteq Key
  /\ \A k \in DOMAIN r : r[k] \in Entry
  /\ \A k \in Key : /\ History(h[k], t) /\ Spaced("admin", h[k])
                    /\ k \in DOMAIN r => Counts(h[k], r[k], t, n[k])
                    /\ k \notin DOMAIN r => Over(h[k], t)

\* A failure more.
LEMMA Appended ==
  ASSUME NEW s \in Seq(Nat), NEW t \in Nat
  PROVE  LET z == Append(s, t)
         IN /\ z \in Seq(Nat) /\ Len(z) = Len(s) + 1 /\ Len(s) \in Nat
            /\ \A i \in 1..Len(s) : z[i] = s[i]
            /\ z[Len(s) + 1] = t
  OBVIOUS

LEMMA NumbersOfLimits ==
  /\ P \in Nat /\ P >= 1 /\ Slack \in Nat /\ MaxFails \in Nat /\ MaxFails >= 1 /\ Window \in Nat
  /\ MaxFails > 1 => Slack = MaxFails - 2
  /\ Bound("admin") = P + (MaxFails - 1) + Slack /\ Bound("webdav") = P + (MaxFails - 1)
  /\ Never \notin Nat
<1>1. P \in Nat /\ P # 0
  BY ProcAssumption, FS_CardinalityType, FS_EmptySet DEF P
<1>2. MaxFails \in Nat /\ MaxFails >= 1 /\ Window \in Nat
  BY LimitAssumption
<1>3. Slack \in Nat /\ (MaxFails > 1 => Slack = MaxFails - 2)
  BY <1>2 DEF Slack
<1> QED BY <1>1, <1>2, <1>3 DEF Bound, Never

LEMMA NoFailures ==
  ASSUME NEW t \in Nat, NEW d
  PROVE  History(<<>>, t) /\ Spaced(d, <<>>) /\ Over(<<>>, t)
  BY DEF History, Spaced, Over

\* An entry is over when it has expired.
LEMMA Lapses ==
  ASSUME NEW t \in Nat, NEW s, NEW a \in Entry, NEW n, History(s, t), Counts(s, a, t, n),
         t > (IF a.locked # Never THEN a.locked ELSE a.start) + Window
  PROVE  Over(s, t)
<1>1. a.count \in Nat /\ a.start \in Nat /\ a.locked \in Nat \cup {Never}
  BY DEF Entry
<1>2. Len(s) \in Nat /\ \A i \in 1..Len(s) : s[i] \in Nat
  BY DEF History
<1>3. CASE a.count >= MaxFails
  BY <1>1, <1>2, <1>3, NumbersOfLimits DEF Counts, Over
<1>4. CASE a.count < MaxFails
  <2>1. t > a.start + Window /\ 1 <= a.count
    BY <1>4 DEF Counts
  <2>2. Slack = MaxFails - 2
    BY <1>1, <1>4, <2>1, NumbersOfLimits
  <2>3. ASSUME NEW i \in 1..Len(s), i <= Len(s) - Slack PROVE s[i] + Window < t
    <3>1. i <= Len(s) - a.count + 1
      BY <1>1, <1>2, <1>4, <2>2, <2>3, NumbersOfLimits
    <3>2. s[i] <= a.start
      BY <3>1 DEF Counts
    <3> QED BY <1>1, <1>2, <2>1, <3>2, NumbersOfLimits
  <2> QED BY <2>3 DEF Over
<1> QED BY <1>1, <1>3, <1>4, NumbersOfLimits

\* Time passes, and logins end.
LEMMA Later ==
  ASSUME NEW s, NEW t \in Nat, NEW u \in Nat, t <= u, History(s, t)
  PROVE  /\ History(s, u)
         /\ Over(s, t) => Over(s, u)
         /\ \A a \in Entry, n, m \in Nat : Counts(s, a, t, n) /\ m <= n => Counts(s, a, u, m)
<1>1. Len(s) \in Nat /\ \A i \in 1..Len(s) : s[i] \in Nat
  BY DEF History
<1>2. History(s, u)
  BY <1>1 DEF History
<1>3. Over(s, t) => Over(s, u)
  BY <1>1, NumbersOfLimits DEF Over
<1>4. ASSUME NEW a \in Entry, NEW n \in Nat, NEW m \in Nat, Counts(s, a, t, n), m <= n
      PROVE  Counts(s, a, u, m)
  <2>1. a.count \in Nat /\ a.start \in Nat
    BY DEF Entry
  <2>2. a.start <= u /\ a.count + m <= MaxFails - 1 + P
    BY <1>4, <2>1, NumbersOfLimits DEF Counts
  <2> QED BY <1>4, <2>2 DEF Counts
<1> QED BY <1>2, <1>3, <1>4

\* What recordLoginFailure makes of an entry.
LEMMA Counted ==
  ASSUME NEW t \in Nat, NEW a \in Entry
  PROVE  LET b == [a EXCEPT !.count = @ + 1, !.seen = t,
                            !.locked = IF a.count + 1 >= MaxFails THEN t ELSE @]
         IN /\ b \in Entry /\ b.count = a.count + 1 /\ b.start = a.start
            /\ b.locked = IF a.count + 1 >= MaxFails THEN t ELSE a.locked
<1>1. a.count \in Nat /\ a.start \in Nat /\ a.locked \in Nat \cup {Never}
  BY DEF Entry
<1>2. /\ a.count + 1 \in Nat
      /\ (IF a.count + 1 >= MaxFails THEN t ELSE a.locked) \in Nat \cup {Never}
  BY <1>1
<1> QED BY <1>1, <1>2 DEF Entry

\* The failure that begins an entry.
LEMMA FirstFailure ==
  ASSUME NEW t \in Nat, NEW s, History(s, t), Spaced("admin", s), Over(s, t),
         NEW n \in Nat, n <= P, n >= 1
  PROVE  LET none == [count |-> 0, start |-> t, locked |-> Never, seen |-> t]
             a == [none EXCEPT !.count = @ + 1, !.seen = t,
                               !.locked = IF none.count + 1 >= MaxFails THEN t ELSE @]
         IN /\ a \in Entry /\ Counts(Append(s, t), a, t, n - 1)
            /\ History(Append(s, t), t) /\ Spaced("admin", Append(s, t))
<1> DEFINE z == Append(s, t)
           none == [count |-> 0, start |-> t, locked |-> Never, seen |-> t]
           a == [none EXCEPT !.count = @ + 1, !.seen = t,
                             !.locked = IF none.count + 1 >= MaxFails THEN t ELSE @]
<1>0. s \in Seq(Nat) /\ \A i \in 1..Len(s) : s[i] \in Nat /\ s[i] <= t
  BY DEF History
<1>1. /\ z \in Seq(Nat) /\ Len(z) = Len(s) + 1 /\ Len(s) \in Nat
      /\ \A i \in 1..Len(s) : z[i] = s[i]
      /\ z[Len(s) + 1] = t
  BY <1>0, Appended
<1>2. a \in Entry /\ a.count = 1 /\ a.start = t /\ (1 >= MaxFails => a.locked = t)
      /\ (1 < MaxFails => a.locked = Never)
  <2>1. none \in Entry /\ none.count = 0 /\ none.start = t /\ none.locked = Never
    BY DEF Entry
  <2>2. /\ a \in Entry /\ a.count = none.count + 1 /\ a.start = none.start
        /\ a.locked = IF none.count + 1 >= MaxFails THEN t ELSE none.locked
    BY <2>1, Counted, Zenon
  <2> HIDE DEF none, a
  <2> QED BY <2>1, <2>2, NumbersOfLimits
<1> HIDE DEF z, a
<1>3. \A i \in 1..Len(z) : z[i] \in Nat /\ z[i] <= t
  BY <1>0, <1>1
<1>4. History(z, t)
  BY <1>1, <1>3 DEF History
<1>5. \A i \in 1..Len(z) : i <= Len(z) - 1 - Slack => z[i] + Window < t
  <2> SUFFICES ASSUME NEW i \in 1..Len(z), i <= Len(z) - 1 - Slack PROVE z[i] + Window < t
    OBVIOUS
  <2>1. i \in 1..Len(s) /\ i <= Len(s) - Slack
    BY <1>1, NumbersOfLimits
  <2> QED BY <1>1, <2>1 DEF Over
<1>6. Counts(z, a, t, n - 1)
  BY <1>2, <1>3, <1>5, NumbersOfLimits DEF Counts
<1>7. Spaced("admin", z)
  <2> SUFFICES ASSUME NEW i \in 1..Len(z), i + Bound("admin") <= Len(z)
               PROVE  z[i + Bound("admin")] > z[i] + Window
    BY DEF Spaced
  <2>1. CASE i + Bound("admin") <= Len(s)
    <3>1. /\ i \in 1..Len(s) /\ i + Bound("admin") \in 1..Len(s)
      BY <1>1, <2>1, NumbersOfLimits
    <3>2. s[i + Bound("admin")] > s[i] + Window
      BY <2>1, <3>1 DEF Spaced
    <3> QED BY <1>1, <3>1, <3>2
  <2>2. CASE i + Bound("admin") = Len(s) + 1
    BY <1>1, <1>5, <2>2, NumbersOfLimits
  <2> QED BY <1>1, <2>1, <2>2, NumbersOfLimits
<1> QED BY <1>2, <1>4, <1>6, <1>7 DEF z, a

\* The failure that goes on with it.
LEMMA NextFailure ==
  ASSUME NEW t \in Nat, NEW s, History(s, t), Spaced("admin", s),
         NEW n \in Nat, n >= 1, NEW a \in Entry, Counts(s, a, t, n)
  PROVE  LET b == [a EXCEPT !.count = @ + 1, !.seen = t,
                            !.locked = IF a.count + 1 >= MaxFails THEN t ELSE @]
         IN /\ b \in Entry /\ Counts(Append(s, t), b, t, n - 1)
            /\ History(Append(s, t), t) /\ Spaced("admin", Append(s, t))
<1> DEFINE z == Append(s, t)
           b == [a EXCEPT !.count = @ + 1, !.seen = t,
                          !.locked = IF a.count + 1 >= MaxFails THEN t ELSE @]
<1>0. s \in Seq(Nat) /\ \A i \in 1..Len(s) : s[i] \in Nat /\ s[i] <= t
  BY DEF History
<1>1. /\ z \in Seq(Nat) /\ Len(z) = Len(s) + 1 /\ Len(s) \in Nat
      /\ \A i \in 1..Len(s) : z[i] = s[i]
      /\ z[Len(s) + 1] = t
  BY <1>0, Appended
<1>2. a.count \in Nat /\ a.start \in Nat /\ a.locked \in Nat \cup {Never}
  BY DEF Entry
<1>3. /\ b \in Entry /\ b.count = a.count + 1 /\ b.start = a.start
      /\ b.locked = IF a.count + 1 >= MaxFails THEN t ELSE a.locked
  BY Counted, Zenon
<1> HIDE DEF z, b
<1>4. \A i \in 1..Len(z) : z[i] \in Nat /\ z[i] <= t
  BY <1>0, <1>1
<1>5. History(z, t)
  BY <1>1, <1>4 DEF History
<1>6. /\ 1 <= b.count /\ b.start <= t
      /\ b.count + (n - 1) <= MaxFails - 1 + P
      /\ b.count < MaxFails => b.locked = Never
  BY <1>2, <1>3, NumbersOfLimits DEF Counts
<1>n. /\ Len(s) \in Nat /\ Len(z) = Len(s) + 1
      /\ a.count \in Nat /\ 1 <= a.count /\ b.count = a.count + 1
      /\ a.start \in Nat /\ b.start = a.start /\ b.start <= t
  BY <1>1, <1>2, <1>3, <1>6 DEF Counts
<1>7. \A i \in 1..Len(z) : i <= Len(z) - b.count + 1 => z[i] <= b.start
  <2> SUFFICES ASSUME NEW i \in 1..Len(z), i <= Len(z) - b.count + 1 PROVE z[i] <= b.start
    OBVIOUS
  <2>1. i \in 1..Len(s) /\ i <= Len(s) - a.count + 1
    BY <1>n
  <2>2. s[i] <= a.start
    BY <2>1 DEF Counts
  <2> QED BY <1>1, <1>n, <2>1, <2>2
<1>8. \A i \in 1..Len(z) : i <= Len(z) - b.count - Slack => z[i] + Window < b.start
  <2> SUFFICES ASSUME NEW i \in 1..Len(z), i <= Len(z) - b.count - Slack
               PROVE  z[i] + Window < b.start
    OBVIOUS
  <2>1. i \in 1..Len(s) /\ i <= Len(s) - a.count - Slack
    BY <1>n, NumbersOfLimits
  <2>2. s[i] + Window < a.start
    BY <2>1 DEF Counts
  <2> QED BY <1>1, <1>n, <2>1, <2>2
<1>9. b.count >= MaxFails => b.locked = t
  BY <1>3
<1>10. Counts(z, b, t, n - 1)
  BY <1>4, <1>6, <1>7, <1>8, <1>9, NumbersOfLimits DEF Counts
<1>11. Spaced("admin", z)
  <2> SUFFICES ASSUME NEW i \in 1..Len(z), i + Bound("admin") <= Len(z)
               PROVE  z[i + Bound("admin")] > z[i] + Window
    BY DEF Spaced
  <2>1. CASE i + Bound("admin") <= Len(s)
    <3>1. /\ i \in 1..Len(s) /\ i + Bound("admin") \in 1..Len(s)
      BY <1>n, <2>1, NumbersOfLimits
    <3>2. s[i + Bound("admin")] > s[i] + Window
      BY <2>1, <3>1 DEF Spaced
    <3> QED BY <1>1, <3>1, <3>2
  <2>2. CASE i + Bound("admin") = Len(s) + 1
    <3>1. i <= Len(z) - b.count - Slack
      <4>1. b.count + (n - 1) <= MaxFails - 1 + P
        BY <1>6
      <4>2. Bound("admin") = P + (MaxFails - 1) + Slack /\ P \in Nat /\ Slack \in Nat /\ MaxFails \in Nat
        BY NumbersOfLimits
      <4>3. /\ Len(s) \in Nat /\ Len(z) = Len(s) + 1 /\ b.count = a.count + 1 /\ a.count \in Nat
            /\ i + Bound("admin") = Len(s) + 1 /\ i \in Int
        BY <1>n, <2>2
      <4> HIDE DEF Slack, P, Bound
      <4> QED BY <4>1, <4>2, <4>3
    <3>2. z[i] + Window < b.start /\ z[i] \in Nat
      BY <1>4, <1>8, <3>1
    <3>3. z[i + Bound("admin")] = t
      BY <1>1, <2>2
    <3> QED BY <1>n, <3>2, <3>3, NumbersOfLimits
  <2> QED BY <1>n, <2>1, <2>2, NumbersOfLimits
<1> QED BY <1>3, <1>5, <1>10, <1>11 DEF z, b

\* What an expired entry's removal leaves, and a login more where there is no lock.
LEMMA Admitted ==
  ASSUME NEW t \in Nat, NEW u \in Nat, t <= u, NEW r, NEW h, NEW n \in [Key -> Nat], Watched(r, h, t, n),
         NEW ks, \A k \in ks \cap DOMAIN r :
                   u > (IF r[k].locked # Never THEN r[k].locked ELSE r[k].start) + Window,
         NEW m \in [Key -> Nat],
         \A k \in Key : \/ m[k] <= n[k]
                        \/ m[k] <= P /\ (k \in ks \/ k \notin DOMAIN r \/ r[k].locked = Never)
  PROVE  Watched(Drop(r, ks), h, u, m)
<1>1. DOMAIN Drop(r, ks) = DOMAIN r \ ks /\ \A k \in DOMAIN r \ ks : Drop(r, ks)[k] = r[k]
  BY DEF Drop
<1>2. DOMAIN r \subseteq Key /\ \A k \in DOMAIN r : r[k] \in Entry
  BY DEF Watched
<1>3. ASSUME NEW k \in Key
      PROVE  /\ History(h[k], u) /\ Spaced("admin", h[k])
             /\ k \in DOMAIN Drop(r, ks) => Counts(h[k], Drop(r, ks)[k], u, m[k])
             /\ k \notin DOMAIN Drop(r, ks) => Over(h[k], u)
  <2>1. History(h[k], t) /\ Spaced("admin", h[k])
    BY DEF Watched
  <2>2. History(h[k], u)
    BY <2>1, Later
  <2>3. CASE k \notin DOMAIN r
    BY <1>1, <2>1, <2>2, <2>3, Later DEF Watched
  <2>4. CASE k \in DOMAIN r /\ k \in ks
    <3>1. r[k] \in Entry /\ Counts(h[k], r[k], t, n[k]) /\ n[k] \in Nat
      BY <1>2, <2>4 DEF Watched
    <3>2. Counts(h[k], r[k], u, n[k])
      BY <2>1, <3>1, Later
    <3>3. u > (IF r[k].locked # Never THEN r[k].locked ELSE r[k].start) + Window
      BY <2>4
    <3>4. Over(h[k], u)
      BY <2>2, <3>1, <3>2, <3>3, Lapses
    <3> QED BY <1>1, <2>1, <2>2, <2>4, <3>4
  <2>5. CASE k \in DOMAIN r /\ k \notin ks
    <3>1. r[k] \in Entry /\ Counts(h[k], r[k], t, n[k]) /\ n[k] \in Nat /\ m[k] \in Nat
      BY <1>2, <2>5 DEF Watched
    <3>2. CASE m[k] <= n[k]
      <4>1. Counts(h[k], r[k], u, m[k])
        BY <2>1, <3>1, <3>2, Later
      <4> QED BY <1>1, <2>1, <2>2, <2>5, <4>1
    <3>3. CASE ~(m[k] <= n[k])
      <4>1. m[k] <= P /\ r[k].locked = Never
        BY <2>5, <3>3
      <4>2. r[k].count \in Nat /\ r[k].start \in Nat
        BY <3>1 DEF Entry
      <4>3. r[k].count < MaxFails
        BY <3>1, <4>1, <4>2, NumbersOfLimits DEF Counts
      <4>4. r[k].start <= u /\ r[k].count + m[k] <= MaxFails - 1 + P
        BY <3>1, <4>1, <4>2, <4>3, NumbersOfLimits DEF Counts
      <4>5. Counts(h[k], r[k], u, m[k])
        BY <3>1, <4>4 DEF Counts
      <4> QED BY <1>1, <2>1, <2>2, <2>5, <4>5
    <3> QED BY <3>2, <3>3
  <2> QED BY <2>3, <2>4, <2>5
<1> QED BY <1>1, <1>2, <1>3 DEF Watched

\* Keys whose entry goes and whose failures are forgotten with it.
LEMMA Forgotten ==
  ASSUME NEW t \in Nat, NEW r, NEW h, NEW n \in [Key -> Nat], Watched(r, h, t, n),
         NEW ks, NEW m \in [Key -> Nat], \A k \in Key : m[k] <= n[k],
         NEW g, \A k \in Key : g[k] = IF k \in ks THEN <<>> ELSE h[k]
  PROVE  Watched(Drop(r, ks), g, t, m)
<1>1. DOMAIN Drop(r, ks) = DOMAIN r \ ks /\ \A k \in DOMAIN r \ ks : Drop(r, ks)[k] = r[k]
  BY DEF Drop
<1>2. DOMAIN r \subseteq Key /\ \A k \in DOMAIN r : r[k] \in Entry
  BY DEF Watched
<1>3. ASSUME NEW k \in Key
      PROVE  /\ History(g[k], t) /\ Spaced("admin", g[k])
             /\ k \in DOMAIN Drop(r, ks) => Counts(g[k], Drop(r, ks)[k], t, m[k])
             /\ k \notin DOMAIN Drop(r, ks) => Over(g[k], t)
  <2>1. CASE k \in ks
    BY <1>1, <2>1, NoFailures
  <2>2. CASE k \notin ks
    <3>1. g[k] = h[k] /\ History(h[k], t) /\ Spaced("admin", h[k])
      BY <2>2 DEF Watched
    <3>2. CASE k \in DOMAIN r
      <4>1. r[k] \in Entry /\ Counts(h[k], r[k], t, n[k]) /\ n[k] \in Nat /\ m[k] \in Nat /\ m[k] <= n[k]
        BY <1>2, <3>2 DEF Watched
      <4>2. Counts(h[k], r[k], t, m[k])
        BY <3>1, <4>1, Later
      <4> QED BY <1>1, <2>2, <3>1, <3>2, <4>2
    <3>3. CASE k \notin DOMAIN r
      BY <1>1, <3>1, <3>3 DEF Watched
    <3> QED BY <3>2, <3>3
  <2> QED BY <2>1, <2>2
<1> QED BY <1>1, <1>2, <1>3 DEF Watched

\* recordLoginFailure for one key, in the name of one of the logins under way.
LEMMA OneRecorded ==
  ASSUME now \in Nat, NEW old, NEW h, NEW n \in [Key -> Nat], Watched(old, h, now, n),
         NEW k \in Key, n[k] >= 1, n[k] <= P,
         NEW s \in Recorded(old, k)
  PROVE  Watched(s, Noted(h, old, s, k), now, [n EXCEPT ![k] = @ - 1])
<1> DEFINE r == Drop(old, Lapsed(old, {k}))
           m == [n EXCEPT ![k] = @ - 1]
           none == [count |-> 0, start |-> now, locked |-> Never, seen |-> now]
           is(a) == [a EXCEPT !.count = @ + 1, !.seen = now,
                              !.locked = IF a.count + 1 >= MaxFails THEN now ELSE @]
<1>1. Watched(r, h, now, n)
  <2>1. \A j \in Lapsed(old, {k}) \cap DOMAIN old :
          now > (IF old[j].locked # Never THEN old[j].locked ELSE old[j].start) + Window
    BY DEF Lapsed, Expired
  <2>2. \A j \in Key : n[j] <= n[j]
    OBVIOUS
  <2>3. now <= now
    OBVIOUS
  <2> HIDE DEF r
  <2> QED BY <2>1, <2>2, <2>3, Admitted DEF r
<1>2. PICK os : /\ s = Put(Drop(r, os), k, is(IF k \in DOMAIN Drop(r, os) THEN Drop(r, os)[k] ELSE none))
                /\ k \in DOMAIN r => os = {}
                /\ os \subseteq DOMAIN r
  <2>1. PICK b \in (IF k \in DOMAIN r \/ Cardinality(DOMAIN r) < MaxEntries THEN {r}
                    ELSE {Drop(r, {o}) : o \in Oldest(r)}) :
          s = Put(b, k, is(IF k \in DOMAIN b THEN b[k] ELSE none))
    BY DEF Recorded
  <2>2. CASE b = r
    <3>1. DOMAIN r \ {} = DOMAIN r /\ r = [j \in DOMAIN r |-> r[j]]
      BY DEF Drop
    <3>2. Drop(r, {}) = r
      <4> HIDE DEF r
      <4> QED BY <3>1 DEF Drop
    <3> HIDE DEF r, is, none
    <3> QED BY <2>1, <2>2, <3>2
  <2>3. CASE b # r
    <3>1. k \notin DOMAIN r
      BY <2>1, <2>3
    <3>2. PICK o \in Oldest(r) : b = Drop(r, {o})
      BY <2>1, <2>3
    <3>3. o \in DOMAIN r
      BY DEF Oldest
    <3> HIDE DEF r, is, none
    <3> QED BY <2>1, <3>1, <3>2, <3>3
  <2> QED BY <2>2, <2>3
<1> DEFINE b == Drop(r, os)
           g == [j \in Key |-> IF j \in os THEN <<>> ELSE h[j]]
           z == Noted(h, old, s, k)
<1>3. /\ m \in [Key -> Nat] /\ m[k] = n[k] - 1
      /\ \A j \in Key : j # k => m[j] = n[j]
  OBVIOUS
<1>4. DOMAIN r \subseteq DOMAIN old /\ \A j \in DOMAIN old : j # k => j \in DOMAIN r
  BY DEF Drop, Lapsed
<1>5. /\ DOMAIN b = DOMAIN r \ os
      /\ DOMAIN s = DOMAIN b \cup {k} /\ s[k] = is(IF k \in DOMAIN b THEN b[k] ELSE none)
      /\ \A j \in DOMAIN b : j # k => s[j] = b[j]
  <2> HIDE DEF r, is, none
  <2> QED BY <1>2 DEF Put, Drop
<1>6. \A j \in Key : z[j] = IF j = k THEN Append(g[j], now) ELSE g[j]
  <2> HIDE DEF r, is, none, b
  <2>1. \A j \in Key : j # k => (j \in DOMAIN old \ DOMAIN s <=> j \in os)
    BY <1>2, <1>4, <1>5
  <2>2. k \in DOMAIN s /\ k \notin os
    BY <1>2, <1>5
  <2> QED BY <2>1, <2>2 DEF Noted
<1>7. Watched(b, g, now, n)
  <2>1. \A j \in Key : n[j] <= n[j]
    OBVIOUS
  <2> HIDE DEF r, is, none
  <2> QED BY <1>1, <2>1, Forgotten
<1>8. /\ History(g[k], now) /\ Spaced("admin", g[k]) /\ n[k] \in Nat
      /\ s[k] \in Entry /\ Counts(z[k], s[k], now, m[k]) /\ History(z[k], now) /\ Spaced("admin", z[k])
  <2>0. History(g[k], now) /\ Spaced("admin", g[k]) /\ n[k] \in Nat
    BY <1>7 DEF Watched
  <2>1. z[k] = Append(g[k], now)
    BY <1>6
  <2>2. CASE k \in DOMAIN b
    <3>1. b[k] \in Entry /\ Counts(g[k], b[k], now, n[k]) /\ s[k] = is(b[k])
      BY <1>5, <1>7, <2>2 DEF Watched
    <3> HIDE DEF b, g, z, m
    <3>2. LET q == b[k]
              c == [q EXCEPT !.count = @ + 1, !.seen = now,
                             !.locked = IF q.count + 1 >= MaxFails THEN now ELSE @]
          IN /\ c \in Entry /\ Counts(Append(g[k], now), c, now, n[k] - 1)
             /\ History(Append(g[k], now), now) /\ Spaced("admin", Append(g[k], now))
      BY <2>0, <3>1, NextFailure, Zenon
    <3> QED BY <1>3, <2>0, <2>1, <3>1, <3>2
  <2>3. CASE k \notin DOMAIN b
    <3>1. Over(g[k], now) /\ s[k] = is(none)
      BY <1>5, <1>7, <2>3 DEF Watched
    <3> HIDE DEF b, g, z, m
    <3>2. /\ is(none) \in Entry /\ Counts(Append(g[k], now), is(none), now, n[k] - 1)
          /\ History(Append(g[k], now), now) /\ Spaced("admin", Append(g[k], now))
      BY <2>0, <3>1, FirstFailure, Zenon
    <3> QED BY <1>3, <2>0, <2>1, <3>1, <3>2, Zenon
  <2> QED BY <2>0, <2>2, <2>3
<1>9. ASSUME NEW j \in Key, j # k
      PROVE  /\ History(z[j], now) /\ Spaced("admin", z[j])
             /\ j \in DOMAIN s => s[j] \in Entry /\ Counts(z[j], s[j], now, m[j])
             /\ j \notin DOMAIN s => Over(z[j], now)
  <2> HIDE DEF b, g, z, m, is, none
  <2>1. z[j] = g[j] /\ m[j] = n[j] /\ (j \in DOMAIN s <=> j \in DOMAIN b) /\ (j \in DOMAIN s => s[j] = b[j])
    BY <1>3, <1>5, <1>6, <1>9
  <2> QED BY <2>1, <1>7 DEF Watched
<1> HIDE DEF b, g, z, m, is, none, r
<1>10. DOMAIN s \subseteq Key
  BY <1>5, <1>7 DEF Watched
<1>11. Watched(s, z, now, m)
  BY <1>5, <1>8, <1>9, <1>10 DEF Watched
<1> QED BY <1>11 DEF z, m

\* An entry of the WebDAV server: its run is what has failed since the last lock or the last
\* silence of a Window, and while it blocks nobody more comes in.
Past(s, t) == \A i \in 1..Len(s) : s[i] + Window <= t

DavCounts(s, e, t, n) ==
  /\ e.fails <= MaxFails - 1
  /\ \A i \in 1..Len(s) : s[i] <= e.last
  /\ \A i \in 1..Len(s) : i <= Len(s) - e.fails => s[i] + Window <= e.until \/ s[i] + Window <= t
  /\ t < e.until => \A i \in 1..Len(s) : i <= Len(s) - (MaxFails - 1 + P - n) => s[i] + Window <= t

DavEntry == [fails : Nat, until : Int, last : Nat]

DavWatched(e, h, t, n) ==
  /\ DOMAIN e \subseteq IP
  /\ \A ip \in DOMAIN e : e[ip] \in DavEntry
  /\ \A k \in Key : History(h[k], t) /\ Spaced("webdav", h[k])
  /\ \A ip \in IP :
       /\ ip \in DOMAIN e => DavCounts(h[<<"ip", ip>>], e[ip], t, n[<<"ip", ip>>])
       /\ ip \notin DOMAIN e => Past(h[<<"ip", ip>>], t)

LEMMA DavLater ==
  ASSUME NEW s, NEW t \in Nat, NEW u \in Nat, t <= u, History(s, t)
  PROVE  /\ Past(s, t) => Past(s, u)
         /\ \A e \in DavEntry, n, m \in Nat :
              DavCounts(s, e, t, n) /\ (m <= n \/ e.until <= u) => DavCounts(s, e, u, m)
<1>1. Len(s) \in Nat /\ \A i \in 1..Len(s) : s[i] \in Nat
  BY DEF History
<1>2. Past(s, t) => Past(s, u)
  BY <1>1, NumbersOfLimits DEF Past
<1>3. ASSUME NEW e \in DavEntry, NEW n \in Nat, NEW m \in Nat, DavCounts(s, e, t, n),
             m <= n \/ e.until <= u
      PROVE  DavCounts(s, e, u, m)
  <2>1. e.fails \in Nat /\ e.until \in Int
    BY DEF DavEntry
  <2>2. \A i \in 1..Len(s) : s[i] + Window <= t => s[i] + Window <= u
    BY <1>1, NumbersOfLimits
  <2>3. ASSUME u < e.until, NEW i \in 1..Len(s), i <= Len(s) - (MaxFails - 1 + P - m)
        PROVE  s[i] + Window <= u
    <3>1. m <= n /\ t < e.until
      BY <1>3, <2>1, <2>3
    <3>2. i <= Len(s) - (MaxFails - 1 + P - n)
      BY <1>1, <2>3, <3>1, NumbersOfLimits
    <3> QED BY <1>3, <2>2, <3>1, <3>2 DEF DavCounts
  <2> QED BY <1>3, <2>2, <2>3 DEF DavCounts
<1> QED BY <1>2, <1>3

\* A failure more, of one of the n logins under way.
LEMMA DavFailure ==
  ASSUME NEW t \in Nat, NEW s, History(s, t), Spaced("webdav", s),
         NEW n \in Nat, n >= 1, n <= P, NEW was \in DavEntry, was.fails <= MaxFails - 1,
         Past(s, t) \/ DavCounts(s, was, t, n),
         NEW f, f = (IF t - was.last > Window THEN 0 ELSE was.fails) + 1,
         NEW e \in DavEntry, e.fails = IF f >= MaxFails THEN 0 ELSE f, e.last = t,
         e.until = IF f >= MaxFails THEN t + Window ELSE was.until
  PROVE  /\ DavCounts(Append(s, t), e, t, n - 1)
         /\ History(Append(s, t), t) /\ Spaced("webdav", Append(s, t))
<1> DEFINE z == Append(s, t)
           l == Len(s)
<1>0. s \in Seq(Nat) /\ \A i \in 1..Len(s) : s[i] \in Nat /\ s[i] <= t
  BY DEF History
<1>1. /\ z \in Seq(Nat) /\ Len(z) = l + 1 /\ l \in Nat
      /\ \A i \in 1..l : z[i] = s[i]
      /\ z[l + 1] = t
  BY <1>0, Appended
<1>2. was.fails \in Nat /\ was.until \in Int /\ was.last \in Nat
  BY DEF DavEntry
<1> HIDE DEF z
<1>3. \A i \in 1..Len(z) : z[i] \in Nat /\ z[i] <= t
  <2> TAKE i \in 1..Len(z)
  <2>1. i \in 1..l \/ i = l + 1
    BY <1>1
  <2>2. CASE i \in 1..l
    BY <1>0, <1>1, <2>2, Zenon
  <2>3. CASE i = l + 1
    <3>1. z[i] = t
      BY <1>1, <2>3
    <3> QED BY <3>1
  <2> QED BY <2>1, <2>2, <2>3
<1>4. History(z, t)
  BY <1>1, <1>3 DEF History
<1>n. Len(z) = l + 1 /\ l \in Nat
  BY <1>1
<1>5. f \in Nat /\ f >= 1 /\ f <= MaxFails /\ e.fails <= MaxFails - 1 /\ e.fails \in Nat
  BY <1>2, NumbersOfLimits
<1>6. ASSUME Past(s, t), NEW i \in 1..l PROVE z[i] + Window <= t
  BY <1>1, <1>6 DEF Past
<1>7. t - was.last > Window => Past(s, t)
  <2> SUFFICES ASSUME t - was.last > Window, DavCounts(s, was, t, n), NEW i \in 1..l
               PROVE  s[i] + Window <= t
    BY DEF Past
  <2>1. s[i] <= was.last /\ s[i] \in Nat
    BY <1>0 DEF DavCounts
  <2> QED BY <1>2, <2>1, NumbersOfLimits
<1>8. \A i \in 1..Len(z) : i <= Len(z) - e.fails => z[i] + Window <= e.until \/ z[i] + Window <= t
  <2> SUFFICES ASSUME NEW i \in 1..Len(z), i <= Len(z) - e.fails
               PROVE  z[i] + Window <= e.until \/ z[i] + Window <= t
    OBVIOUS
  <2>1. CASE f >= MaxFails
    <3>1. z[i] \in Nat /\ z[i] <= t /\ e.until = t + Window
      BY <1>3, <2>1
    <3> QED BY <3>1, NumbersOfLimits
  <2>2. CASE f < MaxFails
    <3>1. e.fails = f /\ e.until = was.until
      BY <1>5, <2>2, NumbersOfLimits
    <3>2. i \in 1..l /\ i <= l + 1 - f
      BY <1>n, <1>5, <3>1
    <3>3. CASE Past(s, t)
      BY <1>6, <3>2, <3>3
    <3>4. CASE DavCounts(s, was, t, n) /\ ~ Past(s, t)
      <4>1. f = was.fails + 1
        BY <1>2, <1>7, <3>4
      <4>2. i <= Len(s) - was.fails
        BY <1>n, <1>2, <3>2, <4>1
      <4>3. s[i] + Window <= was.until \/ s[i] + Window <= t
        BY <3>2, <3>4, <4>2 DEF DavCounts
      <4> QED BY <1>1, <3>1, <3>2, <4>3
    <3> QED BY <3>3, <3>4
  <2> QED BY <1>5, <2>1, <2>2, NumbersOfLimits
<1>9. ASSUME NEW i \in 1..l, was.until <= t, i <= l + 1 - MaxFails
      PROVE  z[i] + Window <= t
  <2>1. CASE Past(s, t)
    BY <1>6, <2>1
  <2>2. CASE DavCounts(s, was, t, n)
    <3>1. i <= Len(s) - was.fails
      BY <1>n, <1>2, <1>9, NumbersOfLimits
    <3>2. s[i] + Window <= was.until \/ s[i] + Window <= t
      BY <2>2, <3>1 DEF DavCounts
    <3>3. s[i] \in Nat /\ z[i] = s[i]
      BY <1>0, <1>1
    <3> QED BY <1>2, <1>9, <3>2, <3>3, NumbersOfLimits
  <2> QED BY <2>1, <2>2
<1>10. ASSUME NEW i \in 1..l, t < was.until, i <= l - (MaxFails - 1 + P - n)
      PROVE  z[i] + Window <= t
  <2>1. CASE Past(s, t)
    BY <1>6, <2>1
  <2>2. CASE DavCounts(s, was, t, n)
    <3>1. s[i] + Window <= t
      BY <1>10, <2>2 DEF DavCounts
    <3> QED BY <1>1, <3>1
  <2> QED BY <2>1, <2>2
<1>11. \A i \in 1..Len(z) : i <= Len(z) - (MaxFails - 1 + P - (n - 1)) => z[i] + Window <= t
  <2> SUFFICES ASSUME NEW i \in 1..Len(z), i <= Len(z) - (MaxFails - 1 + P - (n - 1))
               PROVE  z[i] + Window <= t
    OBVIOUS
  <2>1. i \in 1..l /\ i <= l + 1 - MaxFails /\ i <= l - (MaxFails - 1 + P - n)
    BY <1>n, NumbersOfLimits
  <2>2. was.until <= t \/ t < was.until
    BY <1>2
  <2> QED BY <1>9, <1>10, <2>1, <2>2
<1>12. DavCounts(z, e, t, n - 1)
  BY <1>3, <1>5, <1>8, <1>11 DEF DavCounts
<1>13. Spaced("webdav", z)
  <2> SUFFICES ASSUME NEW i \in 1..Len(z), i + Bound("webdav") <= Len(z)
               PROVE  z[i + Bound("webdav")] >= z[i] + Window
    BY DEF Spaced
  <2>1. CASE i + Bound("webdav") <= l
    <3>1. i \in 1..l /\ i + Bound("webdav") \in 1..l
      BY <1>n, <2>1, NumbersOfLimits
    <3>2. s[i + Bound("webdav")] >= s[i] + Window
      BY <2>1, <3>1 DEF Spaced
    <3> QED BY <1>1, <3>1, <3>2
  <2>2. CASE i + Bound("webdav") = l + 1
    <3>1. i \in 1..Len(z) /\ i <= Len(z) - (MaxFails - 1 + P - (n - 1))
      BY <1>n, <2>2, NumbersOfLimits
    <3>2. z[i] + Window <= t /\ z[i] \in Nat
      BY <1>3, <1>11, <3>1
    <3>3. z[i + Bound("webdav")] = t
      BY <1>1, <2>2
    <3> QED BY <3>2, <3>3, NumbersOfLimits
  <2> QED BY <1>n, <2>1, <2>2, NumbersOfLimits
<1> QED BY <1>4, <1>12, <1>13 DEF z

-----------------------------------------------------------------------------
(* Guesses: the logins under way, and every step. *)

Guessing == {"read", "load", "compare", "davCheck"}
Named    == {"load", "compare"}

\* The logins under way that the entry of k did not stop.
Under(k) == {p \in Proc : \/ req[p].at \in Guessing /\ k = <<"ip", req[p].ip>>
                          \/ req[p].at \in Named /\ k = <<"user", req[p].user>>}

Pends == [k \in Key |-> Cardinality(Under(k))]

Doors ==
  /\ door \in {"admin", "webdav"}
  /\ \A p \in Proc : /\ req[p].at \in Guessing => req[p].ip \in IP
                     /\ req[p].at \in Named => req[p].user \in User
                     /\ req[p].at \in {"read", "load", "compare"} => door = "admin"
                     /\ req[p].at = "davCheck" => door = "webdav"

GuessInv ==
  /\ now \in Nat /\ tries \in [Key -> Seq(Nat)]
  /\ Doors
  /\ door = "admin" => Watched(rate, tries, now, Pends)
  /\ door = "webdav" => DavWatched(streak, tries, now, Pends)

\* p guesses as it did, or no longer.
SameGuess(p) ==
  /\ req'[p].at \in Guessing => /\ req[p].at \in Guessing /\ req'[p].ip = req[p].ip
                                /\ req'[p].at = "davCheck" <=> req[p].at = "davCheck"
  /\ req'[p].at \in Named => req[p].at \in Named /\ req'[p].user = req[p].user

LEMMA KeysAreKeys ==
  /\ \A ip \in IP : <<"ip", ip>> \in Key
  /\ \A u \in User : <<"user", u>> \in Key
  /\ \A k \in Key : (\E ip \in IP : k = <<"ip", ip>>) \/ (\E u \in User : k = <<"user", u>>)
  /\ \A x, y : <<"ip", x>> # <<"user", y>>
  BY DEF Key

LEMMA PendsType ==
  /\ Pends \in [Key -> Nat] /\ \A k \in Key : Pends[k] = Cardinality(Under(k)) /\ Pends[k] <= P
<1>1. ASSUME NEW k \in Key PROVE Cardinality(Under(k)) \in Nat /\ Cardinality(Under(k)) <= P
  BY ProcAssumption, FS_Subset, FS_CardinalityType DEF Under, P
<1> QED BY <1>1 DEF Pends

LEMMA PendsFall ==
  ASSUME \A p \in Proc : SameGuess(p)
  PROVE  Pends' \in [Key -> Nat] /\ \A k \in Key : Pends'[k] <= Pends[k]
<1>1. ASSUME NEW k \in Key
      PROVE  Cardinality(Under(k)') \in Nat /\ Cardinality(Under(k)') <= Cardinality(Under(k))
  <2>1. Under(k)' \subseteq Under(k)
    BY DEF Under, SameGuess, Guessing, Named
  <2>2. IsFiniteSet(Under(k))
    BY ProcAssumption, FS_Subset DEF Under
  <2> QED BY <2>1, <2>2, FS_Subset, FS_CardinalityType
<1> QED BY <1>1 DEF Pends

LEMMA DoorsStay ==
  ASSUME Doors, door' = door, \A p \in Proc : SameGuess(p)
  PROVE  Doors'
  BY DEF Doors, SameGuess, Guessing, Named

\* Nothing is recorded, and nobody comes in.
LEMMA Unrecorded ==
  ASSUME GuessInv, UNCHANGED <<door, limits>>, now' \in {now, now + 1}, \A p \in Proc : SameGuess(p)
  PROVE  GuessInv'
<1>1. /\ door' = door /\ rate' = rate /\ tries' = tries /\ streak' = streak
      /\ now \in Nat /\ now' \in Nat /\ now <= now'
  BY DEF limits, GuessInv
<1>2. /\ Pends \in [Key -> Nat] /\ Pends' \in [Key -> Nat] /\ \A k \in Key : Pends'[k] <= Pends[k]
  BY PendsType, PendsFall
<1>3. Doors'
  BY <1>1, DoorsStay DEF GuessInv
<1>4. CASE door = "admin"
  <2>1. Watched(rate, tries, now, Pends)
    BY <1>4 DEF GuessInv
  <2>2. ASSUME NEW k \in Key
        PROVE  /\ History(tries[k], now') /\ Spaced("admin", tries[k])
               /\ k \in DOMAIN rate => Counts(tries[k], rate[k], now', Pends'[k])
               /\ k \notin DOMAIN rate => Over(tries[k], now')
    BY <1>1, <1>2, <2>1, Later DEF Watched
  <2>3. Watched(rate, tries, now', Pends')
    BY <2>1, <2>2 DEF Watched
  <2> QED BY <1>1, <1>3, <1>4, <2>3 DEF GuessInv
<1>5. CASE door = "webdav"
  <2>1. DavWatched(streak, tries, now, Pends)
    BY <1>5 DEF GuessInv
  <2>2. ASSUME NEW k \in Key
        PROVE  History(tries[k], now) /\ History(tries[k], now') /\ Spaced("webdav", tries[k])
    BY <1>1, <2>1, Later DEF DavWatched
  <2>3. ASSUME NEW ip \in IP
        PROVE  /\ ip \in DOMAIN streak => DavCounts(tries[<<"ip", ip>>], streak[ip], now', Pends'[<<"ip", ip>>])
               /\ ip \notin DOMAIN streak => Past(tries[<<"ip", ip>>], now')
    <3>1. PICK k \in Key : k = <<"ip", ip>>
      BY KeysAreKeys
    <3>2. /\ ip \in DOMAIN streak => streak[ip] \in DavEntry /\ DavCounts(tries[k], streak[ip], now, Pends[k])
          /\ ip \notin DOMAIN streak => Past(tries[k], now)
      BY <2>1, <3>1 DEF DavWatched
    <3>3. /\ ip \in DOMAIN streak => DavCounts(tries[k], streak[ip], now', Pends'[k])
          /\ ip \notin DOMAIN streak => Past(tries[k], now')
      BY <1>1, <1>2, <2>2, <3>2, DavLater
    <3> QED BY <3>1, <3>3
  <2>4. DavWatched(streak, tries, now', Pends')
    BY <2>1, <2>2, <2>3 DEF DavWatched
  <2> QED BY <1>1, <1>3, <1>5, <2>4 DEF GuessInv
<1> QED BY <1>4, <1>5 DEF GuessInv, Doors

\* Expired entries go, and nobody comes in.
LEMMA Pruned ==
  ASSUME GuessInv, UNCHANGED <<door, now, streak, tries>>, NEW ks, rate' = Drop(rate, Lapsed(rate, ks)),
         \A p \in Proc : SameGuess(p)
  PROVE  GuessInv'
<1>1. Pends \in [Key -> Nat] /\ Pends' \in [Key -> Nat] /\ \A k \in Key : Pends'[k] <= Pends[k]
  BY PendsType, PendsFall
<1>2. Doors'
  BY DoorsStay DEF GuessInv
<1>3. now \in Nat /\ now <= now
  BY DEF GuessInv
<1>4. CASE door = "admin"
  <2>1. Watched(rate, tries, now, Pends)
    BY <1>4 DEF GuessInv
  <2>2. \A k \in Lapsed(rate, ks) \cap DOMAIN rate :
          now > (IF rate[k].locked # Never THEN rate[k].locked ELSE rate[k].start) + Window
    BY DEF Lapsed, Expired
  <2>3. Watched(rate', tries, now, Pends')
    BY <1>1, <1>3, <2>1, <2>2, Admitted
  <2> QED BY <1>2, <1>4, <2>3 DEF GuessInv
<1>5. CASE door = "webdav"
  <2>1. DavWatched(streak, tries, now, Pends)
    BY <1>5 DEF GuessInv
  <2>2. ASSUME NEW ip \in IP
        PROVE  ip \in DOMAIN streak => DavCounts(tries[<<"ip", ip>>], streak[ip], now, Pends'[<<"ip", ip>>])
    <3>1. PICK k \in Key : k = <<"ip", ip>>
      BY KeysAreKeys
    <3>2. ip \in DOMAIN streak => streak[ip] \in DavEntry /\ DavCounts(tries[k], streak[ip], now, Pends[k])
      BY <2>1, <3>1 DEF DavWatched
    <3>3. History(tries[k], now)
      BY <2>1 DEF DavWatched
    <3> QED BY <1>1, <1>3, <3>1, <3>2, <3>3, DavLater
  <2>3. DavWatched(streak, tries, now, Pends')
    BY <2>1, <2>2 DEF DavWatched
  <2> QED BY <1>2, <1>5, <2>3 DEF GuessInv
<1> QED BY <1>4, <1>5 DEF GuessInv, Doors

LEMMA PendsOfOne ==
  ASSUME NEW p \in Proc, \A q \in Proc \ {p} : req'[q] = req[q]
  PROVE  /\ Pends' \in [Key -> Nat]
         /\ \A k \in Key : /\ Pends'[k] <= P
                           /\ p \notin Under(k)' => Pends'[k] <= Pends[k]
                           /\ p \in Under(k) /\ p \notin Under(k)' => Pends[k] >= 1 /\ Pends'[k] = Pends[k] - 1
                           /\ (p \in Under(k) <=> p \in Under(k)') => Pends'[k] = Pends[k]
<1>1. ASSUME NEW k \in Key
      PROVE  LET c == Cardinality(Under(k))
                 d == Cardinality(Under(k)')
             IN /\ c \in Nat /\ d \in Nat /\ d <= P
                /\ p \notin Under(k)' => d <= c
                /\ p \in Under(k) /\ p \notin Under(k)' => c >= 1 /\ d = c - 1
                /\ (p \in Under(k) <=> p \in Under(k)') => d = c
  <2> DEFINE U == Under(k)
             V == Under(k)'
  <2>1. U \subseteq Proc /\ V \subseteq Proc /\ \A q \in Proc \ {p} : q \in U <=> q \in V
    BY DEF Under
  <2> HIDE DEF U, V
  <2>2. /\ IsFiniteSet(U) /\ IsFiniteSet(V)
        /\ Cardinality(U) \in Nat /\ Cardinality(V) \in Nat /\ Cardinality(V) <= P
    BY <2>1, ProcAssumption, FS_Subset, FS_CardinalityType DEF P
  <2>3. (p \in U <=> p \in V) => U = V
    BY <2>1
  <2>4. p \in U /\ p \notin V => Cardinality(U) >= 1 /\ Cardinality(V) = Cardinality(U) - 1
    <3> SUFFICES ASSUME p \in U, p \notin V PROVE Cardinality(U) >= 1 /\ Cardinality(V) = Cardinality(U) - 1
      OBVIOUS
    <3>1. V = U \ {p}
      BY <2>1
    <3>2. Cardinality(V) = Cardinality(U) - 1
      BY <2>2, <3>1, FS_RemoveElement
    <3> QED BY <2>2, <3>2
  <2>5. p \notin V => V \subseteq U
    BY <2>1
  <2>6. p \notin V => Cardinality(V) <= Cardinality(U)
    BY <2>2, <2>5, FS_Subset
  <2> QED BY <2>2, <2>3, <2>4, <2>6 DEF U, V
<1>2. /\ \A k \in Key : Pends[k] = Cardinality(Under(k)) /\ Pends'[k] = Cardinality(Under(k)')
      /\ Pends' = [k \in Key |-> Cardinality(Under(k)')]
  BY DEF Pends
<1>3. Pends' \in [Key -> Nat]
  BY <1>1, <1>2
<1> QED BY <1>1, <1>2, <1>3

\* Someone comes in past the entries of keys that are not locked.
LEMMA ComesIn ==
  ASSUME GuessInv, door = "admin", UNCHANGED <<door, now, streak, tries>>,
         NEW p \in Proc, \A q \in Proc \ {p} : req'[q] = req[q],
         NEW ks, rate' = Drop(rate, Lapsed(rate, ks)), ~Locked(ks), Doors',
         \A k \in Key : p \in Under(k)' => k \in ks
  PROVE  GuessInv'
<1>1. now \in Nat /\ now <= now /\ Watched(rate, tries, now, Pends)
  BY DEF GuessInv
<1>2. Pends \in [Key -> Nat] /\ Pends' \in [Key -> Nat]
  BY PendsType, PendsOfOne
<1>3. \A k \in Key : \/ Pends'[k] <= Pends[k]
                     \/ /\ Pends'[k] <= P
                        /\ k \in Lapsed(rate, ks) \/ k \notin DOMAIN rate \/ rate[k].locked = Never
  BY PendsOfOne DEF Locked
<1>4. \A k \in Lapsed(rate, ks) \cap DOMAIN rate :
        now > (IF rate[k].locked # Never THEN rate[k].locked ELSE rate[k].start) + Window
  BY DEF Lapsed, Expired
<1>5. Watched(rate', tries, now, Pends')
  BY <1>1, <1>2, <1>3, <1>4, Admitted
<1> QED BY <1>5 DEF GuessInv

LEMMA OneMoves ==
  ASSUME ReqTypes, NEW p \in Proc, NEW r, Goto(p, r)
  PROVE  req'[p] = r /\ \A q \in Proc \ {p} : req'[q] = req[q]
  BY DEF ReqTypes, Goto

LEMMA SameIfUnmoved ==
  ASSUME NEW p \in Proc, \A q \in Proc \ {p} : req'[q] = req[q], SameGuess(p)
  PROVE  \A q \in Proc : SameGuess(q)
  BY DEF SameGuess

LEMMA BeginLoginGuess ==
  ASSUME ReqTypes, GuessInv, NEW p \in Proc, BeginLogin(p) PROVE GuessInv'
<1>1. PICK ip \in IP :
        /\ rate' = Drop(rate, Lapsed(rate, {<<"ip", ip>>}))
        /\ IF Locked({<<"ip", ip>>}) THEN UNCHANGED req ELSE Goto(p, [Idle EXCEPT !.at = "read", !.ip = ip])
  BY DEF BeginLogin
<1>2. door = "admin" /\ UNCHANGED <<door, now, streak, tries>>
  BY DEF BeginLogin
<1>3. CASE Locked({<<"ip", ip>>})
  <2>1. \A q \in Proc : SameGuess(q)
    BY <1>1, <1>3 DEF SameGuess
  <2> QED BY <1>1, <1>2, <2>1, Pruned
<1>4. CASE ~Locked({<<"ip", ip>>})
  <2>1. /\ req'[p] = [Idle EXCEPT !.at = "read", !.ip = ip]
        /\ \A q \in Proc \ {p} : req'[q] = req[q]
    BY <1>1, <1>4, OneMoves
  <2>2. req'[p].at = "read" /\ req'[p].ip = ip
    BY <2>1 DEF Idle
  <2>3. Doors'
    BY <1>2, <2>1, <2>2 DEF GuessInv, Doors, Guessing, Named
  <2>4. \A k \in Key : p \in Under(k)' => k \in {<<"ip", ip>>}
    BY <2>2 DEF Under, Named
  <2> QED BY <1>1, <1>2, <1>4, <2>1, <2>3, <2>4, ComesIn
<1> QED BY <1>3, <1>4

LEMMA CheckNameGuess ==
  ASSUME ReqTypes, GuessInv, NEW p \in Proc, CheckName(p) PROVE GuessInv'
<1>1. PICK u \in User :
        /\ rate' = Drop(rate, Lapsed(rate, Keys(req[p].ip, u)))
        /\ Goto(p, IF Locked(Keys(req[p].ip, u)) THEN Idle ELSE [req[p] EXCEPT !.at = "load", !.user = u])
  BY DEF CheckName
<1>2. /\ UNCHANGED <<door, now, streak, tries>> /\ req[p].at = "read"
      /\ door = "admin" /\ req[p].ip \in IP /\ req[p] \in Requests
  BY DEF CheckName, At, GuessInv, Doors, Guessing, ReqTypes
<1>3. CASE Locked(Keys(req[p].ip, u))
  <2>1. req'[p] = Idle /\ \A q \in Proc \ {p} : req'[q] = req[q]
    BY <1>1, <1>3, OneMoves
  <2>2. SameGuess(p)
    BY <2>1 DEF SameGuess, Idle, Guessing, Named
  <2> QED BY <1>1, <1>2, <2>1, <2>2, SameIfUnmoved, Pruned
<1>4. CASE ~Locked(Keys(req[p].ip, u))
  <2>1. /\ req'[p] = [req[p] EXCEPT !.at = "load", !.user = u]
        /\ \A q \in Proc \ {p} : req'[q] = req[q]
    BY <1>1, <1>4, OneMoves
  <2>2. req'[p].at = "load" /\ req'[p].ip = req[p].ip /\ req'[p].user = u
    BY <1>2, <2>1 DEF Requests
  <2>3. Doors'
    BY <1>2, <2>1, <2>2 DEF GuessInv, Doors, Guessing, Named
  <2>4. \A k \in Key : p \in Under(k)' => k \in Keys(req[p].ip, u)
    BY <2>2 DEF Under, Keys
  <2> QED BY <1>1, <1>2, <1>4, <2>1, <2>3, <2>4, ComesIn
<1> QED BY <1>3, <1>4

LEMMA RefuseGuess ==
  ASSUME ReqTypes, GuessInv, NEW p \in Proc, Refuse(p) PROVE GuessInv'
<1> DEFINE i == <<"ip", req[p].ip>>
           n == <<"user", req[p].user>>
<1>1. /\ req[p].at = "compare" /\ door = "admin" /\ UNCHANGED <<door, now, streak>>
      /\ i \in Key /\ n \in Key /\ i # n
  BY KeysAreKeys DEF Refuse, At, GuessInv, Doors, Guessing, Named
<1>2. PICK r \in Recorded(rate, i) : \E s \in Recorded(r, n) :
        rate' = s /\ tries' = Noted(Noted(tries, rate, r, i), r, s, n)
  BY DEF Refuse, RecordFailure
<1>3. rate' \in Recorded(r, n) /\ tries' = Noted(Noted(tries, rate, r, i), r, rate', n)
  BY <1>2
<1>4. req'[p] = Idle /\ \A q \in Proc \ {p} : req'[q] = req[q]
  BY OneMoves DEF Refuse
<1>5. Idle.at = "idle"
  BY DEF Idle
<1>6. \A k \in Key : (p \in Under(k) <=> k \in {i, n}) /\ p \notin Under(k)'
  BY <1>1, <1>4, <1>5 DEF Under, Guessing, Named
<1>7. now \in Nat /\ Watched(rate, tries, now, Pends)
  BY <1>1 DEF GuessInv
<1>8. Pends \in [Key -> Nat] /\ Pends' \in [Key -> Nat] /\ Pends[i] <= P /\ Pends[n] <= P
  BY <1>1, <1>4, PendsType, PendsOfOne
<1>9. /\ Pends[i] >= 1 /\ Pends[n] >= 1 /\ Pends'[i] = Pends[i] - 1 /\ Pends'[n] = Pends[n] - 1
      /\ \A k \in Key \ {i, n} : Pends'[k] = Pends[k]
  BY <1>1, <1>4, <1>6, PendsOfOne
<1> DEFINE m == [Pends EXCEPT ![i] = @ - 1]
           h == Noted(tries, rate, r, i)
<1> HIDE DEF i, n
<1>10. Watched(r, h, now, m)
  BY <1>1, <1>2, <1>7, <1>8, <1>9, OneRecorded
<1>11. m \in [Key -> Nat] /\ m[n] = Pends[n]
  BY <1>1, <1>8, <1>9
<1>12. [m EXCEPT ![n] = @ - 1] = Pends'
  BY <1>1, <1>8, <1>9
<1> HIDE DEF m, h
<1>13. Watched(rate', Noted(h, r, rate', n), now, [m EXCEPT ![n] = @ - 1])
  BY <1>1, <1>3, <1>7, <1>8, <1>9, <1>10, <1>11, OneRecorded
<1>14. Watched(rate', tries', now, Pends')
  BY <1>3, <1>12, <1>13 DEF h
<1>15. tries' \in [Key -> Seq(Nat)]
  <2>1. \A k \in Key : tries'[k] \in Seq(Nat)
    BY <1>14 DEF Watched, History
  <2>2. tries' = [k \in Key |-> tries'[k]]
    BY <1>3 DEF Noted
  <2> QED BY <2>1, <2>2
<1>16. Doors'
  BY <1>1, <1>4, <1>5 DEF GuessInv, Doors, Guessing, Named
<1> QED BY <1>1, <1>7, <1>14, <1>15, <1>16 DEF GuessInv

LEMMA AcceptGuess ==
  ASSUME ReqTypes, GuessInv, NEW p \in Proc, Accept(p) PROVE GuessInv'
<1> DEFINE ks == Keys(req[p].ip, req[p].user)
<1>1. /\ req[p].at = "compare" /\ door = "admin" /\ UNCHANGED <<door, now, streak>> /\ req[p] \in Requests
      /\ rate' = Drop(rate, ks) /\ tries' = [k \in Key |-> IF k \in ks THEN <<>> ELSE tries[k]]
  BY DEF Accept, At, GuessInv, Doors, ReqTypes
<1> HIDE DEF ks
<1>2. req'[p] = [req[p] EXCEPT !.at = "create"] /\ \A q \in Proc \ {p} : req'[q] = req[q]
  BY OneMoves DEF Accept
<1>3. req'[p].at = "create"
  BY <1>1, <1>2 DEF Requests
<1>4. \A q \in Proc : SameGuess(q)
  BY <1>2, <1>3, SameIfUnmoved DEF SameGuess, Guessing, Named
<1>5. Pends \in [Key -> Nat] /\ Pends' \in [Key -> Nat] /\ \A k \in Key : Pends'[k] <= Pends[k]
  BY <1>4, PendsType, PendsFall
<1>6. \A k \in Key : tries'[k] = IF k \in ks THEN <<>> ELSE tries[k]
  BY <1>1
<1>7. now \in Nat /\ Watched(rate, tries, now, Pends)
  BY <1>1 DEF GuessInv
<1>8. Watched(rate', tries', now, Pends')
  BY <1>1, <1>5, <1>6, <1>7, Forgotten
<1>9. tries' \in [Key -> Seq(Nat)]
  BY <1>1 DEF GuessInv
<1>10. Doors'
  BY <1>1, <1>4, DoorsStay DEF GuessInv
<1> QED BY <1>1, <1>7, <1>8, <1>9, <1>10 DEF GuessInv

LEMMA RestartGuess ==
  ASSUME ReqTypes, GuessInv, Restart PROVE GuessInv'
<1>1. /\ UNCHANGED <<door, now>> /\ rate' = <<>> /\ streak' = <<>> /\ tries' = [k \in Key |-> <<>>]
      /\ \A p \in Proc : req'[p] = req[p] \/ req'[p] = Idle
  BY DEF Restart
<1>2. \A p \in Proc : SameGuess(p)
  BY <1>1 DEF SameGuess, Idle, Guessing, Named
<1>3. Doors' /\ now \in Nat
  BY <1>1, <1>2, DoorsStay DEF GuessInv
<1>4. DOMAIN rate' = {} /\ DOMAIN streak' = {} /\ \A k \in Key : tries'[k] = <<>>
  BY <1>1
<1>5. /\ \A k \in Key : History(tries'[k], now) /\ Over(tries'[k], now)
      /\ \A k \in Key, d \in {"admin", "webdav"} : Spaced(d, tries'[k])
      /\ \A k \in Key : Past(tries'[k], now)
  BY <1>3, <1>4, NoFailures DEF Past
<1>6. Watched(rate', tries', now, Pends')
  BY <1>4, <1>5 DEF Watched
<1>7. DavWatched(streak', tries', now, Pends')
  <2>1. \A ip \in IP : Past(tries'[<<"ip", ip>>], now)
    BY <1>5, KeysAreKeys
  <2> QED BY <1>4, <1>5, <2>1 DEF DavWatched
<1>8. tries' \in [Key -> Seq(Nat)]
  BY <1>1
<1> QED BY <1>1, <1>3, <1>6, <1>7, <1>8 DEF GuessInv

LEMMA BeginDavGuess ==
  ASSUME ReqTypes, GuessInv, NEW p \in Proc, BeginDav(p) PROVE GuessInv'
<1>1. PICK ip \in IP : /\ ~(ip \in DOMAIN streak /\ now < streak[ip].until)
                       /\ Goto(p, [Idle EXCEPT !.at = "davCheck", !.ip = ip])
  BY DEF BeginDav
<1>2. door = "webdav" /\ req[p].at = "idle" /\ UNCHANGED <<door, now, rate, streak, tries>>
  BY DEF BeginDav, At, limits
<1>3. /\ req'[p] = [Idle EXCEPT !.at = "davCheck", !.ip = ip]
      /\ \A q \in Proc \ {p} : req'[q] = req[q]
  BY <1>1, OneMoves
<1>4. req'[p].at = "davCheck" /\ req'[p].ip = ip
  BY <1>3 DEF Idle
<1>5. Doors'
  BY <1>2, <1>3, <1>4 DEF GuessInv, Doors, Guessing, Named
<1>6. \A k \in Key : (p \in Under(k)' => k = <<"ip", ip>>)
  BY <1>4 DEF Under, Guessing, Named
<1>7. /\ Pends \in [Key -> Nat] /\ Pends' \in [Key -> Nat]
      /\ \A k \in Key : k # <<"ip", ip>> => Pends'[k] <= Pends[k]
  BY <1>3, <1>6, PendsType, PendsOfOne
<1>8. now \in Nat /\ now <= now /\ DavWatched(streak, tries, now, Pends)
  BY <1>2 DEF GuessInv
<1>9. ASSUME NEW jp \in IP
      PROVE  jp \in DOMAIN streak => DavCounts(tries[<<"ip", jp>>], streak[jp], now, Pends'[<<"ip", jp>>])
  <2> SUFFICES ASSUME jp \in DOMAIN streak
               PROVE  DavCounts(tries[<<"ip", jp>>], streak[jp], now, Pends'[<<"ip", jp>>])
    OBVIOUS
  <2>1. PICK k \in Key : k = <<"ip", jp>>
    BY KeysAreKeys
  <2>2. streak[jp] \in DavEntry /\ DavCounts(tries[k], streak[jp], now, Pends[k])
    BY <1>8, <2>1 DEF DavWatched
  <2>3. History(tries[k], now)
    BY <1>8 DEF DavWatched
  <2>4. Pends'[k] <= Pends[k] \/ streak[jp].until <= now
    <3>1. CASE k = <<"ip", ip>>
      <4>1. jp = ip /\ streak[jp].until \in Int
        BY <2>1, <2>2, <3>1 DEF DavEntry
      <4> QED BY <1>1, <1>8, <4>1
    <3> QED BY <1>7, <3>1
  <2>5. Pends[k] \in Nat /\ Pends'[k] \in Nat
    BY <1>7
  <2>6. DavCounts(tries[k], streak[jp], now, Pends'[k])
    BY <1>8, <2>2, <2>3, <2>4, <2>5, DavLater
  <2> QED BY <2>1, <2>6
<1>10. DavWatched(streak, tries, now, Pends')
  BY <1>8, <1>9 DEF DavWatched
<1> QED BY <1>2, <1>5, <1>8, <1>10 DEF GuessInv

\* The entries that tell nothing any more.
LEMMA Tells ==
  ASSUME NEW t \in Nat, NEW s, NEW e \in DavEntry, NEW n, History(s, t), DavCounts(s, e, t, n),
         t - e.last > Window
  PROVE  Past(s, t)
<1>1. \A i \in 1..Len(s) : s[i] \in Nat /\ s[i] <= e.last
  BY DEF History, DavCounts
<1>2. e.last \in Nat
  BY DEF DavEntry
<1> QED BY <1>1, <1>2, NumbersOfLimits DEF Past

LEMMA FailDavGuess ==
  ASSUME ReqTypes, GuessInv, NEW p \in Proc, FailDav(p) PROVE GuessInv'
<1> DEFINE ip  == req[p].ip
           i   == <<"ip", ip>>
           old == IF Cardinality(DOMAIN streak) < MaxEntries THEN {}
                  ELSE {j \in DOMAIN streak : now > streak[j].until /\ now - streak[j].last > Window}
           r   == Drop(streak, old)
           was == IF ip \in DOMAIN r THEN r[ip] ELSE [fails |-> 0, until |-> Never, last |-> now]
           n   == (IF now - was.last > Window THEN 0 ELSE was.fails) + 1
           e   == [fails |-> IF n >= MaxFails THEN 0 ELSE n, last |-> now,
                   until |-> IF n >= MaxFails THEN now + Window ELSE was.until]
<1>1. req[p].at = "davCheck" /\ UNCHANGED <<door, now, rate>> /\ ip \in IP /\ door = "webdav"
  BY DEF FailDav, At, GuessInv, Doors, Guessing
<1>2. streak' = Put(r, ip, e) /\ tries' = [tries EXCEPT ![i] = Append(@, now)]
  BY DEF FailDav
<1>3. req'[p] = Idle /\ \A q \in Proc \ {p} : req'[q] = req[q]
  BY OneMoves DEF FailDav
<1>4. Idle.at = "idle"
  BY DEF Idle
<1>5. i \in Key /\ now \in Nat /\ tries \in [Key -> Seq(Nat)] /\ DavWatched(streak, tries, now, Pends)
  BY <1>1, KeysAreKeys DEF GuessInv
<1>6. \A k \in Key : (p \in Under(k) <=> k = i) /\ p \notin Under(k)'
  BY <1>1, <1>3, <1>4 DEF Under, Guessing, Named
<1>7. /\ Pends \in [Key -> Nat] /\ Pends' \in [Key -> Nat] /\ Pends[i] <= P
      /\ Pends[i] >= 1 /\ Pends'[i] = Pends[i] - 1
      /\ \A k \in Key : k # i => Pends'[k] = Pends[k]
  BY <1>3, <1>5, <1>6, PendsType, PendsOfOne
<1>8. Doors'
  BY <1>1, <1>3, <1>4 DEF GuessInv, Doors, Guessing, Named
<1>9. /\ old \subseteq DOMAIN streak
      /\ \A j \in old : now - streak[j].last > Window
      /\ DOMAIN r = DOMAIN streak \ old /\ \A j \in DOMAIN r : r[j] = streak[j]
  BY DEF Drop
<1>10. DOMAIN streak \subseteq IP /\ \A j \in DOMAIN streak : streak[j] \in DavEntry
  BY <1>5 DEF DavWatched
<1> HIDE DEF old, r
<1>11. /\ was \in DavEntry /\ was.fails <= MaxFails - 1
       /\ Past(tries[i], now) \/ DavCounts(tries[i], was, now, Pends[i])
  <2>1. CASE ip \in DOMAIN r
    <3>1. ip \in DOMAIN streak /\ was = streak[ip]
      BY <1>9, <2>1
    <3>2. DavCounts(tries[i], was, now, Pends[i])
      BY <1>1, <1>5, <3>1 DEF DavWatched
    <3> HIDE DEF was
    <3> QED BY <1>10, <3>1, <3>2 DEF DavCounts
  <2>2. CASE ip \notin DOMAIN r
    <3>1. was = [fails |-> 0, until |-> Never, last |-> now]
      BY <2>2
    <3>2. was \in DavEntry /\ was.fails = 0
      BY <1>5, <3>1 DEF DavEntry, Never
    <3>3. Past(tries[i], now)
      <4>1. CASE ip \notin DOMAIN streak
        BY <1>1, <1>5, <4>1 DEF DavWatched
      <4>2. CASE ip \in DOMAIN streak
        <5>1. /\ now - streak[ip].last > Window /\ streak[ip] \in DavEntry
              /\ DavCounts(tries[i], streak[ip], now, Pends[i]) /\ History(tries[i], now)
          BY <1>1, <1>5, <1>9, <1>10, <2>2, <4>2 DEF DavWatched
        <5> QED BY <1>5, <5>1, Tells
      <4> QED BY <4>1, <4>2
    <3> HIDE DEF was
    <3> QED BY <3>2, <3>3, NumbersOfLimits
  <2> QED BY <2>1, <2>2
<1>12. /\ e \in DavEntry /\ e.fails = (IF n >= MaxFails THEN 0 ELSE n) /\ e.last = now
       /\ e.until = (IF n >= MaxFails THEN now + Window ELSE was.until)
  <2> HIDE DEF was
  <2>1. was.fails \in Nat /\ was.until \in Int
    BY <1>11 DEF DavEntry
  <2>2. n \in Nat
    BY <2>1
  <2> HIDE DEF n
  <2> QED BY <1>5, <2>1, <2>2, NumbersOfLimits DEF DavEntry
<1>13. History(tries[i], now) /\ Spaced("webdav", tries[i]) /\ Pends[i] \in Nat
  BY <1>5, <1>7 DEF DavWatched
<1>14. n = (IF now - was.last > Window THEN 0 ELSE was.fails) + 1
  OBVIOUS
<1> HIDE DEF was, n, e, i
<1>15. /\ DavCounts(Append(tries[i], now), e, now, Pends[i] - 1)
       /\ History(Append(tries[i], now), now) /\ Spaced("webdav", Append(tries[i], now))
  BY <1>5, <1>7, <1>11, <1>12, <1>13, <1>14, DavFailure
<1>16. tries'[i] = Append(tries[i], now) /\ \A k \in Key : k # i => tries'[k] = tries[k]
  BY <1>2, <1>5
<1>17. \A k \in Key : History(tries'[k], now) /\ Spaced("webdav", tries'[k])
  BY <1>5, <1>15, <1>16 DEF DavWatched
<1>18. /\ DOMAIN streak' = DOMAIN r \cup {ip} /\ streak'[ip] = e
       /\ \A j \in DOMAIN r : j # ip => streak'[j] = streak[j]
  BY <1>2, <1>9 DEF Put
<1>19. ASSUME NEW jp \in IP
       PROVE  /\ jp \in DOMAIN streak' => /\ streak'[jp] \in DavEntry
                                          /\ DavCounts(tries'[<<"ip", jp>>], streak'[jp], now, Pends'[<<"ip", jp>>])
              /\ jp \notin DOMAIN streak' => Past(tries'[<<"ip", jp>>], now)
  <2>1. CASE jp = ip
    BY <1>7, <1>12, <1>15, <1>16, <1>18, <2>1 DEF i
  <2>2. CASE jp # ip
    <3>1. PICK k \in Key : k = <<"ip", jp>>
      BY KeysAreKeys
    <3>2. k # i
      BY <2>2, <3>1 DEF i
    <3>3. tries'[k] = tries[k] /\ Pends'[k] = Pends[k] /\ History(tries[k], now)
      BY <1>5, <1>7, <1>16, <3>2 DEF DavWatched
    <3>4. CASE jp \in DOMAIN streak'
      <4>1. jp \in DOMAIN streak /\ streak'[jp] = streak[jp]
        BY <1>9, <1>18, <2>2, <3>4
      <4>2. DavCounts(tries[k], streak[jp], now, Pends[k])
        BY <1>5, <3>1, <4>1 DEF DavWatched
      <4> QED BY <1>10, <3>1, <3>3, <3>4, <4>1, <4>2
    <3>5. CASE jp \notin DOMAIN streak'
      <4>1. Past(tries[k], now)
        <5>1. CASE jp \notin DOMAIN streak
          BY <1>5, <3>1, <5>1 DEF DavWatched
        <5>2. CASE jp \in DOMAIN streak
          <6>1. /\ now - streak[jp].last > Window /\ streak[jp] \in DavEntry
                /\ DavCounts(tries[k], streak[jp], now, Pends[k])
            BY <1>5, <1>9, <1>10, <1>18, <3>1, <3>5, <5>2 DEF DavWatched
          <6> QED BY <1>5, <3>3, <6>1, Tells
        <5> QED BY <5>1, <5>2
      <4> QED BY <3>1, <3>3, <3>5, <4>1
    <3> QED BY <3>4, <3>5
  <2> QED BY <2>1, <2>2
<1>20. DOMAIN streak' \subseteq IP
  BY <1>1, <1>9, <1>10, <1>18
<1>21. DavWatched(streak', tries', now, Pends')
  BY <1>17, <1>19, <1>20 DEF DavWatched
<1>22. tries' \in [Key -> Seq(Nat)]
  BY <1>2, <1>5
<1> QED BY <1>1, <1>5, <1>8, <1>21, <1>22 DEF GuessInv

LEMMA PassDavGuess ==
  ASSUME ReqTypes, GuessInv, NEW p \in Proc, PassDav(p) PROVE GuessInv'
<1> DEFINE ip == req[p].ip
           i  == <<"ip", ip>>
<1>1. /\ req[p].at = "davCheck" /\ UNCHANGED <<door, now, rate>> /\ ip \in IP /\ door = "webdav"
      /\ streak' = Drop(streak, {ip}) /\ tries' = [tries EXCEPT ![i] = <<>>]
  BY DEF PassDav, At, GuessInv, Doors, Guessing
<1>2. req'[p] = Idle /\ \A q \in Proc \ {p} : req'[q] = req[q]
  BY OneMoves DEF PassDav
<1>3. \A q \in Proc : SameGuess(q)
  BY <1>2, SameIfUnmoved DEF SameGuess, Idle, Guessing, Named
<1>4. Doors'
  BY <1>1, <1>3, DoorsStay DEF GuessInv
<1>5. Pends \in [Key -> Nat] /\ Pends' \in [Key -> Nat] /\ \A k \in Key : Pends'[k] <= Pends[k]
  BY <1>3, PendsType, PendsFall
<1>6. /\ i \in Key /\ now \in Nat /\ now <= now /\ tries \in [Key -> Seq(Nat)]
      /\ DavWatched(streak, tries, now, Pends)
  BY <1>1, KeysAreKeys DEF GuessInv
<1>7. tries'[i] = <<>> /\ \A k \in Key : k # i => tries'[k] = tries[k]
  BY <1>1, <1>6
<1>8. History(<<>>, now) /\ Spaced("webdav", <<>>) /\ Past(<<>>, now)
  <2>1. Past(<<>>, now)
    BY DEF Past
  <2> QED BY <1>6, <2>1, NoFailures
<1>9. DOMAIN streak' = DOMAIN streak \ {ip} /\ \A j \in DOMAIN streak' : streak'[j] = streak[j]
  BY <1>1 DEF Drop
<1>10. ASSUME NEW jp \in IP
       PROVE  /\ jp \in DOMAIN streak' => DavCounts(tries'[<<"ip", jp>>], streak'[jp], now, Pends'[<<"ip", jp>>])
              /\ jp \notin DOMAIN streak' => Past(tries'[<<"ip", jp>>], now)
  <2>1. CASE jp = ip
    BY <1>7, <1>8, <1>9, <2>1
  <2>2. CASE jp # ip
    <3>1. PICK k \in Key : k = <<"ip", jp>>
      BY KeysAreKeys
    <3>2. k # i /\ (jp \in DOMAIN streak' <=> jp \in DOMAIN streak)
      BY <1>9, <2>2, <3>1
    <3> HIDE DEF i, ip
    <3>3. /\ tries'[k] = tries[k] /\ History(tries[k], now)
          /\ jp \in DOMAIN streak => streak[jp] \in DavEntry /\ DavCounts(tries[k], streak[jp], now, Pends[k])
          /\ jp \notin DOMAIN streak => Past(tries[k], now)
      BY <1>6, <1>7, <3>1, <3>2 DEF DavWatched
    <3>4. jp \in DOMAIN streak => DavCounts(tries[k], streak[jp], now, Pends'[k])
      BY <1>5, <1>6, <3>3, DavLater
    <3> QED BY <1>9, <3>1, <3>2, <3>3, <3>4
  <2> QED BY <2>1, <2>2
<1>11. /\ \A k \in Key : History(tries'[k], now) /\ Spaced("webdav", tries'[k])
       /\ DOMAIN streak' \subseteq IP /\ \A j \in DOMAIN streak' : streak'[j] \in DavEntry
  BY <1>6, <1>7, <1>8, <1>9 DEF DavWatched
<1>12. DavWatched(streak', tries', now, Pends')
  BY <1>10, <1>11 DEF DavWatched
<1>13. tries' \in [Key -> Seq(Nat)]
  BY <1>1, <1>6
<1> QED BY <1>1, <1>4, <1>6, <1>12, <1>13 DEF GuessInv

\* The steps of requests that guess nothing, or have guessed.
LEMMA ElsewhereGuess ==
  ASSUME ReqTypes, GuessInv, NEW p \in Proc,
         LoadAdmin(p) \/ CreateSession(p) \/ Manage(p)
  PROVE  GuessInv'
<1>0. UNCHANGED <<door, now, limits>>
  BY DEF LoadAdmin, CreateSession, Manage, BeginCreate, BeginPassword, BeginDelete, Begin, Find,
         Insert, Count, Delete, Update, Change, RefuseChange, Revoke
<1>1. req \in [Proc -> Requests] /\ req[p] \in Requests
  BY DEF ReqTypes
<1>2. Idle.at = "idle"
  BY DEF Idle
<1>3. CASE LoadAdmin(p)
  <2> DEFINE r == [req[p] EXCEPT !.at = "compare", !.secret = Secret(req[p].user)]
  <2>1. req[p].at = "load" /\ req'[p] = r /\ \A q \in Proc \ {p} : req'[q] = req[q]
    BY <1>3, OneMoves DEF LoadAdmin, At
  <2>2. r.at = "compare" /\ r.ip = req[p].ip /\ r.user = req[p].user
    BY <1>1 DEF Requests
  <2> HIDE DEF r
  <2>3. SameGuess(p)
    BY <2>1, <2>2 DEF SameGuess, Guessing, Named
  <2>4. \A q \in Proc : SameGuess(q)
    BY <2>1, <2>3, SameIfUnmoved
  <2> QED BY <1>0, <2>4, Unrecorded
<1>4. ASSUME NEW r, Goto(p, r), r.at \notin Guessing PROVE GuessInv'
  <2>1. req'[p] = r /\ \A q \in Proc \ {p} : req'[q] = req[q]
    BY <1>4, OneMoves
  <2>2. SameGuess(p)
    BY <1>4, <2>1 DEF SameGuess, Guessing, Named
  <2>3. \A q \in Proc : SameGuess(q)
    BY <2>1, <2>2, SameIfUnmoved
  <2> QED BY <1>0, <2>3, Unrecorded
<1>5. ASSUME NEW at \in {"findNew", "findOld", "findGone"}, Begin(p, at) PROVE GuessInv'
  <2>1. PICK u, by : Goto(p, [Idle EXCEPT !.at = at, !.user = u, !.by = by, !.secret = changes'])
    BY <1>5 DEF Begin
  <2>2. [Idle EXCEPT !.at = at, !.user = u, !.by = by, !.secret = changes'].at \notin Guessing
    BY DEF Idle, Guessing
  <2> QED BY <2>1, <2>2, <1>4
<1>6. CASE Find(p)
  <2> DEFINE r == CASE req[p].at = "findNew" /\ ~(req[p].user \in DOMAIN admins) -> [req[p] EXCEPT !.at = "insert"]
                    [] req[p].at = "findOld" /\ req[p].user \in DOMAIN admins -> [req[p] EXCEPT !.at = "update"]
                    [] req[p].at = "findGone" /\ req[p].user \in DOMAIN admins /\ req[p].user # req[p].by
                         -> [req[p] EXCEPT !.at = "count"]
                    [] OTHER -> Idle
  <2>1. r \in {Idle} \cup {[req[p] EXCEPT !.at = at] : at \in {"insert", "update", "count"}} /\ Goto(p, r)
    BY <1>6 DEF Find
  <2>2. r.at \notin Guessing
    BY <2>1, <1>1, <1>2 DEF Requests, Guessing
  <2> HIDE DEF r
  <2> QED BY <2>1, <2>2, <1>4
<1>7. CASE Count(p)
  <2> DEFINE r == IF Cardinality(DOMAIN admins) <= 1 THEN Idle ELSE [req[p] EXCEPT !.at = "delete"]
  <2>1. Goto(p, r)
    BY <1>7 DEF Count
  <2>2. r.at \notin Guessing
    BY <1>1, <1>2 DEF Requests, Guessing
  <2> HIDE DEF r
  <2> QED BY <2>1, <2>2, <1>4
<1>8. ASSUME NEW new, Change(p, new), req[p].at \in {"delete", "update"} PROVE GuessInv'
  <2> DEFINE o == Overtaken(req[p].user)
  <2>1. \A q \in Proc : /\ o[q].at = req[q].at /\ o[q].ip = req[q].ip /\ o[q].user = req[q].user
    BY <1>1 DEF Overtaken, Requests
  <2>2. PICK r : r.at \in {"idle", "revoke"} /\ req' = [o EXCEPT ![p] = r]
    <3>1. [req[p] EXCEPT !.at = "revoke"].at = "revoke"
      BY <1>1 DEF Requests
    <3>2. \/ req' = [o EXCEPT ![p] = Idle]
          \/ req' = [o EXCEPT ![p] = [req[p] EXCEPT !.at = "revoke"]]
      BY <1>8 DEF Change
    <3> DEFINE w == [req[p] EXCEPT !.at = "revoke"]
    <3>3. /\ Idle.at \in {"idle", "revoke"} /\ w.at \in {"idle", "revoke"}
          /\ req' = [o EXCEPT ![p] = Idle] \/ req' = [o EXCEPT ![p] = w]
      BY <1>2, <3>1, <3>2
    <3> HIDE DEF o, w
    <3> QED BY <3>3
  <2>3. DOMAIN o = Proc
    BY DEF Overtaken
  <2>4. \A q \in Proc : req'[q] = IF q = p THEN r ELSE o[q]
    BY <2>2, <2>3
  <2> HIDE DEF o
  <2>5. \A q \in Proc : SameGuess(q)
    BY <2>1, <2>2, <2>4 DEF SameGuess, Guessing, Named
  <2> QED BY <1>0, <2>5, Unrecorded
<1>9. CASE CreateSession(p) \/ Insert(p) \/ RefuseChange(p) \/ Revoke(p)
  <2>1. Goto(p, Idle)
    BY <1>9 DEF CreateSession, Insert, RefuseChange, Revoke
  <2>2. Idle.at \notin Guessing
    BY <1>2 DEF Guessing
  <2> QED BY <2>1, <2>2, <1>4
<1>10. CASE Delete(p) \/ Update(p)
  BY <1>8, <1>10 DEF Delete, Update, At
<1> QED BY <1>3, <1>5, <1>6, <1>7, <1>9, <1>10 DEF Manage, BeginCreate, BeginPassword, BeginDelete

LEMMA GuessInvInit == Init => GuessInv
<1> SUFFICES ASSUME Init PROVE GuessInv
  OBVIOUS
<1>1. /\ door \in {"admin", "webdav"} /\ now \in Nat /\ rate = <<>> /\ streak = <<>>
      /\ tries = [k \in Key |-> <<>>] /\ \A p \in Proc : req[p] = Idle
  BY DEF Init
<1>2. Doors
  BY <1>1 DEF Doors, Idle, Guessing, Named
<1>3. DOMAIN rate = {} /\ DOMAIN streak = {} /\ \A k \in Key : tries[k] = <<>>
  BY <1>1
<1>4. /\ \A k \in Key : History(tries[k], now) /\ Over(tries[k], now) /\ Past(tries[k], now)
      /\ \A k \in Key, d \in {"admin", "webdav"} : Spaced(d, tries[k])
  BY <1>1, <1>3, NoFailures DEF Past
<1>5. Watched(rate, tries, now, Pends)
  BY <1>3, <1>4 DEF Watched
<1>6. DavWatched(streak, tries, now, Pends)
  <2>1. \A ip \in IP : Past(tries[<<"ip", ip>>], now)
    BY <1>4, KeysAreKeys
  <2> QED BY <1>3, <1>4, <2>1 DEF DavWatched
<1>7. tries \in [Key -> Seq(Nat)]
  BY <1>1
<1> QED BY <1>1, <1>2, <1>5, <1>6, <1>7 DEF GuessInv

LEMMA GuessInvNext == LoginInv /\ GuessInv /\ [Next]_loginVars => GuessInv'
<1> SUFFICES ASSUME LoginInv, GuessInv, [Next]_loginVars PROVE GuessInv'
  OBVIOUS
<1>0. ReqTypes
  BY DEF LoginInv
<1>1. CASE Tick \/ Logout \/ UNCHANGED loginVars
  <2>1. UNCHANGED <<door, limits, req>> /\ now' \in {now, now + 1}
    BY <1>1 DEF Tick, Logout, loginVars
  <2>2. \A q \in Proc : SameGuess(q)
    BY <2>1 DEF SameGuess
  <2> QED BY <2>1, <2>2, Unrecorded
<1>2. CASE Restart
  BY <1>0, <1>2, RestartGuess
<1>3. CASE Cleanup
  <2>1. /\ UNCHANGED <<door, now, streak, tries, req>>
        /\ rate' = Drop(rate, Lapsed(rate, DOMAIN rate))
    BY <1>3 DEF Cleanup
  <2>2. \A q \in Proc : SameGuess(q)
    BY <2>1 DEF SameGuess
  <2> QED BY <2>1, <2>2, Pruned
<1>4. ASSUME NEW p \in Proc, Login(p) \/ Manage(p) \/ Dav(p) PROVE GuessInv'
  BY <1>0, <1>4, BeginLoginGuess, CheckNameGuess, RefuseGuess, AcceptGuess, ElsewhereGuess,
     BeginDavGuess, FailDavGuess, PassDavGuess DEF Login, Dav
<1> QED BY <1>1, <1>2, <1>3, <1>4 DEF Next

LEMMA GuessInvBounds == GuessInv => GuessesAreBounded
<1> SUFFICES ASSUME GuessInv, NEW k \in Key, NEW i \in DOMAIN tries[k], i + Most \in DOMAIN tries[k]
             PROVE  IF door = "admin" THEN tries[k][i + Most] > tries[k][i] + Window
                                      ELSE tries[k][i + Most] >= tries[k][i] + Window
  BY DEF GuessesAreBounded
<1>1. door \in {"admin", "webdav"} /\ tries[k] \in Seq(Nat)
  BY DEF GuessInv, Doors
<1>2. i \in 1..Len(tries[k]) /\ i + Most <= Len(tries[k])
  BY <1>1
<1>3. Spaced(door, tries[k])
  BY <1>1 DEF GuessInv, Watched, DavWatched
<1>4. Most = Bound(door)
  BY <1>1, NumbersOfLimits DEF Most, Bound, P, Slack
<1> QED BY <1>1, <1>2, <1>3, <1>4 DEF Spaced

\* The lock-out bounds guessing, whatever requests overlap (admin/admin.go:229,
\* webdav/auth.go:92): however many addresses, names and requests there are, no key that is
\* not let in meanwhile fails, in any Window, more often than a run that just misses the lock
\* and the requests that were under way when it fell.
THEOREM GuessesStayBounded == LoginSpec => []GuessesAreBounded
<1>1. Init => LoginInv /\ GuessInv
  BY LoginInvInit, GuessInvInit
<1>2. LoginInv /\ GuessInv /\ [Next]_loginVars => (LoginInv /\ GuessInv)'
  BY LoginInvNext, GuessInvNext
<1> QED BY <1>1, <1>2, GuessInvBounds, PTL DEF LoginSpec
=============================================================================
