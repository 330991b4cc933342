-------------------------------- MODULE Logins --------------------------------
(***************************************************************************)
(* Who is let in with a password: administrators and their sessions          *)
(* (admin/admin.go, admin/admins.go, db/admin.go, and the commands of         *)
(* cli/cli.go, which change the same table from a process of their own), the  *)
(* table of failed logins that locks addresses and names out, and the one of   *)
(* the WebDAV server (webdav/auth.go).                                        *)
(*                                                                          *)
(* A password is a number, a new one for every change.  Time is counted in    *)
(* ticks; a look at the clock and what depends on it are one step.             *)
(***************************************************************************)
EXTENDS Integers, Sequences, FiniteSets

CONSTANTS
  Proc,       \* concurrent requests
  IP,         \* addresses of clients
  User,       \* names, of administrators or of nobody
  Founders,   \* the administrators a behaviour starts with
  MaxFails,   \* failures that lock (maxLoginAttempts, authMaxFailures: 5)
  Window,     \* how long they count, and how long the lock holds (15 minutes)
  MaxEntries, \* entries the table of failed logins has (maxLoginEntries: 10000)
  TTL,        \* a session's lifetime
  MaxTime,    \* bound: ticks
  Budgets     \* bounds: how many failures, sessions and requests of administrators there are

ASSUME NameAssumption  == Founders \subseteq User /\ Founders # {}
ASSUME ProcAssumption  == IsFiniteSet(Proc) /\ Proc # {}
ASSUME LimitAssumption == MaxFails \in Nat \ {0} /\ Window \in Nat /\ TTL \in Nat
ASSUME TableAssumption == MaxEntries \in Nat \ {0}
ASSUME BoundAssumption == /\ MaxTime \in Nat
                          /\ Budgets \subseteq [fails : Nat, sessions : Nat, changes : Nat]

VARIABLES
  door,     \* which of the two servers the requests go to; they share nothing here
  now,      \* the clock
  rate,     \* failed logins: [count, start, locked, seen] for the keys that have an entry
  streak,   \* failures on the WebDAV server: [fails, until, last]
  admins,   \* the administrators' passwords
  sessions, \* [user, till], and what is known of them: secret, late
  req,      \* req[p]: the request of p
  tries,    \* tries[k]: when guesses for key k failed, since it was last let in or forgotten
  left,     \* what is left of the behaviour's budget
  changes   \* requests of administrators so far

limits    == <<rate, streak, tries>>
accounts  == <<admins, sessions>>
loginVars == <<door, now, limits, accounts, req, left, changes>>

Spend(b) == left[b] > 0 /\ left' = [left EXCEPT ![b] = @ - 1]

-----------------------------------------------------------------------------
Never   == -1
Nobody  == "nobody"
NoAdmin == -1

\* loginKeys: the address and, once it is known, the name.
Key == ({"ip"} \X IP) \cup ({"user"} \X User)

Keys(ip, u) == {<<"ip", ip>>, <<"user", u>>}

Secret(u) == IF u \in DOMAIN admins THEN admins[u] ELSE NoAdmin

Put(f, k, v)  == [j \in DOMAIN f \cup {k} |-> IF j = k THEN v ELSE f[j]]
Drop(f, ks)   == [j \in DOMAIN f \ ks |-> f[j]]

\* at: the next step; by: who asks; secret: the password that was read, or the new one;
\* late: the account was changed after its password had been read for this login.
Idle == [at |-> "idle", ip |-> Nobody, user |-> Nobody, by |-> Nobody, secret |-> NoAdmin,
         late |-> FALSE]

Goto(p, r) == req' = [req EXCEPT ![p] = r]

At(p, label) == req[p].at = label

-----------------------------------------------------------------------------
(* The table of failed logins. *)

\* Faulty variant: a lock is forgotten with the failures that led to it.
Expired_ByWindow(a) == now > a.start + Window

\* attemptExpired.
Expired(a) == now > (IF a.locked # Never THEN a.locked ELSE a.start) + Window

Lapsed(r, ks) == {k \in ks \cap DOMAIN r : Expired(r[k])}

\* checkLoginRate.
Locked(ks) == \E k \in (ks \cap DOMAIN rate) \ Lapsed(rate, ks) : rate[k].locked # Never

\* evictOldestLocked: an entry nobody has touched for longest.
Oldest(r) == {k \in DOMAIN r : \A j \in DOMAIN r : r[k].seen <= r[j].seen}

\* recordLoginFailure for one key: the tables it may leave.
Recorded(old, k) ==
  LET r      == Drop(old, Lapsed(old, {k}))
      bases  == IF k \in DOMAIN r \/ Cardinality(DOMAIN r) < MaxEntries THEN {r}
                ELSE {Drop(r, {o}) : o \in Oldest(r)}
      was(b) == IF k \in DOMAIN b THEN b[k] ELSE [count |-> 0, start |-> now, locked |-> Never, seen |-> now]
      is(a)  == [a EXCEPT !.count = @ + 1, !.seen = now,
                          !.locked = IF a.count + 1 >= MaxFails THEN now ELSE @]
  IN {Put(b, k, is(was(b))) : b \in bases}

\* What is evicted is forgotten.
Noted(t, from, to, k) ==
  [j \in Key |-> LET old == IF j \in DOMAIN from \ DOMAIN to THEN <<>> ELSE t[j]
                IN IF j = k THEN Append(old, now) ELSE old]

\* A failure counts against the address first, then against the name.
RecordFailure(ip, u) ==
  LET i == <<"ip", ip>>
      n == <<"user", u>>
  IN \E r \in Recorded(rate, i) : \E s \in Recorded(r, n) :
       /\ rate' = s
       /\ tries' = Noted(Noted(tries, rate, r, i), r, s, n)

-----------------------------------------------------------------------------
(* Logging in to the admin API: handleLogin. *)

\* The address is asked about before the request is read.
BeginLogin(p) ==
  /\ door = "admin" /\ At(p, "idle")
  /\ \E ip \in IP :
       LET ks == {<<"ip", ip>>}
       IN /\ rate' = Drop(rate, Lapsed(rate, ks))
          /\ IF Locked(ks) THEN UNCHANGED req ELSE Goto(p, [Idle EXCEPT !.at = "read", !.ip = ip])
  /\ UNCHANGED <<door, now, streak, tries, accounts, left, changes>>

\* Then the address and the name.
CheckName(p) ==
  /\ At(p, "read")
  /\ \E u \in User :
       LET ks == Keys(req[p].ip, u)
       IN /\ rate' = Drop(rate, Lapsed(rate, ks))
          /\ Goto(p, IF Locked(ks) THEN Idle ELSE [req[p] EXCEPT !.at = "load", !.user = u])
  /\ UNCHANGED <<door, now, streak, tries, accounts, left, changes>>

LoadAdmin(p) ==
  /\ At(p, "load")
  /\ Goto(p, [req[p] EXCEPT !.at = "compare", !.secret = Secret(req[p].user)])
  /\ UNCHANGED <<door, now, limits, accounts, left, changes>>

\* The password is not that of the account, or there is no account.
Refuse(p) ==
  /\ At(p, "compare")
  /\ Spend("fails")
  /\ RecordFailure(req[p].ip, req[p].user)
  /\ Goto(p, Idle)
  /\ UNCHANGED <<door, now, streak, accounts, changes>>

\* It is: the failures of both keys are forgotten.
Accept(p) ==
  /\ At(p, "compare") /\ req[p].secret # NoAdmin
  /\ LET ks == Keys(req[p].ip, req[p].user)
     IN /\ rate' = Drop(rate, ks)
        /\ tries' = [k \in Key |-> IF k \in ks THEN <<>> ELSE tries[k]]
  /\ Goto(p, [req[p] EXCEPT !.at = "create"])
  /\ UNCHANGED <<door, now, streak, accounts, left, changes>>

CreateSession(p) ==
  LET r == req[p]
  IN /\ At(p, "create") /\ Spend("sessions")
     /\ sessions' = sessions \cup {[user |-> r.user, till |-> now + TTL,
                                    secret |-> r.secret, late |-> r.late]}
     /\ Goto(p, Idle)
     /\ UNCHANGED <<door, now, limits, admins, changes>>

-----------------------------------------------------------------------------
(* Administrators at work, through a session or from the command line. *)

\* validateToken; "cli" needs none.
Begin(p, at) ==
  /\ door = "admin" /\ At(p, "idle")
  /\ Spend("changes")
  /\ changes' = changes + 1
  /\ \E u \in User, by \in {s.user : s \in {s \in sessions : now <= s.till}} \cup {"cli"} :
       Goto(p, [Idle EXCEPT !.at = at, !.user = u, !.by = by, !.secret = changes'])
  /\ UNCHANGED <<door, now, limits, accounts>>

BeginCreate(p)   == Begin(p, "findNew")
BeginPassword(p) == Begin(p, "findOld")
BeginDelete(p)   == Begin(p, "findGone")

\* GetAdmin, and the name's own checks.
Find(p) ==
  LET r == req[p]
      there == r.user \in DOMAIN admins
  IN /\ r.at \in {"findNew", "findOld", "findGone"}
     /\ Goto(p, CASE r.at = "findNew" /\ ~there -> [r EXCEPT !.at = "insert"]
                  [] r.at = "findOld" /\ there -> [r EXCEPT !.at = "update"]
                  [] r.at = "findGone" /\ there /\ r.user # r.by -> [r EXCEPT !.at = "count"]
                  [] OTHER -> Idle)
     /\ UNCHANGED <<door, now, limits, accounts, left, changes>>

\* CreateAdmin: the name is unique.
Insert(p) ==
  LET u == req[p].user
  IN /\ At(p, "insert")
     /\ admins' = IF u \in DOMAIN admins THEN admins ELSE Put(admins, u, req[p].secret)
     /\ Goto(p, Idle)
     /\ UNCHANGED <<door, now, limits, sessions, left, changes>>

\* The last administrator stays.
Count(p) ==
  /\ At(p, "count")
  /\ Goto(p, IF Cardinality(DOMAIN admins) <= 1 THEN Idle ELSE [req[p] EXCEPT !.at = "delete"])
  /\ UNCHANGED <<door, now, limits, accounts, left, changes>>

\* Logins whose password has been read, and nobody has told.
Overtaken(u) ==
  [q \in Proc |-> IF req[q].user = u /\ req[q].at \in {"compare", "create"}
                    THEN [req[q] EXCEPT !.late = TRUE] ELSE req[q]]

\* The row is changed.  Through the API its sessions are next; a command knows of none.
Change(p, new) ==
  LET r == req[p]
  IN /\ admins' = new
     /\ IF r.by = "cli"
          THEN /\ req' = [Overtaken(r.user) EXCEPT ![p] = Idle]
               /\ sessions' = {[s EXCEPT !.late = @ \/ s.user = r.user] : s \in sessions}
          ELSE /\ req' = [Overtaken(r.user) EXCEPT ![p] = [r EXCEPT !.at = "revoke"]]
               /\ UNCHANGED sessions
     /\ UNCHANGED <<door, now, limits, left, changes>>

\* DeleteAdmin.
Delete(p) == At(p, "delete") /\ Change(p, Drop(admins, {req[p].user}))

\* UpdateAdminPassword: of no row, if there is none any more.
Update(p) ==
  LET u == req[p].user
  IN /\ At(p, "update")
     /\ Change(p, IF u \in DOMAIN admins THEN Put(admins, u, req[p].secret) ELSE admins)

\* The database refuses the change: nothing else happens.
RefuseChange(p) ==
  /\ req[p].at \in {"insert", "delete", "update"}
  /\ Goto(p, Idle)
  /\ UNCHANGED <<door, now, limits, accounts, left, changes>>

\* Faulty variant: the oldest session is taken for the only one.
Revoke_One(p) ==
  /\ At(p, "revoke")
  /\ LET mine == {s \in sessions : s.user = req[p].user}
     IN sessions' = sessions \ (IF mine = {} THEN {} ELSE {CHOOSE s \in mine : \A t \in mine : s.till <= t.till})
  /\ Goto(p, Idle)
  /\ UNCHANGED <<door, now, limits, admins, left, changes>>

\* revokeSessions.
Revoke(p) ==
  /\ At(p, "revoke")
  /\ sessions' = {s \in sessions : s.user # req[p].user}
  /\ Goto(p, Idle)
  /\ UNCHANGED <<door, now, limits, admins, left, changes>>

\* POST /admin/logout.
Logout ==
  /\ \E s \in sessions : now <= s.till /\ sessions' = sessions \ {s}
  /\ UNCHANGED <<door, now, limits, admins, req, left, changes>>

\* cleanupOnce, once an hour.
Cleanup ==
  /\ sessions' = {s \in sessions : now <= s.till}
  /\ rate' = Drop(rate, Lapsed(rate, DOMAIN rate))
  /\ UNCHANGED <<door, now, streak, tries, admins, req, left, changes>>

-----------------------------------------------------------------------------
(* The WebDAV server: basicAuth. *)

\* blocked.
BeginDav(p) ==
  /\ door = "webdav" /\ At(p, "idle")
  /\ \E ip \in IP :
       /\ ~(ip \in DOMAIN streak /\ now < streak[ip].until)
       /\ Goto(p, [Idle EXCEPT !.at = "davCheck", !.ip = ip])
  /\ UNCHANGED <<door, now, limits, accounts, left, changes>>

\* fail: entries that tell nothing any more go first, once there are many.
FailDav(p) ==
  LET ip  == req[p].ip
      old == IF Cardinality(DOMAIN streak) < MaxEntries THEN {}
             ELSE {i \in DOMAIN streak : now > streak[i].until /\ now - streak[i].last > Window}
      r   == Drop(streak, old)
      was == IF ip \in DOMAIN r THEN r[ip] ELSE [fails |-> 0, until |-> Never, last |-> now]
      n   == (IF now - was.last > Window THEN 0 ELSE was.fails) + 1
  IN /\ At(p, "davCheck") /\ Spend("fails")
     /\ streak' = Put(r, ip, [fails |-> IF n >= MaxFails THEN 0 ELSE n, last |-> now,
                              until |-> IF n >= MaxFails THEN now + Window ELSE was.until])
     /\ tries' = [tries EXCEPT ![<<"ip", ip>>] = Append(@, now)]
     /\ Goto(p, Idle)
     /\ UNCHANGED <<door, now, rate, accounts, changes>>

\* reset.
PassDav(p) ==
  LET ip == req[p].ip
  IN /\ At(p, "davCheck")
     /\ streak' = Drop(streak, {ip})
     /\ tries' = [tries EXCEPT ![<<"ip", ip>>] = <<>>]
     /\ Goto(p, Idle)
     /\ UNCHANGED <<door, now, rate, accounts, left, changes>>

-----------------------------------------------------------------------------
Tick ==
  /\ now < MaxTime
  /\ now' = now + 1
  /\ UNCHANGED <<door, limits, accounts, req, left, changes>>

\* The server starts anew: all this is kept in memory, but for the accounts.
Restart ==
  /\ req' = [p \in Proc |-> IF req[p].by = "cli" THEN req[p] ELSE Idle]
  /\ sessions' = {} /\ rate' = <<>> /\ streak' = <<>>
  /\ tries' = [k \in Key |-> <<>>]
  /\ UNCHANGED <<door, now, admins, left, changes>>

Init ==
  /\ door \in {"admin", "webdav"}
  /\ left \in Budgets
  /\ now = 0 /\ changes = 0
  /\ rate = <<>> /\ streak = <<>> /\ tries = [k \in Key |-> <<>>]
  /\ admins = [u \in Founders |-> 0]
  /\ sessions = {}
  /\ req = [p \in Proc |-> Idle]

Login(p) == BeginLogin(p) \/ CheckName(p) \/ LoadAdmin(p) \/ Refuse(p) \/ Accept(p) \/ CreateSession(p)

Manage(p) ==
  \/ BeginCreate(p) \/ BeginPassword(p) \/ BeginDelete(p) \/ Find(p) \/ Insert(p) \/ Count(p)
  \/ Delete(p) \/ Update(p) \/ RefuseChange(p) \/ Revoke(p)

Dav(p) == BeginDav(p) \/ FailDav(p) \/ PassDav(p)

Next == Tick \/ Restart \/ Logout \/ Cleanup \/ \E p \in Proc : Login(p) \/ Manage(p) \/ Dav(p)

LoginSpec == Init /\ [][Next]_loginVars

-----------------------------------------------------------------------------
\* The lock-out is about guesses (admin/admin.go:229, webdav/auth.go:92): however requests
\* overlap, a key that is not let in meanwhile and whose entry is not evicted has, in any
\* Window, no more failures than a run that just misses the lock and what was under way when
\* it fell.  On the admin API a run also ends by its age: of one that just missed the lock
\* all but the first failure may still be in the Window.
Most == Cardinality(Proc) + (MaxFails - 1)
        + (IF door = "admin" /\ MaxFails > 1 THEN MaxFails - 2 ELSE 0)

GuessesAreBounded ==
  \A k \in Key : \A i \in DOMAIN tries[k] :
    i + Most \in DOMAIN tries[k] =>
      IF door = "admin" THEN tries[k][i + Most] > tries[k][i] + Window
                        ELSE tries[k][i + Most] >= tries[k][i] + Window

\* "A deleted account must not keep working through an old token", nor a changed password
\* (admin/admins.go:137, admin/admins.go:186): a session is of the account's current
\* password, or just being revoked.  Left out is what the code cannot reach: a login whose
\* password was read before the change, and sessions of an account changed from the
\* command line.
SessionsAreCurrent ==
  \A s \in sessions :
    \/ s.late
    \/ s.secret = Secret(s.user)
    \/ \E p \in Proc : At(p, "revoke") /\ req[p].user = s.user
=============================================================================
