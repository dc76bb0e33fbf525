------------------------------ MODULE Accounts ------------------------------
(***************************************************************************)
(* Accounts and sessions (web/backend/auth.py, routers/auth.py, admin.py,  *)
(* api_keys.py, lock_screen.py).  A session is a signed token that carries *)
(* the version of its account; every request reads the row again and turns *)
(* a token of another version away.  Changing the password, switching the  *)
(* second factor and leaving everywhere raise the version.                 *)
(*                                                                         *)
(* A request reads the row when it is let in, hashes for a fifth of a      *)
(* second, and then writes the columns it has changed (that is what a      *)
(* flush of SQLAlchemy does): other requests come in between.  A token is  *)
(* made from the row as it is after the audit row is committed.            *)
(*                                                                         *)
(* Rate limits are in RateLimit, bans in IpBan.  An administrator changes  *)
(* one thing at a time; a new password differs from the old one.           *)
(***************************************************************************)
EXTENDS Integers, FiniteSets

CONSTANTS
    Name,       \* user names
    Fold,       \* the name in lower case
    Password, Secret,
    Request,    \* browsers, each with one request at a time
    Ops,        \* what they ask for
    Overlaps,   \* the requests that others may overtake; the rest run in one go
    Locked,     \* whether the database has advisory locks (PostgreSQL)
    MaxKeys,    \* MAX_KEYS_PER_USER
    MaxOps,     \* bound: requests that are made
    None

AllOps == {"register", "login", "change", "everywhere", "setup", "enable", "disable",
           "patch", "reset", "key", "unlock", "lock", "door"}

AccountsAssumption ==
    /\ Name \subseteq DOMAIN Fold /\ Ops \subseteq AllOps /\ Overlaps \subseteq Ops
    /\ Locked \in BOOLEAN /\ MaxKeys \in Nat /\ MaxOps \in Nat
    /\ None \notin Name \cup Password \cup Secret
    /\ None \notin [pw: Password, ver: Nat, active: BOOLEAN, admin: BOOLEAN,
                    totp: BOOLEAN, secret: Secret \cup {None}]

VARIABLES
    row,     \* the account of each name, or None
    tokens,  \* history: sessions given out, with the password and code they were earned by
    keys,    \* rows of api_keys, with the password they were earned by
    open,    \* allow_open_registration
    lock,    \* generation of the lock-screen password; 0: the lock screen is off
    cookie,  \* the unlock cookie of each browser: the generation it was given for, or 0
    unlocks, \* history: unlocks of each browser that no login has used
    confirmed, \* history: the secret whose code was shown when the second factor went on
    elected, \* history: accounts that were made administrator at registration
    req, ops

vars == <<row, tokens, keys, open, lock, cookie, unlocks, confirmed, elected, req, ops>>

Row == [pw: Password, ver: Nat, active: BOOLEAN, admin: BOOLEAN,
        totp: BOOLEAN, secret: Secret \cup {None}]
Token == [user: Name, ver: Nat, pw: Password, code: Secret \cup {None}]
Key == [user: Name, ver: Nat, pw: Password]
Changes == {"disable", "enable", "demote", "promote", "password"}
Idle == [pc |-> "idle", op |-> "login", user |-> None, me |-> None, pw |-> None,
         code |-> None, what |-> None]
Pc == {"idle", "count", "insert", "checked", "commit", "issue", "cookie"}

TypeOK ==
    /\ row \in [Name -> Row \cup {None}]
    /\ tokens \subseteq Token /\ keys \subseteq Key
    /\ open \in BOOLEAN /\ lock \in Nat
    /\ cookie \in [Request -> Nat] /\ unlocks \in [Request -> Nat]
    /\ confirmed \in [Name -> Secret \cup {None}] /\ elected \subseteq Name
    /\ req \in [Request ->
         [pc: Pc, op: AllOps, user: Name \cup {None}, me: Row \cup {None},
          pw: Password \cup {None}, code: Secret \cup {None},
          what: Changes \cup {"first", "later", None}]]
    /\ ops \in Nat

Init ==
    /\ row = [n \in Name |-> None] /\ tokens = {} /\ keys = {}
    /\ open \in BOOLEAN /\ lock = 0
    /\ cookie = [r \in Request |-> 0] /\ unlocks = [r \in Request |-> 0]
    /\ confirmed = [n \in Name |-> None] /\ elected = {}
    /\ req = [r \in Request |-> Idle] /\ ops = 0

-----------------------------------------------------------------------------
(* Who may ask, and how a request begins and ends.                         *)

Accounts == {n \in Name : row[n] # None}

\* get_current_user: the version of the token is that of the row.
Valid(t) == t.user \in Accounts /\ row[t.user].active /\ t.ver = row[t.user].ver
SignedIn(n) == \E t \in tokens : t.user = n /\ Valid(t)

\* get_api_caller
Works(k) == k.user \in Accounts /\ row[k.user].active /\ k.ver = row[k.user].ver

At(r, pc) == req[r].pc = pc
Alone(r) == \A q \in Request \ {r} : At(q, "idle") \/ req[q].op \in Overlaps
Begin(r, op) ==
    /\ op \in Ops /\ At(r, "idle") /\ Alone(r)
    /\ ops < MaxOps /\ ops' = ops + 1
Go(r, pc) == At(r, pc) /\ Alone(r) /\ UNCHANGED ops
Ask(r, pc, op, n, me, pw, code, what) ==
    req' = [req EXCEPT ![r] = [pc |-> pc, op |-> op, user |-> n, me |-> me,
                               pw |-> pw, code |-> code, what |-> what]]
Step(r, pc) == req' = [req EXCEPT ![r].pc = pc]
End(r) == req' = [req EXCEPT ![r] = Idle]

\* A flush writes the columns that differ from what the request has read.
Flush(n, me, new) ==
    row' = [row EXCEPT ![n] = [c \in DOMAIN new |-> IF new[c] # me[c] THEN new[c] ELSE @[c]]]

DoorUnchanged == UNCHANGED <<open, lock, cookie, unlocks>>
History == UNCHANGED <<confirmed, elected>>

\* request_unlocked: the lock screen is off, or the cookie is of its present password.
Unlocked(r) == lock = 0 \/ cookie[r] = lock

\* _issue: the token carries the version the row has now; the unlock cookie is taken back.
Issue(r, n, pw, code) ==
    /\ tokens' = tokens \cup {[user |-> n, ver |-> row[n].ver, pw |-> pw, code |-> code]}
    /\ cookie' = [cookie EXCEPT ![r] = 0]

-----------------------------------------------------------------------------
(* register: the gate and the name are looked at first; then, under the    *)
(* advisory lock where there is one, the accounts are counted.             *)

Register(r, n, pw) ==
    /\ Begin(r, "register") /\ Unlocked(r)
    /\ open \/ Accounts = {}
    /\ \A m \in Accounts : Fold[m] # Fold[n]
    /\ Ask(r, "count", "register", n, None, pw, None, None)
    /\ UNCHANGED <<row, tokens, keys>> /\ DoorUnchanged /\ History

Count(r) ==
    /\ Go(r, "count")
    /\ Locked => \A q \in Request : ~At(q, "insert")
    /\ IF Accounts # {} /\ ~open THEN End(r)
       ELSE req' = [req EXCEPT ![r] = [@ EXCEPT !.pc = "insert", !.what = IF Accounts = {} THEN "first" ELSE "later"]]
    /\ UNCHANGED <<row, tokens, keys>> /\ DoorUnchanged /\ History

\* The unique index on the name as it is written is what the insert can fail on.
Insert(r) ==
    LET n == req[r].user IN
    /\ Go(r, "insert")
    /\ IF row[n] # None
       THEN End(r) /\ UNCHANGED <<row, elected>>
       ELSE /\ row' = [row EXCEPT ![n] =
                 [pw |-> req[r].pw, ver |-> 1, active |-> TRUE, admin |-> req[r].what = "first",
                  totp |-> FALSE, secret |-> None]]
            /\ elected' = IF req[r].what = "first" THEN elected \cup {n} ELSE elected
            /\ Step(r, "issue")
    /\ UNCHANGED <<tokens, keys, confirmed>> /\ DoorUnchanged

-----------------------------------------------------------------------------
(* login: everything is judged by the row as it was read; the audit row is *)
(* committed, and only then the version is read.                           *)

Login(r, n, pw, code) ==
    /\ Begin(r, "login") /\ Unlocked(r)
    /\ n \in Accounts
    /\ Ask(r, "checked", "login", n, row[n], pw, code, None)
    /\ UNCHANGED <<row, tokens, keys>> /\ DoorUnchanged /\ History

PasswordIsRight(me, pw) == me.pw = pw
CodeIsRight(me, code) == me.totp => me.secret # None /\ code = me.secret

Judge(r) ==
    LET q == req[r] IN
    /\ Go(r, "checked")
    /\ IF PasswordIsRight(q.me, q.pw) /\ q.me.active /\ CodeIsRight(q.me, q.code)
       THEN Step(r, "issue") ELSE End(r)
    /\ UNCHANGED <<row, tokens, keys>> /\ DoorUnchanged /\ History

\* What a login shows is remembered with the token; whoever has just changed the
\* password or the second factor has shown what is in force after it.
GiveToken(r) ==
    LET q == req[r]  n == q.user IN
    /\ Go(r, "issue") /\ End(r)
    /\ Issue(r, n, q.pw, q.code)
    /\ unlocks' = [unlocks EXCEPT ![r] =
         IF q.op \in {"login", "register"} /\ @ > 0 THEN @ - 1 ELSE @]
    /\ UNCHANGED <<row, keys, open, lock>> /\ History

-----------------------------------------------------------------------------
(* What somebody who is signed in does with the own account.               *)

Enter(r, op, n, pw, code, what) ==
    /\ Begin(r, op) /\ SignedIn(n)
    /\ Ask(r, "commit", op, n, row[n], pw, code, what)
    /\ UNCHANGED <<row, tokens, keys>> /\ DoorUnchanged /\ History

\* change_password: the old password is asked for, and the new one is another.
ChangePassword(r, n, new) ==
    /\ SignedIn(n) => new # row[n].pw
    /\ Enter(r, "change", n, new, IF SignedIn(n) /\ row[n].totp THEN row[n].secret ELSE None, None)

CommitChange(r) ==
    LET q == req[r] IN
    /\ Go(r, "commit") /\ q.op = "change"
    /\ Flush(q.user, q.me, [q.me EXCEPT !.pw = q.pw, !.ver = @ + 1])
    /\ Step(r, "issue")
    /\ UNCHANGED <<tokens, keys>> /\ DoorUnchanged /\ History

LogoutAll(r, n) == Enter(r, "everywhere", n, None, None, None)

CommitLogoutAll(r) ==
    LET q == req[r] IN
    /\ Go(r, "commit") /\ q.op = "everywhere"
    /\ Flush(q.user, q.me, [q.me EXCEPT !.ver = @ + 1])
    /\ End(r)
    /\ UNCHANGED <<tokens, keys>> /\ DoorUnchanged /\ History

\* totp_setup: a fresh secret, that waits to be confirmed.
TotpSetup(r, n, s) ==
    /\ SignedIn(n) => ~row[n].totp /\ row[n].secret # s
    /\ Enter(r, "setup", n, None, s, None)
CommitSetup(r) ==
    LET q == req[r] IN
    /\ Go(r, "commit") /\ q.op = "setup"
    /\ Flush(q.user, q.me, [q.me EXCEPT !.secret = q.code])
    /\ End(r)
    /\ UNCHANGED <<tokens, keys>> /\ DoorUnchanged /\ History

\* totp_enable: a code of the secret is shown.
TotpEnable(r, n) ==
    /\ SignedIn(n) => ~row[n].totp /\ row[n].secret # None
    /\ Enter(r, "enable", n, IF SignedIn(n) THEN row[n].pw ELSE None,
             IF SignedIn(n) THEN row[n].secret ELSE None, None)
CommitEnableQuiet(r) == \* mutant: the sessions there are stay
    LET q == req[r] IN
    /\ Go(r, "commit") /\ q.op = "enable"
    /\ Flush(q.user, q.me, [q.me EXCEPT !.totp = TRUE])
    /\ confirmed' = [confirmed EXCEPT ![q.user] = q.code]
    /\ Step(r, "issue")
    /\ UNCHANGED <<tokens, keys, elected>> /\ DoorUnchanged

CommitEnable(r) ==
    LET q == req[r] IN
    /\ Go(r, "commit") /\ q.op = "enable"
    /\ Flush(q.user, q.me, [q.me EXCEPT !.totp = TRUE, !.ver = @ + 1])
    /\ confirmed' = [confirmed EXCEPT ![q.user] = q.code]
    /\ Step(r, "issue")
    /\ UNCHANGED <<tokens, keys, elected>> /\ DoorUnchanged

\* totp_disable: the password and a code are shown; nobody stays signed in.
TotpDisable(r, n) ==
    /\ SignedIn(n) => row[n].totp
    /\ Enter(r, "disable", n, None, None, None)
CommitDisable(r) ==
    LET q == req[r] IN
    /\ Go(r, "commit") /\ q.op = "disable"
    /\ Flush(q.user, q.me, [q.me EXCEPT !.totp = FALSE, !.secret = None, !.ver = @ + 1])
    /\ End(r)
    /\ UNCHANGED <<tokens, keys>> /\ DoorUnchanged /\ History

\* create_api_key: the password is asked for again; the key has the version that was read.
CreateKey(r, n) == Enter(r, "key", n, IF SignedIn(n) THEN row[n].pw ELSE None, None, None)

CommitKey(r) ==
    LET q == req[r] IN
    /\ Go(r, "commit") /\ q.op = "key"
    /\ keys' = IF Cardinality({k \in keys : k.user = q.user}) < MaxKeys
               THEN keys \cup {[user |-> q.user, ver |-> q.me.ver, pw |-> q.me.pw]} ELSE keys
    /\ End(r)
    /\ UNCHANGED <<row, tokens>> /\ DoorUnchanged /\ History
DeleteKey(k) ==
    /\ SignedIn(k.user) /\ \A r \in Request : At(r, "idle")
    /\ keys' = keys \ {k}
    /\ UNCHANGED <<row, tokens, req, ops>> /\ DoorUnchanged /\ History

-----------------------------------------------------------------------------
(* What an administrator does with the account of another.                 *)

IsAdmin(n) == SignedIn(n) /\ row[n].admin

\* patch_user; nobody disables or demotes the own account.
Patch(r, admin, n, what, pw) ==
    /\ Begin(r, "patch") /\ IsAdmin(admin) /\ n \in Accounts
    /\ n = admin => what \notin {"disable", "demote"}
    /\ IF what = "password" THEN pw # row[n].pw ELSE pw = row[n].pw
    /\ Ask(r, "commit", "patch", n, row[n], pw, None, what)
    /\ UNCHANGED <<row, tokens, keys>> /\ DoorUnchanged /\ History
Patched(me, what, pw) ==
    CASE what = "disable" -> [me EXCEPT !.active = FALSE, !.ver = @ + 1]
      [] what = "enable" -> [me EXCEPT !.active = TRUE]
      [] what = "demote" -> [me EXCEPT !.admin = FALSE]
      [] what = "promote" -> [me EXCEPT !.admin = TRUE]
      [] what = "password" -> [me EXCEPT !.pw = pw, !.ver = @ + 1]
CommitPatch(r) ==
    LET q == req[r] IN
    /\ Go(r, "commit") /\ q.op = "patch"
    /\ Flush(q.user, q.me, Patched(q.me, q.what, q.pw))
    /\ End(r)
    /\ UNCHANGED <<tokens, keys>> /\ DoorUnchanged /\ History

\* reset_password: a new password, and no second factor.
Reset(r, admin, n, pw) ==
    /\ Begin(r, "reset") /\ IsAdmin(admin) /\ n \in Accounts \ {admin} /\ pw # row[n].pw
    /\ Ask(r, "commit", "reset", n, row[n], pw, None, None)
    /\ UNCHANGED <<row, tokens, keys>> /\ DoorUnchanged /\ History

CommitResetAfresh(r) == \* mutant: the account begins anew
    LET q == req[r] IN
    /\ Go(r, "commit") /\ q.op = "reset"
    /\ Flush(q.user, q.me, [q.me EXCEPT !.pw = q.pw, !.ver = 1, !.totp = FALSE, !.secret = None])
    /\ End(r)
    /\ UNCHANGED <<tokens, keys>> /\ DoorUnchanged /\ History

CommitReset(r) ==
    LET q == req[r] IN
    /\ Go(r, "commit") /\ q.op = "reset"
    /\ Flush(q.user, q.me, [q.me EXCEPT !.pw = q.pw, !.ver = @ + 1, !.totp = FALSE, !.secret = None])
    /\ End(r)
    /\ UNCHANGED <<tokens, keys>> /\ DoorUnchanged /\ History

\* put_admin_settings
SetOpen(r, admin) ==
    /\ Begin(r, "door") /\ IsAdmin(admin) /\ open' = ~open
    /\ UNCHANGED <<row, tokens, keys, lock, cookie, unlocks, req>> /\ History

-----------------------------------------------------------------------------
(* The lock screen.  A password is kept as a salted hash, so that setting  *)
(* it again makes all the cookies worthless.                               *)

SetLock(r, admin, on) ==
    /\ Begin(r, "lock") /\ IsAdmin(admin)
    /\ lock' = IF on THEN ops' ELSE 0
    /\ UNCHANGED <<row, tokens, keys, open, cookie, unlocks, req>> /\ History

\* unlock: the password is verified, then the cookie is made for the hash there is now.
Unlock(r) ==
    /\ Begin(r, "unlock") /\ lock # 0
    /\ Ask(r, "cookie", "unlock", None, None, None, None, None)
    /\ UNCHANGED <<row, tokens, keys>> /\ DoorUnchanged /\ History
GiveCookie(r) ==
    /\ Go(r, "cookie") /\ End(r)
    /\ cookie' = [cookie EXCEPT ![r] = lock]
    /\ unlocks' = [unlocks EXCEPT ![r] = @ + 1]
    /\ UNCHANGED <<row, tokens, keys, open, lock>> /\ History

\* A session, or an unlock cookie, ends by its age.
Expire ==
    /\ \A r \in Request : At(r, "idle")
    /\ \/ \E t \in tokens : tokens' = tokens \ {t} /\ UNCHANGED cookie
       \/ \E r \in Request : cookie[r] # 0 /\ cookie' = [cookie EXCEPT ![r] = 0] /\ UNCHANGED tokens
    /\ UNCHANGED <<row, keys, open, lock, unlocks, req, ops>> /\ History

-----------------------------------------------------------------------------

Own(r, n) ==
    \/ LogoutAll(r, n) \/ TotpEnable(r, n) \/ TotpDisable(r, n) \/ CreateKey(r, n)
    \/ \E p \in Password : ChangePassword(r, n, p)
    \/ \E s \in Secret : TotpSetup(r, n, s)
ByAdmin(r, a) ==
    \/ SetOpen(r, a) \/ \E on \in BOOLEAN : SetLock(r, a, on)
    \/ \E n \in Name, p \in Password : Reset(r, a, n, p) \/ \E c \in Changes : Patch(r, a, n, c, p)
Visitor(r) ==
    \/ Unlock(r)
    \/ \E n \in Name, p \in Password :
          Register(r, n, p) \/ \E c \in Secret \cup {None} : Login(r, n, p, c)
Continue(r) ==
    \/ Count(r) \/ Insert(r) \/ Judge(r) \/ GiveToken(r) \/ GiveCookie(r)
    \/ CommitChange(r) \/ CommitLogoutAll(r) \/ CommitSetup(r) \/ CommitEnable(r)
    \/ CommitDisable(r) \/ CommitKey(r) \/ CommitPatch(r) \/ CommitReset(r)

Next ==
    \/ \E r \in Request : Visitor(r) \/ Continue(r) \/ \E n \in Name : Own(r, n) \/ ByAdmin(r, n)
    \/ \E k \in keys : DeleteKey(k)
    \/ Expire

Spec == Init /\ [][Next]_vars

-----------------------------------------------------------------------------
(* Properties.                                                             *)

\* Whoever is signed in has shown the password that is in force, and the second
\* factor if there is one: what changes either leaves no other session behind.
SessionsEarned ==
    \A t \in tokens : Valid(t) =>
        /\ t.pw = row[t.user].pw
        /\ row[t.user].totp => t.code = row[t.user].secret

\* The same for API keys: a key that works was made with the password in force.
KeysEarned == \A k \in keys : Works(k) => k.pw = row[k.user].pw

\* A session that was revoked does not come back to life: the version only goes up.
NoRevival ==
    \A t \in tokens \cap tokens' : t.user \in Accounts /\ t.ver < row[t.user].ver
          => t.ver # row'[t.user].ver

\* Once there are accounts, one that can be used is an administrator: nobody can
\* be made one otherwise.
SomeAdmin == Accounts # {} => \E n \in Accounts : row[n].admin /\ row[n].active

\* A second factor that is on is the one whose code has been shown.
VerifiedSecret == \A n \in Accounts : row[n].totp => row[n].secret = confirmed[n]

\* Only the first account is made administrator by registering.
OneFirstAdmin == Cardinality(elected) <= 1

\* No two accounts have names that differ in case only.
\* TLC refutes it for overlapping registrations.
NamesApart == \A m, n \in Accounts : Fold[m] = Fold[n] => m = n

\* While the lock screen is on, every login costs an unlock of its own.
UnlockIsSpent == \A r \in Request : lock # 0 /\ cookie[r] = lock => unlocks[r] > 0

==============================================================================
