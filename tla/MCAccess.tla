------------------------------ MODULE MCAccess ------------------------------
(***************************************************************************)
(* Who gets in: accounts, rate limits, the audit trail, web SSH, its host  *)
(* keys and the ban of addresses.  The components share no state, so one   *)
(* run checks them side by side: a behaviour is of one part, and a name    *)
(* that two parts use stands for the variable of the part it is of.        *)
(***************************************************************************)
EXTENDS HostKey, TLC

CONSTANTS
    None, c1, c2, s1, s2,
    Names, Fold, Password, Secrets, Browsers, MaxKeys,  \* of accounts,
    FewNames, FewSecrets, FewBrowsers,                  \* fewer of them in some parts,
    MaxOneByOne, MaxSecondFactor, MaxElected,           \* and how much is asked in each
    Sessions, Users, Instances, Owned, MaxPerUser, MaxPerInstance,  \* of web SSH
    Guessing, Trail, Barring      \* of limits, the audit trail and bans: a record of each

VARIABLES
    part,  \* the part this behaviour is of
    accountsRow, tokens, keys, open, lock, cookie, unlocks, confirmed, elected, req, ops,
    now, hits, allowed, told,
    auditNow, rows, pc, gone, began, excess, aged,
    userSlots, instanceSlots, session, shellsGone, shellsTold, remote, revoked,
    db, cache, pins, bansLock, bansReq, bansTold, undone, bansOps, faults

RankOf == ("ed25519" :> 1) @@ ("rsa" :> 2)
LowerCase == ("ann" :> "ann") @@ ("bob" :> "bob")

\* At most two hits on an account of an address in the window, and three on the address.
Hits == [b \in {"i", "j"} \X {"u", "any"} |-> IF b[2] = "any" THEN 3 ELSE 2]

\* ann owns the instance and bob does not.
OwnedBy == ("ann" :> {"box"}) @@ ("bob" :> {})

\* Bans and unbans come from the panel and from the command line.
Thread == {"r1", "r2", "r3"}
Where == [r \in Thread |-> IF r = "r3" THEN "cli" ELSE "api"]
PanelAndShell == [r \in Thread |->
    CASE r = "r1" -> {"visit", "ban"} [] r = "r2" -> {"ban", "unban", "save"} [] OTHER -> {"unban"}]

Interchangeable == Permutations({s1, s2}) \cup Permutations({c1, c2})

\* The accounts of a panel; c is what the run asks of them.
Panel(c) == INSTANCE Accounts WITH
    Name <- c.names, Secret <- c.secrets, Request <- c.browsers, Overlaps <- c.overlaps,
    Ops <- c.ops, MaxOps <- c.maxOps, Locked <- TRUE, row <- accountsRow

\* One request after the other, every operation.
OneByOne ==
    [names |-> Names, secrets |-> FewSecrets, browsers |-> FewBrowsers, overlaps |-> {},
     maxOps |-> MaxOneByOne,
     ops |-> {"register", "login", "change", "everywhere", "setup", "enable", "disable",
              "patch", "reset", "key", "unlock", "lock", "door"}]

\* A second factor is set up, switched on and off and reset.
SecondFactor ==
    [names |-> FewNames, secrets |-> Secrets, browsers |-> FewBrowsers, overlaps |-> {},
     maxOps |-> MaxSecondFactor,
     ops |-> {"register", "login", "change", "setup", "enable", "disable"}]

\* Registrations overlap on a database with advisory locks, and keys are made meanwhile.
Elected ==
    [names |-> Names, secrets |-> FewSecrets, browsers |-> Browsers, overlaps |-> {"register", "key"},
     maxOps |-> MaxElected, ops |-> {"register", "login", "change", "key", "door"}]

\* Two addresses, windows shorter than the run.
SomeGuessing ==
    [ips |-> {"i", "j"}, users |-> {"u"}, maxHits |-> Hits, window |-> 2, large |-> 3, horizon |-> 5]

Rates == INSTANCE RateLimit WITH
    Ip <- Guessing.ips, User <- Guessing.users, AnyUser <- "any", MaxHits <- Guessing.maxHits,
    Window <- Guessing.window, Large <- Guessing.large, Horizon <- Guessing.horizon

\* A table of three rows, with writers that go on during a prune.
SomeTrail == [kinds |-> {"history", "noise", "other"}, maxRows |-> 3, retention |-> 6, horizon |-> 8]

Audit == INSTANCE AuditTrail WITH
    Kinds <- Trail.kinds, MaxRows <- Trail.maxRows, Retention <- Trail.retention,
    Horizon <- Trail.horizon, now <- auditNow

\* Terminals of users, on instances that some of them own.
Shells == INSTANCE WebSsh WITH
    MayStall <- FALSE, Reads <- TRUE,
    gone <- shellsGone, told <- shellsTold

\* Addresses are banned, one of them in vain; faults of every kind.
SomeBans ==
    [processes |-> {"api", "cli"}, addresses |-> {"k", "l"}, allowed |-> {"l"},
     threads |-> Thread, where |-> Where, serves |-> PanelAndShell, rules |-> {{}, {"k"}},
     maxOps |-> 2, maxFaults |-> 1, faults |-> {"db", "lost", "crash"}]

Bans == INSTANCE IpBan WITH
    Process <- Barring.processes, Key <- Barring.addresses, Allowed <- Barring.allowed,
    Request <- Barring.threads, ProcessOf <- Barring.where, Serves <- Barring.serves,
    Rules <- Barring.rules, MaxOps <- Barring.maxOps, MaxFaults <- Barring.maxFaults,
    Faults <- Barring.faults, NoOne <- "no one", lock <- bansLock,
    req <- bansReq, told <- bansTold, ops <- bansOps

\* The variables of a part that the behaviour is not of.
Off(v) == v = "off"
AccountsOff ==
    /\ Off(accountsRow) /\ Off(tokens) /\ Off(keys) /\ Off(open) /\ Off(lock)
    /\ Off(cookie) /\ Off(unlocks) /\ Off(confirmed) /\ Off(elected) /\ Off(req) /\ Off(ops)
RatesOff ==
    /\ Off(now) /\ Off(hits) /\ Off(allowed) /\ Off(told)
AuditOff ==
    /\ Off(auditNow) /\ Off(rows) /\ Off(pc) /\ Off(gone) /\ Off(began) /\ Off(excess)
    /\ Off(aged)
ShellsOff ==
    /\ Off(userSlots) /\ Off(instanceSlots) /\ Off(session) /\ Off(shellsGone)
    /\ Off(shellsTold) /\ Off(remote) /\ Off(revoked)
HostKeyOff ==
    Off(host) /\ Off(row) /\ Off(epoch) /\ pinned = {} /\ Off(step) /\
    Off(prefer) /\ Off(key) /\ Off(since) /\ Off(tries) /\ Off(offered) /\ Off(expected)
BansOff ==
    /\ Off(db) /\ Off(cache) /\ Off(pins) /\ Off(bansLock) /\ Off(bansReq)
    /\ Off(bansTold) /\ Off(undone) /\ Off(bansOps) /\ Off(faults)

accounts == <<accountsRow, tokens, keys, open, lock, cookie, unlocks, confirmed, elected,
                req, ops>>
rates == <<now, hits, allowed, told>>
audit == <<auditNow, rows, pc, gone, began, excess, aged>>
shells == <<userSlots, instanceSlots, session, shellsGone, shellsTold, remote, revoked>>
hostKey == <<host, row, epoch, pinned, step, prefer, key, since, tries, offered, expected>>
bans == <<db, cache, pins, bansLock, bansReq, bansTold, undone, bansOps, faults>>

all == <<part, accounts, rates, audit, shells, hostKey, bans>>

PartInit ==
    \/ /\ part = "one by one" /\ Panel(OneByOne)!Init
       /\ RatesOff /\ AuditOff /\ ShellsOff /\ HostKeyOff /\ BansOff
    \/ /\ part = "second factor" /\ Panel(SecondFactor)!Init
       /\ RatesOff /\ AuditOff /\ ShellsOff /\ HostKeyOff /\ BansOff
    \/ /\ part = "elected" /\ Panel(Elected)!Init
       /\ RatesOff /\ AuditOff /\ ShellsOff /\ HostKeyOff /\ BansOff
    \/ part = "rates" /\ Rates!Init /\ AccountsOff /\ AuditOff /\ ShellsOff /\ HostKeyOff /\ BansOff
    \/ part = "audit" /\ Audit!Init /\ AccountsOff /\ RatesOff /\ ShellsOff /\ HostKeyOff /\ BansOff
    \/ /\ part = "shells" /\ Shells!Init
       /\ AccountsOff /\ RatesOff /\ AuditOff /\ HostKeyOff /\ BansOff
    \/ part = "pins" /\ Init /\ AccountsOff /\ RatesOff /\ AuditOff /\ ShellsOff /\ BansOff
    \/ part = "bans" /\ Bans!Init /\ AccountsOff /\ RatesOff /\ AuditOff /\ ShellsOff /\ HostKeyOff

PartNext ==
    \/ /\ part = "one by one" /\ Panel(OneByOne)!Next
       /\ UNCHANGED <<part, rates, audit, shells, hostKey, bans>>
    \/ /\ part = "second factor" /\ Panel(SecondFactor)!Next
       /\ UNCHANGED <<part, rates, audit, shells, hostKey, bans>>
    \/ part = "elected" /\ Panel(Elected)!Next /\ UNCHANGED <<part, rates, audit, shells, hostKey, bans>>
    \/ part = "rates" /\ Rates!Next /\ UNCHANGED <<part, accounts, audit, shells, hostKey, bans>>
    \/ part = "audit" /\ Audit!Next /\ UNCHANGED <<part, accounts, rates, shells, hostKey, bans>>
    \/ part = "shells" /\ Shells!Next /\ UNCHANGED <<part, accounts, rates, audit, hostKey, bans>>
    \/ part = "pins" /\ Next /\ UNCHANGED <<part, accounts, rates, audit, shells, bans>>
    \/ part = "bans" /\ Bans!Next /\ UNCHANGED <<part, accounts, rates, audit, shells, hostKey>>

PartSpec == PartInit /\ [][PartNext]_all

-----------------------------------------------------------------------------
ASSUME PartsAssumption ==
    /\ Panel(OneByOne)!AccountsAssumption /\ Panel(SecondFactor)!AccountsAssumption
    /\ Panel(Elected)!AccountsAssumption /\ Rates!RateLimitAssumption
    /\ Audit!AuditTrailAssumption /\ Shells!WebSshAssumption /\ Bans!IpBanAssumption

\* Every variable has its type.
TypesHold ==
    /\ part = "one by one" => Panel(OneByOne)!TypeOK
    /\ part = "second factor" => Panel(SecondFactor)!TypeOK
    /\ part = "elected" => Panel(Elected)!TypeOK
    /\ part = "rates" => Rates!TypeOK
    /\ part = "audit" => Audit!TypeOK
    /\ part = "shells" => Shells!TypeOK
    /\ part = "pins" => TypeOK
    /\ part = "bans" => Bans!TypeOK

\* What a session or an API key was earned by is still what it costs: password, second
\* factor, an unlock of the lock screen each; an account that can be used is the
\* administrator, and only the first was made one by registering (auth.py, security.py).
SignedInRightly ==
    /\ part = "one by one" =>
          /\ Panel(OneByOne)!SessionsEarned /\ Panel(OneByOne)!KeysEarned /\ Panel(OneByOne)!UnlockIsSpent
          /\ Panel(OneByOne)!SomeAdmin
    /\ part = "second factor" => Panel(SecondFactor)!SessionsEarned /\ Panel(SecondFactor)!VerifiedSecret
    /\ part = "elected" => Panel(Elected)!KeysEarned /\ Panel(Elected)!OneFirstAdmin

\* Who is shut out, and who is not.  The counters of web SSH are the sessions that hold a
\* slot, on every path out of a handshake; only owners hold one of an instance, and no more
\* than there are.  A shell is refused for its host key only where the key of the instance
\* is not the one first seen.  A process that has said "banned" refuses the address until
\* somebody undoes the ban, be it while it is made, or the ten minutes of an unwritten one
\* are over, whatever its refreshes read in between and whoever bans beside it.
GuardsHold ==
    /\ part = "shells" => Shells!SlotsAreHeld /\ Shells!OwnersOnly /\ Shells!Caps
    /\ part = "pins" => AlarmIsReal
    /\ part = "bans" => Bans!ToldIsBlocked

\* A limit counts right whatever is dropped or goes on meanwhile: attempts in any window,
\* and rows of the audit trail, whose history goes last.
LimitsHold ==
    /\ TypesHold
    /\ part = "rates" => Rates!AtMostPerWindow /\ Rates!RetryIsEnough
    /\ part = "audit" => Audit!HistoryLast /\ Audit!OldestFirst /\ Audit!CapHolds

\* A session that was revoked does not come back to life, whatever is done to its account.
RevokedStays == [][part = "one by one" => Panel(OneByOne)!NoRevival]_all
=============================================================================
