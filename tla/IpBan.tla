------------------------------- MODULE IpBan --------------------------------
(***************************************************************************)
(* Banning by address (web/backend/ip_ban.py).  The bans and the rules are *)
(* rows of the database; every process keeps a copy, which is read again   *)
(* when it is older than REFRESH_SEC and a visitor comes.  A ban enters    *)
(* the copy before it is committed, and is pinned there until it is known  *)
(* to be in the database, so that a refresh in between cannot lose it.     *)
(*                                                                         *)
(* A key is an IPv4 address or an IPv6 /64 (ban_key).  A rule set is known *)
(* by the keys whose user agents it hits.  Pins last ten minutes, which no *)
(* commit takes.  The command line is a process that nobody visits.        *)
(***************************************************************************)
EXTENDS Integers, FiniteSets

CONSTANTS
    Process,    \* API processes and the command line
    Key,
    Allowed,    \* keys in OCIBOT_IP_BAN_ALLOWLIST
    Request,    \* threads
    ProcessOf,  \* the process of each of them
    Serves,     \* what each of them may do: "visit", "ban", "unban", "save"
    Rules,      \* the rule sets that may be saved, each a set of keys
    MaxOps,     \* bound: bans, unbans and saves asked for
    MaxFaults,  \* bound: faults
    Faults,     \* "db": a statement fails; "lost": a commit is done and fails; "crash"
    NoOne

IpBanAssumption ==
    /\ ProcessOf \in [Request -> Process] /\ NoOne \notin Request
    /\ Serves \in [Request -> SUBSET {"visit", "ban", "unban", "save"}]
    /\ Key # {} /\ Allowed \subseteq Key /\ Rules \subseteq SUBSET Key
    /\ MaxOps \in Nat /\ MaxFaults \in Nat /\ Faults \subseteq {"db", "lost", "crash"}

VARIABLES
    db,      \* [ips, rules] in the database
    cache,   \* _CACHE of each process: [ips, rules, fresh]
    pins,    \* _pins of each process: "none", "young" or "old" for each key
    lock,    \* holder of _CACHE._lock of each process
    req,     \* [pc, op, key, rules, read] of each thread
    told,    \* history: keys each process has confirmed as banned, none undone since
    undone,  \* history: keys that somebody unbanned while a process was banning them
    ops, faults

vars == <<db, cache, pins, lock, req, told, undone, ops, faults>>

Copy == [ips: SUBSET Key, rules: SUBSET Key]
Pc == {"idle", "visit", "load", "rules", "store", "add", "look", "commit", "unpin",
       "find", "erase", "remove", "save", "set"}
Idle(k) == [pc |-> "idle", op |-> "visit", key |-> k, rules |-> {},
            read |-> [ips |-> {}, rules |-> {}]]

TypeOK ==
    /\ db \in Copy
    /\ cache \in [Process -> [ips: SUBSET Key, rules: SUBSET Key, fresh: BOOLEAN]]
    /\ pins \in [Process -> [Key -> {"none", "young", "old"}]]
    /\ lock \in [Process -> Request \cup {NoOne}]
    /\ \A r \in Request : req[r].pc \in {"rules", "store"} <=> lock[ProcessOf[r]] = r
    /\ req \in [Request -> [pc: Pc, op: {"visit", "ban", "unban", "save"}, key: Key,
                            rules: SUBSET Key, read: Copy]]
    /\ told \in [Process -> SUBSET Key] /\ undone \in [Process -> SUBSET Key]
    /\ ops \in 0..MaxOps /\ faults \in 0..MaxFaults

\* A process starts with nothing but the default rules, and reads at once.
NewCache == [ips |-> {}, rules |-> {}, fresh |-> FALSE]
NoPins == [k \in Key |-> "none"]

Init ==
    /\ db \in [ips: SUBSET Key, rules: {{}}]
    /\ cache = [p \in Process |-> NewCache] /\ pins = [p \in Process |-> NoPins]
    /\ lock = [p \in Process |-> NoOne]
    /\ req \in [Request -> {Idle(k) : k \in {CHOOSE k \in Key : TRUE}}]
    /\ told = [p \in Process |-> {}] /\ undone = [p \in Process |-> {}]
    /\ ops = 0 /\ faults = 0

At(r, pc) == req[r].pc = pc
Step(r, pc) == req' = [req EXCEPT ![r].pc = pc]
Of(r) == ProcessOf[r]
Free(r) == lock[Of(r)] = NoOne
Fault(kind) == kind \in Faults /\ faults < MaxFaults /\ faults' = faults + 1
NoFault == UNCHANGED faults

\* A process has a ban of a key under way.
Banning(p, k) == \E r \in Request :
    Of(r) = p /\ req[r].key = k /\ req[r].pc \in {"look", "commit", "unpin"}

\* When the last ban of a key is over, nothing is remembered of it.
Settled(r) == undone' = [undone EXCEPT ![Of(r)] = {k \in @ : Banning(Of(r), k)'}]

\* exempt_reason: addresses that are never banned
Exempt(k) == k \in Allowed
\* _CACHE.blocks(ip) and not allowlisted(ip)
Blocked(p, k) == k \in cache[p].ips /\ ~Exempt(k)
\* UaRules.match, or no user agent at all
Hit(p, k) == k \in cache[p].rules

----------------------------------------------------------------------------
(* Requests *)

\* IpBanMiddleware: a visitor comes to a process
Visit(r, k) ==
    /\ At(r, "idle") /\ "visit" \in Serves[r]
    /\ req' = [req EXCEPT ![r] = [Idle(k) EXCEPT !.pc =
                  IF cache[Of(r)].fresh THEN "visit" ELSE "load"]]
    /\ UNCHANGED <<db, cache, pins, lock, told, undone, ops, faults>>

Ask(r, op, pc, k, rs) ==
    /\ At(r, "idle") /\ op \in Serves[r] /\ ops < MaxOps /\ ops' = ops + 1
    /\ req' = [req EXCEPT ![r] = [Idle(k) EXCEPT !.op = op, !.pc = pc, !.rules = rs]]
    /\ UNCHANGED <<db, cache, pins, lock, told, undone, faults>>

\* An administrator, in the panel or on the command line
AskBan(r, k) == ~Exempt(k) /\ Ask(r, "ban", "add", k, {})
AskUnban(r, k) == Ask(r, "unban", "find", k, {})
AskSave(r, rs) == Ask(r, "save", "save", req[r].key, rs)

\* refresh(): somebody else may have read meanwhile
Load(r) ==
    /\ At(r, "load") /\ Free(r)
    /\ IF cache[Of(r)].fresh
       THEN Step(r, "visit") /\ UNCHANGED lock
       ELSE /\ lock' = [lock EXCEPT ![Of(r)] = r]
            /\ req' = [req EXCEPT ![r].pc = "rules", ![r].read.ips = db.ips]
    /\ UNCHANGED <<db, cache, pins, told, undone, ops, faults>>

\* get_rules, in the session that has read the bans
ReadRules(r) ==
    /\ At(r, "rules")
    /\ req' = [req EXCEPT ![r].pc = "store", ![r].read.rules = db.rules]
    /\ UNCHANGED <<db, cache, pins, lock, told, undone, ops, faults>>

\* Mutant: a refresh adds to the copy.
RefreshedMerging(p, read, kept) ==
    [ips |-> cache[p].ips \cup read.ips \cup kept, rules |-> read.rules, fresh |-> TRUE]

\* Mutant: a refresh forgets the pins.
RefreshedUnpinned(p, read, kept) == [ips |-> read.ips, rules |-> read.rules, fresh |-> TRUE]

\* What a refresh puts into the copy: what it read and what is pinned.
Refreshed(p, read, kept) == [ips |-> read.ips \cup kept, rules |-> read.rules, fresh |-> TRUE]

Store(r) ==
    LET p == Of(r)
        kept == {k \in Key : pins[p][k] = "young"}
    IN  /\ At(r, "store")
        /\ cache' = [cache EXCEPT ![p] = Refreshed(p, req[r].read, kept)]
        /\ pins' = [pins EXCEPT ![p] = [k \in Key |-> IF k \in kept THEN "young" ELSE "none"]]
        /\ lock' = [lock EXCEPT ![p] = NoOne] /\ Step(r, "visit")
        /\ UNCHANGED <<db, told, undone, ops, faults>>

\* The database does not answer: the copy stays as it is until the next time.
LoadFails(r) ==
    /\ req[r].pc \in {"rules", "store"} /\ Fault("db")
    /\ cache' = [cache EXCEPT ![Of(r)].fresh = TRUE]
    /\ lock' = [lock EXCEPT ![Of(r)] = NoOne] /\ Step(r, "visit")
    /\ UNCHANGED <<db, pins, told, undone, ops>>

\* The verdict: refused, or caught by a rule and banned, or let in.
Judge(r) ==
    LET p == Of(r)  k == req[r].key IN
    /\ At(r, "visit")
    /\ Step(r, IF ~Blocked(p, k) /\ Hit(p, k) /\ ~Exempt(k) THEN "add" ELSE "idle")
    /\ UNCHANGED <<db, cache, pins, lock, told, undone, ops, faults>>

----------------------------------------------------------------------------
(* ban_ip *)

Add(r) ==
    LET p == Of(r)  k == req[r].key IN
    /\ At(r, "add") /\ Free(r)
    /\ cache' = [cache EXCEPT ![p].ips = @ \cup {k}]
    /\ pins' = [pins EXCEPT ![p][k] = "young"]
    /\ Step(r, "look")
    /\ UNCHANGED <<db, lock, told, undone, ops, faults>>

\* The caller is told; somebody who has undone the ban by then has the last word.
Confirmed(r) == told' = [told EXCEPT ![Of(r)] = @ \cup ({req[r].key} \ undone[Of(r)])]

Look(r) ==
    /\ At(r, "look")
    /\ IF req[r].key \in db.ips
       THEN Confirmed(r) /\ Step(r, "unpin")
       ELSE Step(r, "commit") /\ UNCHANGED told
    /\ UNCHANGED <<db, cache, pins, lock, undone, ops, faults>>

\* The insert, which finds the row there if somebody else was faster
Commit(r) ==
    /\ At(r, "commit")
    /\ db' = [db EXCEPT !.ips = @ \cup {req[r].key}]
    /\ Confirmed(r) /\ Step(r, "unpin")
    /\ UNCHANGED <<cache, pins, lock, undone, ops, faults>>

\* SQLAlchemyError: the key stays pinned, whether the row was written or not
BanFails(r) ==
    /\ req[r].pc \in {"look", "commit"}
    /\ \/ Fault("db") /\ UNCHANGED db
       \/ At(r, "commit") /\ Fault("lost") /\ db' = [db EXCEPT !.ips = @ \cup {req[r].key}]
    /\ Step(r, "idle") /\ Confirmed(r) /\ Settled(r)
    /\ UNCHANGED <<cache, pins, lock, ops>>

Unpin(r) ==
    /\ At(r, "unpin") /\ Free(r)
    /\ pins' = [pins EXCEPT ![Of(r)][req[r].key] = "none"]
    /\ Step(r, "idle") /\ Settled(r)
    /\ UNCHANGED <<db, cache, lock, told, ops, faults>>

----------------------------------------------------------------------------
(* unban_ips and set_rules *)

\* The rows are read, then deleted; one that is gone by then is no error.
Find(r) ==
    /\ At(r, "find")
    /\ req' = [req EXCEPT ![r].pc = "erase", ![r].read.ips = db.ips \cap {req[r].key}]
    /\ UNCHANGED <<db, cache, pins, lock, told, undone, ops, faults>>

Erase(r) ==
    /\ At(r, "erase")
    /\ \/ /\ db' = [db EXCEPT !.ips = @ \ req[r].read.ips] /\ NoFault
          /\ told' = [p \in Process |-> told[p] \ req[r].read.ips]
          /\ undone' = [p \in Process |->
                          undone[p] \cup {k \in req[r].read.ips : Banning(p, k)}]
          /\ Step(r, "remove")
       \/ Fault("db") /\ Step(r, "idle") /\ UNCHANGED <<db, told, undone>>
    /\ UNCHANGED <<cache, pins, lock, ops>>

\* _CACHE.remove, whether or not there was a row
Remove(r) ==
    LET p == Of(r)  k == req[r].key IN
    /\ At(r, "remove") /\ Free(r)
    /\ cache' = [cache EXCEPT ![p].ips = @ \ {k}]
    /\ pins' = [pins EXCEPT ![p][k] = "none"]
    /\ told' = [told EXCEPT ![p] = @ \ {k}]
    /\ undone' = [undone EXCEPT ![p] = @ \cup {j \in {k} : Banning(p, j)}]
    /\ Step(r, "idle")
    /\ UNCHANGED <<db, lock, ops, faults>>

SaveRules(r) ==
    /\ At(r, "save")
    /\ \/ db' = [db EXCEPT !.rules = req[r].rules] /\ NoFault /\ Step(r, "set")
       \/ Fault("db") /\ Step(r, "idle") /\ UNCHANGED db
    /\ UNCHANGED <<cache, pins, lock, told, undone, ops>>

SetRules(r) ==
    /\ At(r, "set") /\ Free(r)
    /\ cache' = [cache EXCEPT ![Of(r)].rules = req[r].rules]
    /\ Step(r, "idle")
    /\ UNCHANGED <<db, pins, lock, told, undone, ops, faults>>

----------------------------------------------------------------------------
(* Time and crashes *)

\* REFRESH_SEC passes
CacheAges(p) ==
    /\ cache[p].fresh /\ cache' = [cache EXCEPT ![p].fresh = FALSE]
    /\ UNCHANGED <<db, pins, lock, req, told, undone, ops, faults>>

\* LOCAL_PIN_SEC passes
PinAges(p, k) ==
    /\ pins[p][k] = "young" /\ ~Banning(p, k)
    /\ pins' = [pins EXCEPT ![p][k] = "old"]
    /\ told' = [told EXCEPT ![p] = @ \ {k}]
    /\ UNCHANGED <<db, cache, lock, req, undone, ops, faults>>

\* A process is killed and started again.
Crash(p) ==
    /\ Fault("crash")
    /\ cache' = [cache EXCEPT ![p] = NewCache] /\ pins' = [pins EXCEPT ![p] = NoPins]
    /\ lock' = [lock EXCEPT ![p] = NoOne] /\ told' = [told EXCEPT ![p] = {}]
    /\ undone' = [undone EXCEPT ![p] = {}]
    /\ req' = [r \in Request |-> IF Of(r) = p THEN Idle(req[r].key) ELSE req[r]]
    /\ UNCHANGED <<db, ops>>

Refresh(r) == Load(r) \/ ReadRules(r) \/ Store(r)
Work(r) ==
    \/ Refresh(r) \/ Judge(r)
    \/ Add(r) \/ Look(r) \/ Commit(r) \/ Unpin(r)
    \/ Find(r) \/ Erase(r) \/ Remove(r) \/ SaveRules(r) \/ SetRules(r)

Next ==
    \/ \E r \in Request :
          \/ Work(r) \/ LoadFails(r) \/ BanFails(r)
          \/ \E k \in Key : Visit(r, k)
          \/ \E k \in Key : AskBan(r, k) \/ AskUnban(r, k)
          \/ \E rs \in Rules : AskSave(r, rs)
    \/ \E p \in Process : CacheAges(p) \/ Crash(p) \/ \E k \in Key : PinAges(p, k)

Spec == Init /\ [][Next]_vars

\* Threads run, and get a lock that is taken once in REFRESH_SEC; time passes, and
\* every process that has visitors gets another.
Fairness ==
    /\ \A r \in Request : SF_vars(Work(r))
    /\ \A r \in Request : WF_vars(\E k \in Key : Visit(r, k))
    /\ \A p \in Process : WF_vars(CacheAges(p)) /\ \A k \in Key : WF_vars(PinAges(p, k))

FairSpec == Spec /\ Fairness

----------------------------------------------------------------------------
(* Properties *)

\* A process that has said "banned" refuses the address until somebody undoes the
\* ban or the ten minutes of an unwritten one are over, whatever its refreshes
\* read in between (the pins of _Cache.add) and whoever else bans it at the same
\* time.  An unban that comes while a ban of the address is under way undoes it,
\* and those of the same process that overlap with it.
ToldIsBlocked == \A p \in Process : told[p] \subseteq cache[p].ips

\* "The API processes see the change after REFRESH_SEC at the latest" (_main): a
\* copy that has been read again blocks what was in the database, and what is
\* being banned at this moment, and nothing else. TLC refutes it when
\* a commit fails although it was made: the pin outlasts the row.
UnbanSeen ==
    \A p \in Process :
          lock[p] # NoOne /\ lock'[p] = NoOne /\ At(lock[p], "store") /\ NoFault
             => cache'[p].ips \subseteq
                   req[lock[p]].read.ips \cup {k \in Key : Banning(p, k)}

\* In the end every process that is visited blocks what the database holds and
\* goes by the rules that were saved last, whatever failed, died or overlapped.
\* (CopiesAgree of MCEnds.)
Visited(p) == \E r \in Request : Of(r) = p /\ "visit" \in Serves[r]
InStep == \A p \in Process : Visited(p) => cache[p].ips = db.ips /\ cache[p].rules = db.rules
Agreement == <>[]InStep
=============================================================================
