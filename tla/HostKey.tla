------------------------------ MODULE HostKey -------------------------------
(***************************************************************************)
(* The host key remembered for one owner, instance and port, trusted on    *)
(* first use (web/backend/ssh_hostkey.py), as a terminal (webssh.py) and   *)
(* a script (ssh_bridge.py) use it: the type on record is read, the host   *)
(* is probed without credentials, the answer is compared with the record   *)
(* or becomes it, and the credentials go only over a connection that is    *)
(* pinned to the key that was probed.  A key is its type and a number.     *)
(***************************************************************************)
EXTENDS Naturals

CONSTANTS
    Conns,         \* connection attempts
    Types,         \* key types
    Rank,          \* where asyncssh has each of them in its defaults
    MaxGen,        \* bound: keys of a type that a host ever has
    MaxForgets,    \* bound: times the record is reset
    MaxTries       \* bound of the source: attempts of a script (retries = 3)

ASSUME HostKeyAssumption ==
    /\ Rank \in [Types -> Nat] /\ "none" \notin Types
    /\ MaxGen \in Nat \ {0} /\ MaxForgets \in Nat /\ MaxTries \in Nat \ {0}

Key == [type: Types, gen: 1..MaxGen]
NoKey == [type |-> "none", gen |-> 0]

VARIABLES
    host,     \* the number of the key that the host has of each type, 0 for none
    row,      \* SshHostKey: the key on record, or NoKey
    epoch,    \* history: resets of the record
    pinned,   \* history: [epoch, key] of every key that was recorded or got credentials
    step, prefer, key, since, tries,    \* of each attempt
    offered, expected                   \* history: what a mismatch was judged by

vars == <<host, row, epoch, pinned, step, prefer, key, since, tries, offered, expected>>

Steps == {"start", "probe", "select", "insert", "reread", "connect",
          "refused", "unreachable", "open", "failed"}

TypeOK ==
    /\ host \in [Types -> 0..MaxGen]
    /\ row \in Key \cup {NoKey} /\ epoch \in 0..MaxForgets
    /\ step \in [Conns -> Steps] /\ prefer \in [Conns -> Types \cup {"none"}]
    /\ key \in [Conns -> Key \cup {NoKey}] /\ expected \in [Conns -> Key \cup {NoKey}]
    /\ since \in [Conns -> 0..MaxForgets] /\ tries \in [Conns -> 0..MaxTries]
    /\ offered \in [Conns -> SUBSET Key]
    /\ pinned \subseteq [epoch: 0..MaxForgets, key: Key]

Has(h) == {[type |-> t, gen |-> h[t]] : t \in {u \in Types : h[u] > 0}}
Offered == Has(host)

Init ==
    /\ host \in [Types -> 0..1]
    /\ row \in Offered \cup {NoKey} /\ epoch = 0
    /\ step = [c \in Conns |-> "start"] /\ prefer = [c \in Conns |-> "none"]
    /\ key = [c \in Conns |-> NoKey] /\ expected = [c \in Conns |-> NoKey]
    /\ since = [c \in Conns |-> 0] /\ tries = [c \in Conns |-> 0]
    /\ offered = [c \in Conns |-> {}]
    /\ pinned = {[epoch |-> 0, key |-> k] : k \in {row} \ {NoKey}}

Goes(c, next) == step' = [step EXCEPT ![c] = next]
Verdict == <<since, expected>>
Attempts == <<step, prefer, key, tries, offered, Verdict>>

\* remembered_key_type
ReadType(c) ==
    /\ step[c] = "start" /\ Goes(c, "probe")
    /\ prefer' = [prefer EXCEPT ![c] = row.type]
    /\ UNCHANGED <<host, row, epoch, pinned, key, tries, offered, Verdict>>

\* host_key_alg_order: of what the host has, the type on record first, then the defaults.
First(t, p) ==
    host[t] > 0 /\ \A u \in Types : host[u] > 0 => (t = p \/ (u # p /\ Rank[t] <= Rank[u]))

\* probe_host_key
Probe(c) ==
    /\ step[c] = "probe"
    /\ \/ \E t \in Types :
              /\ First(t, prefer[c])
              /\ key' = [key EXCEPT ![c] = [type |-> t, gen |-> host[t]]]
              /\ offered' = [offered EXCEPT ![c] = Offered]
              /\ Goes(c, "select")
       \/ Goes(c, "unreachable") /\ UNCHANGED <<key, offered>>
    /\ UNCHANGED <<host, row, epoch, pinned, prefer, tries, Verdict>>

\* The record decides.
Judged(c) ==
    \/ /\ row = key[c] /\ Goes(c, "connect") /\ since' = [since EXCEPT ![c] = epoch]
       /\ UNCHANGED expected
    \/ /\ row # key[c] /\ Goes(c, "refused") /\ expected' = [expected EXCEPT ![c] = row]
       /\ UNCHANGED since

\* verify_host_key: is there a record?
Select(c) ==
    /\ step[c] = "select"
    /\ \/ row = NoKey /\ Goes(c, "insert") /\ UNCHANGED Verdict
       \/ row # NoKey /\ Judged(c)
    /\ UNCHANGED <<host, row, epoch, pinned, prefer, key, tries, offered>>

Learn(c) ==
    /\ row' = key[c] /\ pinned' = pinned \cup {[epoch |-> epoch, key |-> key[c]]}
    /\ Goes(c, "connect") /\ since' = [since EXCEPT ![c] = epoch]

\* Without one, the key is recorded; the unique constraint refuses a second record.
Insert(c) ==
    /\ step[c] = "insert"
    /\ \/ row = NoKey /\ Learn(c)
       \/ row # NoKey /\ Goes(c, "reread") /\ UNCHANGED <<row, pinned, since>>
    /\ UNCHANGED <<host, epoch, prefer, key, tries, offered, expected>>

\* After a conflict the record of the other decides; if it is gone again, nobody guesses.
Reread(c) ==
    /\ step[c] = "reread"
    /\ \/ row = NoKey /\ Goes(c, "refused") /\ UNCHANGED Verdict
       \/ row # NoKey /\ Judged(c)
    /\ UNCHANGED <<host, row, epoch, pinned, prefer, key, tries, offered>>

TrustedAny(c, k) == TRUE \* mutant: known_hosts = None

\* known_hosts_for: a host that cannot prove the key that was verified gets nothing.
Trusted(c, k) == k = key[c]

\* Credentials reach a host that proves a key.
Gives(c) ==
    \E k \in Offered : Trusted(c, k) /\ pinned' = pinned \cup {[epoch |-> since[c], key |-> k]}

\* asyncssh.connect with the credentials; a script is tried again after a failure.
Connect(c) ==
    /\ step[c] = "connect"
    /\ \/ Gives(c) /\ Goes(c, "open") /\ UNCHANGED tries
       \/ /\ Gives(c) \/ UNCHANGED pinned
          /\ \/ Goes(c, "failed") /\ UNCHANGED tries
             \/ /\ tries[c] + 1 < MaxTries /\ tries' = [tries EXCEPT ![c] = @ + 1]
                /\ UNCHANGED step
    /\ UNCHANGED <<host, row, epoch, prefer, key, offered, Verdict>>

\* forget_host_key
Forget ==
    /\ row # NoKey /\ epoch < MaxForgets
    /\ row' = NoKey /\ epoch' = epoch + 1
    /\ UNCHANGED <<host, pinned, Attempts>>

\* The host gets a new key of a type (it is rebuilt, or another answers), or drops one.
Rekey(t) ==
    /\ host[t] < MaxGen /\ MaxGen > 1 /\ host' = [host EXCEPT ![t] = @ + 1]
    /\ UNCHANGED <<row, epoch, pinned, Attempts>>
Drop(t) ==
    /\ host[t] # 0 /\ MaxGen > 1 /\ host[t] = MaxGen /\ host' = [host EXCEPT ![t] = 0]
    /\ UNCHANGED <<row, epoch, pinned, Attempts>>

Next ==
    \/ \E c \in Conns : ReadType(c) \/ Probe(c) \/ Select(c) \/ Insert(c) \/ Reread(c) \/ Connect(c)
    \/ Forget \/ \E t \in Types : Rekey(t) \/ Drop(t)

Spec == Init /\ [][Next]_vars
(***************************************************************************)
(* Properties.                                                             *)
(***************************************************************************)
\* Between two resets one key is recorded, and no other key is given credentials by
\* attempts that were judged then, whatever the host becomes between probe and connection.
OneKeyPerPin == \A p, q \in pinned : p.epoch = q.epoch => p.key = q.key

\* Who asked for the type on record is not told of a mismatch while the host still has
\* the key on record (host_key_alg_order).
AlarmIsReal ==
    \A c \in Conns :
        (step[c] = "refused" /\ prefer[c] = expected[c].type)
            => expected[c] \notin offered[c]

\* A host that offers the key on record never looks like another one.
\* TLC refutes it when the record is reset between the read of its type and the probe.
NoFalseAlarm ==
    \A c \in Conns : step[c] = "refused" => expected[c] \notin offered[c]
=============================================================================
