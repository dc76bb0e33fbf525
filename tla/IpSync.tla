------------------------------- MODULE IpSync --------------------------------
(***************************************************************************)
(* Secondary addresses of an instance, from Oracle to the network card.    *)
(* Requests of the panel attach and detach addresses and then write the    *)
(* list of them into the instance's metadata (attach_multi_ips,            *)
(* detach_multi_ips and publish_secondary_ips in app/oci_client.py).  A    *)
(* script on the instance (app/ip_sync.py) reads the list every minute, or *)
(* when it is installed, adds the addresses to the card and removes those  *)
(* it has added itself; a file says which these are.                       *)
(***************************************************************************)
EXTENDS Integers, FiniteSets

CONSTANTS
    Addr,       \* secondary private addresses
    Request,    \* requests of the panel
    Sync,       \* runs of the script: the timer's and the installation's
    Room,       \* MAX_SECONDARY_IPS_PER_VNIC
    Apart,      \* bound: only one request at a time
    MaxReqs,    \* bound: requests
    MaxEdits,   \* bound: changes of the metadata by others
    MaxFaults,  \* bound: faults
    Faults      \* "oracle": a call fails; "ip": the ip command fails; "reboot" and "kill" of the instance and of the script;
                \* "admin": an address is configured by hand

IpSyncAssumption ==
    /\ IsFiniteSet(Addr) /\ Room \in Nat /\ Apart \in BOOLEAN
    /\ MaxReqs \in Nat /\ MaxEdits \in Nat /\ MaxFaults \in Nat
    /\ Faults \subseteq {"oracle", "ip", "reboot", "kill", "admin"}

VARIABLES
    priv,    \* what Oracle has: an address is absent, bare or bound to a public one
    meta,    \* metadata of the instance: the list (once it has been written), the
             \* version of the other keys, and the etag
    imds,    \* the list as the instance reads it, which is later
    req,     \* the requests
    card,    \* addresses on the network card
    hand,    \* those configured by hand
    record,  \* the file of the script
    sync,    \* runs of the script
    lock,    \* .lock
    reqs, edits, faults

vars == <<priv, meta, imds, req, card, hand, record, sync, lock, reqs, edits, faults>>
panel == <<priv, meta, imds, req, reqs, edits>>
guest == <<card, hand, record, sync, lock>>

List == [known: BOOLEAN, ips: SUBSET Addr]
Unknown == [known |-> FALSE, ips |-> {}]
NoReq == [pc |-> "idle", todo |-> {}, some |-> FALSE, ips |-> {}, etag |-> 0, other |-> 0]
NoSync == [pc |-> "off", want |-> {}, have |-> {}, todo |-> {}, managed |-> {}]

TypeOK ==
    /\ priv \in [Addr -> {"absent", "bare", "bound"}]
    /\ meta \in [list: List, other: 0..MaxEdits, etag: 0..(MaxEdits + MaxReqs)] /\ imds \in List
    /\ req \in [Request -> [pc: {"idle", "create", "bind", "unbind", "delete", "read", "get", "write"},
                            todo: SUBSET Addr, some: BOOLEAN, ips: SUBSET Addr,
                            etag: 0..(MaxEdits + MaxReqs), other: 0..MaxEdits]]
    /\ card \subseteq Addr /\ hand \subseteq Addr /\ record \subseteq Addr
    /\ sync \in [Sync -> [pc: {"off", "lock", "add", "del"}, want: SUBSET Addr,
                          have: SUBSET Addr, todo: SUBSET Addr, managed: SUBSET Addr]]
    /\ lock \in SUBSET Sync
    /\ reqs \in 0..MaxReqs /\ edits \in 0..MaxEdits /\ faults \in 0..MaxFaults
    /\ Cardinality({a \in Addr : priv[a] # "absent"}) <= Room
    /\ \A a \in Addr : priv[a] = "bare" /\ "oracle" \notin Faults => \E r \in Request : a \in req[r].todo

Init ==
    /\ priv = [a \in Addr |-> "absent"] /\ meta = [list |-> Unknown, other |-> 0, etag |-> 0]
    /\ imds = Unknown /\ req = [r \in Request |-> NoReq]
    /\ card = {} /\ hand = {} /\ record = {} /\ sync = [s \in Sync |-> NoSync] /\ lock = {}
    /\ reqs = 0 /\ edits = 0 /\ faults = 0

Fault(kind) == kind \in Faults /\ faults < MaxFaults /\ faults' = faults + 1
NoFault == UNCHANGED faults
Present == {a \in Addr : priv[a] # "absent"}
Goes(r, pc) == req' = [req EXCEPT ![r].pc = pc]
EndsReq(r) == req' = [req EXCEPT ![r] = NoReq]

----------------------------------------------------------------------------
(* Requests *)

Begins(r) ==
    /\ req[r].pc = "idle" /\ reqs < MaxReqs /\ reqs' = reqs + 1
    /\ Apart => \A q \in Request : req[q].pc = "idle"
    /\ UNCHANGED <<priv, meta, imds, edits, faults>> /\ UNCHANGED guest

\* attach_multi_ips: there must be room for all of them before the first is made.
Attach(r) ==
    /\ Begins(r)
    /\ \E ips \in (SUBSET Addr) \ {{}} :
          /\ \A a \in ips : priv[a] = "absent"
          /\ Cardinality(ips) <= Room - Cardinality(Present)
          /\ req' = [req EXCEPT ![r] = [NoReq EXCEPT !.pc = "create", !.todo = ips]]

\* detach_multi_ips: of this instance and made by the panel
Detach(r) ==
    /\ Begins(r)
    /\ \E ips \in (SUBSET Present) \ {{}} :
          req' = [req EXCEPT ![r] = [NoReq EXCEPT !.pc = "unbind", !.todo = ips]]

\* install_multi_ip_sync writes the list before it runs the script
Install(r) == Begins(r) /\ req' = [req EXCEPT ![r] = [NoReq EXCEPT !.pc = "read"]]

\* The first error ends the loop; the list is written if something was changed.
Stops(r) == IF req[r].some THEN Goes(r, "read") ELSE EndsReq(r)
Next1(r, a, pc) ==
    req' = [req EXCEPT ![r].some = TRUE, ![r].todo = @ \ {a},
                       ![r].pc = IF req[r].todo = {a} THEN "read" ELSE pc]

Create(r, a) ==
    /\ req[r].pc = "create" /\ a \in req[r].todo
    /\ \/ /\ priv[a] = "absent" /\ Cardinality(Present) < Room /\ NoFault /\ Goes(r, "bind")
          /\ priv' = [priv EXCEPT ![a] = "bare"]
       \/ /\ (Cardinality(Present) >= Room \/ priv[a] # "absent") /\ NoFault
          /\ Stops(r) /\ UNCHANGED priv
       \/ Fault("oracle") /\ Stops(r) /\ UNCHANGED priv
    /\ UNCHANGED <<meta, imds, reqs, edits>> /\ UNCHANGED guest

\* A private address whose binding fails is deleted again, if that can be done.
Bind(r, a) ==
    /\ req[r].pc = "bind" /\ a \in req[r].todo /\ priv[a] = "bare"
    /\ \/ NoFault /\ priv' = [priv EXCEPT ![a] = "bound"] /\ Next1(r, a, "create")
       \/ /\ Fault("oracle") /\ Stops(r)
          /\ priv' = [priv EXCEPT ![a] = "absent"] \/ UNCHANGED priv
    /\ UNCHANGED <<meta, imds, reqs, edits>> /\ UNCHANGED guest

Unbind(r, a) ==
    /\ req[r].pc = "unbind" /\ a \in req[r].todo
    /\ \/ /\ NoFault /\ Goes(r, "delete")
          /\ priv' = [priv EXCEPT ![a] = IF @ = "bound" THEN "bare" ELSE @]
       \/ Fault("oracle") /\ Stops(r) /\ UNCHANGED priv
    /\ UNCHANGED <<meta, imds, reqs, edits>> /\ UNCHANGED guest

Delete(r, a) ==
    /\ req[r].pc = "delete" /\ a \in req[r].todo
    /\ \/ priv[a] = "bare" /\ NoFault /\ priv' = [priv EXCEPT ![a] = "absent"] /\ Next1(r, a, "unbind")
       \/ priv[a] = "absent" /\ NoFault /\ UNCHANGED priv /\ Stops(r)
       \/ Fault("oracle") /\ Stops(r) /\ UNCHANGED priv
    /\ UNCHANGED <<meta, imds, reqs, edits>> /\ UNCHANGED guest

\* publish_secondary_ips: the addresses, then the metadata and its etag, then the
\* whole metadata again, if the etag is still that one
PubRead(r) ==
    /\ req[r].pc = "read"
    /\ \/ NoFault /\ req' = [req EXCEPT ![r].pc = "get", ![r].ips = Present]
       \/ Fault("oracle") /\ EndsReq(r)
    /\ UNCHANGED <<priv, meta, imds, reqs, edits>> /\ UNCHANGED guest

PubGet(r) ==
    /\ req[r].pc = "get"
    /\ \/ /\ NoFault
          /\ IF meta.list = [known |-> TRUE, ips |-> req[r].ips] THEN EndsReq(r)
             ELSE req' = [req EXCEPT ![r].pc = "write", ![r].etag = meta.etag, ![r].other = meta.other]
       \/ Fault("oracle") /\ EndsReq(r)
    /\ UNCHANGED <<priv, meta, imds, reqs, edits>> /\ UNCHANGED guest

PubWrite(r) ==
    /\ req[r].pc = "write" /\ EndsReq(r)
    /\ \/ /\ NoFault
          /\ meta' = IF meta.etag = req[r].etag
                     THEN [list |-> [known |-> TRUE, ips |-> req[r].ips], other |-> req[r].other,
                           etag |-> meta.etag + 1]
                     ELSE meta
       \/ Fault("oracle") /\ UNCHANGED meta
    /\ UNCHANGED <<priv, imds, reqs, edits>> /\ UNCHANGED guest

\* Somebody changes another key of the metadata.
Edit ==
    /\ edits < MaxEdits /\ edits' = edits + 1
    /\ meta' = [meta EXCEPT !.other = @ + 1, !.etag = @ + 1]
    /\ UNCHANGED <<priv, imds, req, reqs, faults>> /\ UNCHANGED guest

Propagate ==
    /\ imds # meta.list /\ imds' = meta.list
    /\ UNCHANGED <<priv, meta, req, reqs, edits, faults>> /\ UNCHANGED guest

----------------------------------------------------------------------------
(* The script *)

\* Without a list, or with one that cannot be read, nothing is done; waiting for it
\* needs no lock.
Read(s) ==
    /\ sync[s].pc = "off" /\ imds.known /\ sync' = [sync EXCEPT ![s] = [NoSync EXCEPT !.pc = "lock", !.want = imds.ips]]
    /\ UNCHANGED <<card, hand, record, lock, faults>> /\ UNCHANGED panel

Lock(s) ==
    /\ sync[s].pc = "lock" /\ lock = {} /\ lock' = {s}
    /\ sync' = [sync EXCEPT ![s].pc = "add", ![s].have = card, ![s].managed = record,
                              ![s].todo = sync[s].want \ card]
    /\ UNCHANGED <<card, hand, record, faults>> /\ UNCHANGED panel

\* The ip command fails when the address is there; then it is not the script's.
Add(s, a) ==
    /\ sync[s].pc = "add" /\ a \in sync[s].todo
    /\ \/ /\ a \notin card /\ NoFault /\ card' = card \cup {a}
          /\ sync' = [sync EXCEPT ![s].todo = @ \ {a}, ![s].managed = @ \cup {a}]
       \/ /\ (a \in card /\ NoFault) \/ Fault("ip")
          /\ sync' = [sync EXCEPT ![s].todo = @ \ {a}] /\ UNCHANGED card
    /\ UNCHANGED <<hand, record, lock>> /\ UNCHANGED panel

Added(s) ==
    /\ sync[s].pc = "add" /\ sync[s].todo = {}
    /\ sync' = [sync EXCEPT ![s].pc = "del", ![s].todo = sync[s].managed \ sync[s].want]
    /\ UNCHANGED <<card, hand, record, lock, faults>> /\ UNCHANGED panel

\* What it has added itself and is not in the list any more; it stays in the record
\* until it is gone.
Del(s, a) ==
    /\ sync[s].pc = "del" /\ a \in sync[s].todo
    /\ \/ /\ NoFault /\ card' = IF a \in sync[s].have THEN card \ {a} ELSE card
          /\ sync' = [sync EXCEPT ![s].todo = @ \ {a}, ![s].managed = @ \ {a}]
       \/ /\ Fault("ip") /\ a \in sync[s].have /\ UNCHANGED card
          /\ sync' = [sync EXCEPT ![s].todo = @ \ {a}]
    /\ UNCHANGED <<hand, record, lock>> /\ UNCHANGED panel

Save(s) ==
    /\ sync[s].pc = "del" /\ sync[s].todo = {}
    /\ record' = sync[s].managed /\ lock' = {} /\ sync' = [sync EXCEPT ![s] = NoSync]
    /\ UNCHANGED <<card, hand, faults>> /\ UNCHANGED panel

----------------------------------------------------------------------------
(* The instance *)

\* An address is configured by hand that the script does not have.
ByHand(a) ==
    /\ a \notin card \cup record /\ (\A s \in Sync : a \notin sync[s].managed) /\ Fault("admin")
    /\ card' = card \cup {a} /\ hand' = hand \cup {a}
    /\ UNCHANGED <<record, sync, lock>> /\ UNCHANGED panel

\* The file system outlives a reboot, and what was configured by hand comes back.
Reboot ==
    /\ Fault("reboot") /\ card' = hand /\ sync' = [s \in Sync |-> NoSync] /\ lock' = {}
    /\ UNCHANGED <<hand, record>> /\ UNCHANGED panel

\* A run is killed, and its lock with it: the connection of the installation breaks.
Kill(s) ==
    /\ sync[s].pc # "off" /\ Fault("kill")
    /\ sync' = [sync EXCEPT ![s] = NoSync] /\ lock' = lock \ {s}
    /\ UNCHANGED <<card, hand, record>> /\ UNCHANGED panel

Asks(r) == PubRead(r) \/ PubGet(r) \/ PubWrite(r)
           \/ \E a \in Addr : Create(r, a) \/ Bind(r, a) \/ Unbind(r, a) \/ Delete(r, a)
Runs(s) == Read(s) \/ Lock(s) \/ Added(s) \/ Save(s) \/ \E a \in Addr : Add(s, a) \/ Del(s, a)

Next ==
    \/ \E r \in Request : Attach(r) \/ Detach(r) \/ Install(r) \/ Asks(r)
    \/ \E s \in Sync : Runs(s) \/ Kill(s)
    \/ \E a \in Addr : ByHand(a)
    \/ Edit \/ Propagate \/ Reboot

Spec == Init /\ [][Next]_vars

\* Requests go on, the list arrives, and the timer runs the script every minute.
FairSpec == Spec /\ (\A r \in Request : WF_vars(Asks(r))) /\ WF_vars(Propagate)
                 /\ (\A s \in Sync : WF_vars(Runs(s)) /\ SF_vars(Lock(s)))

----------------------------------------------------------------------------
(* Properties *)

\* The script never removes an address that it has not added: neither in a run nor
\* by writing it into its record.
ByHandKept == \A a \in hand : a \in card'

\* Between runs every address the script has put on the card is in its record, so
\* that it can be removed: runs that overlap do not overwrite each other's record.
RecordComplete == lock = {} => card \ hand \subseteq record

\* The write of the list does not undo what others change in the metadata meanwhile.
OthersKept == meta'.other >= meta.other

\* When nothing happens any more, the card has the addresses of the list and those
\* configured by hand, whatever failed or was read late on the way. (CopiesAgree of MCEnds;
\* a run that is killed refutes it.)
CardRight == ~imds.known \/ card = hand \cup imds.ips
CardFollows == <>[]CardRight

\* When the requests are over, the list is the addresses that Oracle has.
\* TLC refutes it for requests that overlap: a refused write is not made again.
ListFollows == <>[](~meta.list.known \/ meta.list.ips = Present)
=============================================================================
