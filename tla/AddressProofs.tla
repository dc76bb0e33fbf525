---------------------------- MODULE AddressProofs ----------------------------
(***************************************************************************)
(* Theorems about the addresses in the guest and the rotation of public    *)
(* addresses, and those that take in what CloudProofs says of the rest.    *)
(***************************************************************************)
EXTENDS CloudProofs

------------------------------------------------------------------------------
(* Addresses in the guest *)

Listing(c) == [pc: {"idle", "create", "bind", "unbind", "delete", "read", "get", "write"},
               todo: SUBSET c.addrs, some: {TRUE, FALSE}, ips: SUBSET c.addrs,
               etag: Nat, other: Nat]

\* What a request has read of the metadata is what there is, as long as the etag is the same.
PublishHold(c) ==
    /\ req \in [c.requests -> Listing(c)]
    /\ meta \in [list: Guests(c)!List, other: Nat, etag: Nat]
    /\ \A r \in c.requests : req[r].pc = "write" =>
          /\ req[r].etag <= meta.etag
          /\ req[r].etag = meta.etag => req[r].other = meta.other

LEMMA PublishInit ==
    ASSUME NEW c, Guests(c)!Init
    PROVE  PublishHold(c)
<1>1. Guests(c)!NoReq \in Listing(c) /\ Guests(c)!NoReq.pc = "idle"
  BY DEF Guests!NoReq, Listing
<1>2. /\ meta = [list |-> Guests(c)!Unknown, other |-> 0, etag |-> 0]
      /\ req = [r \in c.requests |-> Guests(c)!NoReq]
  BY DEF Guests!Init
<1>3. Guests(c)!Unknown \in Guests(c)!List
  BY DEF Guests!Unknown, Guests!List
<1> QED BY <1>1, <1>2, <1>3 DEF PublishHold

\* A step of a request changes the request, and the metadata when it writes.
LEMMA PublishMoves ==
    ASSUME NEW c, PublishHold(c), NEW r \in c.requests,
           \/ Guests(c)!Attach(r) \/ Guests(c)!Detach(r) \/ Guests(c)!Install(r)
           \/ Guests(c)!Asks(r)
    PROVE  /\ req' \in [c.requests -> Listing(c)]
           /\ \A q \in c.requests \ {r} : req'[q] = req[q]
           /\ \/ req'[r].pc # "write" /\ meta' = meta
              \/ /\ req'[r].pc = "write" /\ meta' = meta
                 /\ \/ req'[r].etag = meta.etag /\ req'[r].other = meta.other
                    \/ /\ req[r].pc = "write" /\ req'[r].etag = req[r].etag
                       /\ req'[r].other = req[r].other
              \/ /\ req'[r].pc # "write" /\ req[r].pc = "write" /\ meta.etag = req[r].etag
                 /\ meta' \in [list: Guests(c)!List, other: {req[r].other}, etag: {meta.etag + 1}]
<1> DEFINE after(e) == /\ req' = [req EXCEPT ![r] = e] /\ e \in Listing(c)
<1>1. req \in [c.requests -> Listing(c)] /\ meta.etag \in Nat /\ meta.other \in Nat
  BY DEF PublishHold
<1>2. Guests(c)!NoReq \in Listing(c) /\ Guests(c)!NoReq.pc = "idle"
  BY DEF Guests!NoReq, Listing
<1>3. Guests(c)!Present \subseteq c.addrs
  BY DEF Guests!Present
<1>4. req[r] \in Listing(c)
  BY <1>1
<1>5. ASSUME NEW e, after(e), e.pc # "write", meta' = meta
      PROVE  /\ req' \in [c.requests -> Listing(c)]
             /\ \A q \in c.requests \ {r} : req'[q] = req[q]
             /\ req'[r].pc # "write" /\ meta' = meta
  BY <1>1, <1>5
<1>6. ASSUME Guests(c)!EndsReq(r)
      PROVE  after(Guests(c)!NoReq) /\ Guests(c)!NoReq.pc # "write"
  BY <1>2, <1>6 DEF Guests!EndsReq
<1>7. ASSUME NEW p \in {"create", "bind", "unbind", "delete", "read"}, Guests(c)!Goes(r, p)
      PROVE  after([req[r] EXCEPT !.pc = p]) /\ [req[r] EXCEPT !.pc = p].pc # "write"
  <2>1. req' = [req EXCEPT ![r] = [req[r] EXCEPT !.pc = p]]
    BY <1>7, <1>1 DEF Guests!Goes
  <2>2. [req[r] EXCEPT !.pc = p] \in Listing(c) /\ [req[r] EXCEPT !.pc = p].pc = p
    BY <1>4, <1>7, Zenon DEF Listing
  <2> QED BY <2>1, <2>2, <1>7
<1>8. ASSUME Guests(c)!Stops(r)
      PROVE  \E e : after(e) /\ e.pc # "write"
  <2>1. CASE req[r].some
    <3>1. Guests(c)!Goes(r, "read")
      BY <1>8, <2>1 DEF Guests!Stops
    <3> QED BY <3>1, <1>7, Zenon
  <2>2. CASE ~req[r].some
    <3>1. Guests(c)!EndsReq(r)
      BY <1>8, <2>2 DEF Guests!Stops
    <3> QED BY <3>1, <1>6
  <2> QED BY <2>1, <2>2
<1>9. ASSUME NEW a \in c.addrs, NEW p \in {"create", "unbind"}, Guests(c)!Next1(r, a, p)
      PROVE  \E e : after(e) /\ e.pc # "write"
  <2> DEFINE e == [req[r] EXCEPT !.some = TRUE, !.todo = req[r].todo \ {a},
                                 !.pc = IF req[r].todo = {a} THEN "read" ELSE p]
  <2>1. req' = [req EXCEPT ![r] = e]
    BY <1>9, <1>1, <1>4, Zenon DEF Guests!Next1, Listing
  <2>2. req[r].todo \ {a} \in SUBSET c.addrs
    BY <1>4, Zenon DEF Listing
  <2>3. e \in Listing(c) /\ e.pc # "write"
    BY <1>4, <1>9, <2>2, Zenon DEF Listing
  <2> QED BY <2>1, <2>3, Zenon
<1>10. ASSUME \E e : after(e) /\ e.pc # "write", meta' = meta
       PROVE  /\ req' \in [c.requests -> Listing(c)]
              /\ \A q \in c.requests \ {r} : req'[q] = req[q]
              /\ req'[r].pc # "write" /\ meta' = meta
  <2>1. PICK e : after(e) /\ e.pc # "write"
    BY <1>10, Zenon
  <2> QED BY <2>1, <1>5, <1>10, Zenon
<1>11. CASE Guests(c)!Attach(r)
  <2>1. meta' = meta
    BY <1>11, Zenon DEF Guests!Attach, Guests!Begins
  <2>2. PICK ips \in (SUBSET c.addrs) \ {{}} :
           req' = [req EXCEPT ![r] = [Guests(c)!NoReq EXCEPT !.pc = "create", !.todo = ips]]
    BY <1>11, Zenon DEF Guests!Attach
  <2>3. /\ [Guests(c)!NoReq EXCEPT !.pc = "create", !.todo = ips] \in Listing(c)
        /\ [Guests(c)!NoReq EXCEPT !.pc = "create", !.todo = ips].pc = "create"
    BY <1>2, Zenon DEF Listing
  <2> QED BY <2>1, <2>2, <2>3, <1>5, Zenon
<1>12. CASE Guests(c)!Detach(r)
  <2>1. meta' = meta
    BY <1>12, Zenon DEF Guests!Detach, Guests!Begins
  <2>2. PICK ips \in (SUBSET Guests(c)!Present) \ {{}} :
           req' = [req EXCEPT ![r] = [Guests(c)!NoReq EXCEPT !.pc = "unbind", !.todo = ips]]
    BY <1>12, Zenon DEF Guests!Detach
  <2>3. ips \in SUBSET c.addrs
    BY <2>2, <1>3
  <2>4. /\ [Guests(c)!NoReq EXCEPT !.pc = "unbind", !.todo = ips] \in Listing(c)
        /\ [Guests(c)!NoReq EXCEPT !.pc = "unbind", !.todo = ips].pc = "unbind"
    BY <1>2, <2>3, Zenon DEF Listing
  <2> QED BY <2>1, <2>2, <2>4, <1>5, Zenon
<1>13. CASE Guests(c)!Install(r)
  <2>1. meta' = meta
    BY <1>13 DEF Guests!Install, Guests!Begins
  <2>2. req' = [req EXCEPT ![r] = [Guests(c)!NoReq EXCEPT !.pc = "read"]]
    BY <1>13 DEF Guests!Install
  <2>3. /\ [Guests(c)!NoReq EXCEPT !.pc = "read"] \in Listing(c)
        /\ [Guests(c)!NoReq EXCEPT !.pc = "read"].pc = "read"
    BY <1>2, Zenon DEF Listing
  <2> QED BY <2>1, <2>2, <2>3, <1>5, Zenon
<1>14. CASE \E a \in c.addrs : \/ Guests(c)!Create(r, a) \/ Guests(c)!Bind(r, a)
                               \/ Guests(c)!Unbind(r, a) \/ Guests(c)!Delete(r, a)
  <2>1. PICK a \in c.addrs : \/ Guests(c)!Create(r, a) \/ Guests(c)!Bind(r, a)
                             \/ Guests(c)!Unbind(r, a) \/ Guests(c)!Delete(r, a)
    BY <1>14
  <2>2. meta' = meta
    BY <2>1 DEF Guests!Create, Guests!Bind, Guests!Unbind, Guests!Delete
  <2>3. \/ Guests(c)!Stops(r) \/ Guests(c)!Goes(r, "bind") \/ Guests(c)!Goes(r, "delete")
        \/ Guests(c)!Next1(r, a, "create") \/ Guests(c)!Next1(r, a, "unbind")
    BY <2>1 DEF Guests!Create, Guests!Bind, Guests!Unbind, Guests!Delete
  <2>4. \E e : after(e) /\ e.pc # "write"
    BY <2>3, <1>7, <1>8, <1>9, Zenon
  <2> QED BY <2>2, <2>4, <1>10, Zenon
<1>15. CASE Guests(c)!PubRead(r)
  <2>1. meta' = meta
    BY <1>15 DEF Guests!PubRead
  <2>2. CASE req' = [req EXCEPT ![r].pc = "get", ![r].ips = Guests(c)!Present]
    <3> DEFINE e == [req[r] EXCEPT !.pc = "get", !.ips = Guests(c)!Present]
    <3>1. req' = [req EXCEPT ![r] = e]
      BY <2>2, <1>1, Zenon
    <3>2. e \in Listing(c) /\ e.pc # "write"
      BY <1>4, <1>3, Zenon DEF Listing
    <3> QED BY <3>1, <3>2, <2>1, <1>5, Zenon
  <2>3. CASE Guests(c)!EndsReq(r)
    BY <2>1, <2>3, <1>5, <1>6
  <2> QED BY <1>15, <2>2, <2>3 DEF Guests!PubRead
<1>16. CASE Guests(c)!PubGet(r)
  <2>1. meta' = meta
    BY <1>16 DEF Guests!PubGet
  <2>2. CASE req' = [req EXCEPT ![r].pc = "write", ![r].etag = meta.etag, ![r].other = meta.other]
    <3> DEFINE e == [req[r] EXCEPT !.pc = "write", !.etag = meta.etag, !.other = meta.other]
    <3>1. req' = [req EXCEPT ![r] = e]
      BY <2>2, <1>1, Zenon
    <3>2. e \in Listing(c) /\ e.pc = "write" /\ e.etag = meta.etag /\ e.other = meta.other
      BY <1>1, <1>4, Zenon DEF Listing
    <3> HIDE DEF e
    <3> QED BY <3>1, <3>2, <2>1, <1>1
  <2>3. CASE Guests(c)!EndsReq(r)
    BY <2>1, <2>3, <1>5, <1>6
  <2> QED BY <1>16, <2>2, <2>3 DEF Guests!PubGet
<1>17. CASE Guests(c)!PubWrite(r)
  <2>1. Guests(c)!EndsReq(r) /\ req[r].pc = "write"
    BY <1>17 DEF Guests!PubWrite
  <2>2. /\ req' \in [c.requests -> Listing(c)] /\ req'[r].pc # "write"
        /\ \A q \in c.requests \ {r} : req'[q] = req[q]
    BY <2>1, <1>6, <1>1, <1>2
  <2>3. \/ meta' = meta
        \/ /\ meta.etag = req[r].etag
           /\ meta' = [list |-> [known |-> TRUE, ips |-> req[r].ips], other |-> req[r].other,
                       etag |-> meta.etag + 1]
    BY <1>17 DEF Guests!PubWrite
  <2>4. [known |-> TRUE, ips |-> req[r].ips] \in Guests(c)!List
    BY <1>4, Zenon DEF Listing, Guests!List
  <2>5. \/ meta' = meta
        \/ /\ meta.etag = req[r].etag
           /\ meta' \in [list: Guests(c)!List, other: {req[r].other}, etag: {meta.etag + 1}]
    <3> DEFINE xs == [known |-> TRUE, ips |-> req[r].ips]
    <3>1. [list |-> xs, other |-> req[r].other, etag |-> meta.etag + 1]
             \in [list: Guests(c)!List, other: {req[r].other}, etag: {meta.etag + 1}]
      <4> HIDE DEF xs
      <4> QED BY <2>4 DEF xs
    <3> QED BY <2>3, <3>1, Zenon
  <2> QED BY <2>1, <2>2, <2>5
<1> QED BY <1>11, <1>12, <1>13, <1>14, <1>15, <1>16, <1>17 DEF Guests!Asks

\* Everything else leaves the requests alone, and the metadata but for an edit.
LEMMA OthersPublish ==
    ASSUME NEW c, Guests(c)!Next,
           ~ \E r \in c.requests : \/ Guests(c)!Attach(r) \/ Guests(c)!Detach(r)
                                   \/ Guests(c)!Install(r) \/ Guests(c)!Asks(r)
    PROVE  /\ req' = req
           /\ \/ meta' = meta
              \/ meta' = [meta EXCEPT !.other = @ + 1, !.etag = @ + 1]
<1>1. ASSUME NEW s \in c.syncs, Guests(c)!Runs(s) \/ Guests(c)!Kill(s)
      PROVE  UNCHANGED Guests(c)!panel
  BY <1>1, Zenon DEF Guests!Runs, Guests!Kill, Guests!Read, Guests!Lock, Guests!Add, Guests!Added,
     Guests!Del, Guests!Save
<1>2. ASSUME NEW a \in c.addrs, Guests(c)!ByHand(a)
      PROVE  UNCHANGED Guests(c)!panel
  BY <1>2 DEF Guests!ByHand
<1>3. Guests(c)!Reboot => UNCHANGED Guests(c)!panel
  BY DEF Guests!Reboot
<1>4. UNCHANGED Guests(c)!panel => req' = req /\ meta' = meta
  BY DEF Guests!panel
<1>5. Guests(c)!Propagate => req' = req /\ meta' = meta
  BY DEF Guests!Propagate
<1>6. Guests(c)!Edit => req' = req /\ meta' = [meta EXCEPT !.other = @ + 1, !.etag = @ + 1]
  BY DEF Guests!Edit
<1> QED BY <1>1, <1>2, <1>3, <1>4, <1>5, <1>6 DEF Guests!Next

LEMMA PublishNext ==
    ASSUME NEW c, PublishHold(c), Guests(c)!Next
    PROVE  PublishHold(c)' /\ Guests(c)!OthersKept
<1>1. /\ req \in [c.requests -> Listing(c)] /\ meta.etag \in Nat /\ meta.other \in Nat
      /\ \A r \in c.requests : req[r].etag \in Nat /\ req[r].other \in Nat
  BY Zenon DEF PublishHold, Listing
<1>2. CASE \E r \in c.requests : \/ Guests(c)!Attach(r) \/ Guests(c)!Detach(r)
                                 \/ Guests(c)!Install(r) \/ Guests(c)!Asks(r)
  <2>1. PICK r \in c.requests : \/ Guests(c)!Attach(r) \/ Guests(c)!Detach(r)
                                \/ Guests(c)!Install(r) \/ Guests(c)!Asks(r)
    BY <1>2
  <2>2. /\ req' \in [c.requests -> Listing(c)]
        /\ \A q \in c.requests \ {r} : req'[q] = req[q]
        /\ \/ req'[r].pc # "write" /\ meta' = meta
           \/ /\ req'[r].pc = "write" /\ meta' = meta
              /\ \/ req'[r].etag = meta.etag /\ req'[r].other = meta.other
                 \/ /\ req[r].pc = "write" /\ req'[r].etag = req[r].etag
                    /\ req'[r].other = req[r].other
           \/ /\ req'[r].pc # "write" /\ req[r].pc = "write" /\ meta.etag = req[r].etag
              /\ meta' \in [list: Guests(c)!List, other: {req[r].other}, etag: {meta.etag + 1}]
    BY <2>1, PublishMoves
  <2>3. meta'.other = meta.other /\ meta'.etag \in Nat /\ meta.etag <= meta'.etag
        /\ (meta' # meta => meta'.etag = meta.etag + 1)
        /\ meta' \in [list: Guests(c)!List, other: Nat, etag: Nat]
    BY <1>1, <2>2 DEF PublishHold
  <2>4. ASSUME NEW q \in c.requests, req'[q].pc = "write"
        PROVE  /\ req'[q].etag <= meta'.etag
               /\ req'[q].etag = meta'.etag => req'[q].other = meta'.other
    <3>1. CASE q = r
      BY <1>1, <2>2, <2>4, <3>1 DEF PublishHold
    <3>2. CASE q # r
      BY <1>1, <2>2, <2>3, <2>4, <3>2 DEF PublishHold
    <3> QED BY <3>1, <3>2
  <2> QED BY <1>1, <2>2, <2>3, <2>4 DEF PublishHold, Guests!OthersKept
<1>3. CASE ~ \E r \in c.requests : \/ Guests(c)!Attach(r) \/ Guests(c)!Detach(r)
                                   \/ Guests(c)!Install(r) \/ Guests(c)!Asks(r)
  <2>1. /\ req' = req
        /\ \/ meta' = meta
           \/ meta' = [meta EXCEPT !.other = @ + 1, !.etag = @ + 1]
    BY <1>3, OthersPublish
  <2>2. CASE meta' = meta
    BY <1>1, <2>1, <2>2 DEF PublishHold, Guests!OthersKept
  <2>3. CASE meta' = [meta EXCEPT !.other = @ + 1, !.etag = @ + 1]
    <3>1. meta \in [list: Guests(c)!List, other: Nat, etag: Nat]
      BY DEF PublishHold
    <3>2. meta' = [list |-> meta.list, other |-> meta.other + 1, etag |-> meta.etag + 1]
      BY <2>3, <3>1, Zenon
    <3>3. meta' \in [list: Guests(c)!List, other: Nat, etag: Nat]
      BY <3>1, <3>2
    <3> QED BY <1>1, <2>1, <3>2, <3>3 DEF PublishHold, Guests!OthersKept
  <2> QED BY <2>1, <2>2, <2>3
<1> QED BY <1>2, <1>3

\* The runs of the script are records of these fields.
RunsTyped(c) ==
    /\ sync = [s \in c.syncs |-> sync[s]]
    /\ \A s \in c.syncs : DOMAIN sync[s] = {"pc", "want", "have", "todo", "managed"}

\* What is configured by hand the script has neither on record nor in a run.
HandsOff(c) ==
    /\ RunsTyped(c)
    /\ hand \subseteq card /\ hand \cap record = {}
    /\ \A s \in c.syncs : /\ hand \cap sync[s].managed = {}
                          /\ sync[s].pc = "del" => sync[s].todo \subseteq sync[s].managed

\* What runs under the lock knows of every address that the script has put on the card.
Knows(s) ==
    /\ card \ hand \subseteq sync[s].managed
    /\ card \cap (sync[s].managed \ sync[s].have) \subseteq sync[s].want
    /\ sync[s].pc = "add" => sync[s].todo \subseteq sync[s].want
    /\ sync[s].pc = "del" => sync[s].todo \cap sync[s].want = {}

OnRecord(c) ==
    /\ RunsTyped(c)
    /\ \A s \in c.syncs : s \in guestLock <=> sync[s].pc \in {"add", "del"}
    /\ guestLock = {} \/ \E s \in c.syncs : guestLock = {s}
    /\ \A s \in c.syncs : s \in guestLock => Knows(s)
    /\ guestLock = {} => card \ hand \subseteq record

LEMMA GuestInit ==
    ASSUME NEW c, Guests(c)!Init
    PROVE  HandsOff(c) /\ OnRecord(c)
<1>1. /\ sync = [s \in c.syncs |-> Guests(c)!NoSync]
      /\ card = {} /\ hand = {} /\ record = {} /\ guestLock = {}
  BY DEF Guests!Init
<1> QED BY <1>1 DEF HandsOff, OnRecord, RunsTyped, Guests!NoSync

\* The steps of a run, field by field.
Stay(s, pc) ==
    /\ sync[s].pc = pc /\ sync'[s].pc = pc
    /\ sync'[s].want = sync[s].want /\ sync'[s].have = sync[s].have
    /\ record' = record /\ guestLock' = guestLock

Reads(s) ==
    /\ sync[s].pc = "off" /\ sync'[s].pc = "lock" /\ sync'[s].managed = {}
    /\ card' = card /\ record' = record /\ guestLock' = guestLock
Locks(s) ==
    /\ sync[s].pc = "lock" /\ sync'[s].pc = "add" /\ guestLock = {} /\ guestLock' = {s}
    /\ sync'[s].want = sync[s].want /\ sync'[s].have = card /\ sync'[s].managed = record
    /\ sync'[s].todo = sync[s].want \ card /\ card' = card /\ record' = record
Adds(s, a) ==
    /\ Stay(s, "add") /\ a \in sync[s].todo /\ sync'[s].todo = sync[s].todo \ {a}
    /\ \/ a \notin card /\ card' = card \cup {a} /\ sync'[s].managed = sync[s].managed \cup {a}
       \/ card' = card /\ sync'[s].managed = sync[s].managed
Turns(s) ==
    /\ sync[s].pc = "add" /\ sync'[s].pc = "del"
    /\ sync'[s].want = sync[s].want /\ sync'[s].have = sync[s].have
    /\ sync'[s].managed = sync[s].managed /\ sync'[s].todo = sync[s].managed \ sync[s].want
    /\ card' = card /\ record' = record /\ guestLock' = guestLock
Dels(s, a) ==
    /\ Stay(s, "del") /\ a \in sync[s].todo /\ sync'[s].todo = sync[s].todo \ {a}
    /\ \/ /\ card' = IF a \in sync[s].have THEN card \ {a} ELSE card
          /\ sync'[s].managed = sync[s].managed \ {a}
       \/ card' = card /\ sync'[s].managed = sync[s].managed
Saves(s) ==
    /\ sync[s].pc = "del" /\ sync'[s].pc = "off" /\ sync'[s].managed = {}
    /\ card' = card /\ record' = sync[s].managed /\ guestLock' = {}
Dies(s) ==
    /\ sync'[s].pc = "off" /\ sync'[s].managed = {}
    /\ card' = card /\ record' = record /\ guestLock' = guestLock \ {s}

LEMMA RunMoves ==
    ASSUME NEW c, RunsTyped(c), NEW s \in c.syncs, Guests(c)!Runs(s) \/ Guests(c)!Kill(s)
    PROVE  /\ RunsTyped(c)' /\ hand' = hand
           /\ \A q \in c.syncs \ {s} : sync'[q] = sync[q]
           /\ \/ Reads(s) \/ Locks(s) \/ Turns(s) \/ Saves(s)
              \/ Guests(c)!Kill(s) /\ Dies(s)
              \/ \E a \in c.addrs : Adds(s, a) \/ Dels(s, a)
<1> DEFINE e == sync[s]
           whole(x) == DOMAIN x = {"pc", "want", "have", "todo", "managed"}
<1>1. whole(e) /\ sync = [q \in c.syncs |-> sync[q]]
  BY DEF RunsTyped
<1>2. ASSUME NEW x, whole(x), sync' = [sync EXCEPT ![s] = x]
      PROVE  /\ RunsTyped(c)' /\ sync'[s] = x
             /\ \A q \in c.syncs \ {s} : sync'[q] = sync[q]
  <2> HIDE DEF whole
  <2>1. sync' = [q \in c.syncs |-> IF q = s THEN x ELSE sync[q]]
    BY <1>1, <1>2
  <2>2. \A q \in c.syncs : whole(sync'[q])
    BY <2>1, <1>2 DEF RunsTyped, whole
  <2> QED BY <2>1, <2>2, Zenon DEF RunsTyped, whole
<1>3. CASE Guests(c)!Read(s)
  <2> DEFINE x == [Guests(c)!NoSync EXCEPT !.pc = "lock", !.want = imds.ips]
  <2>1. /\ sync[s].pc = "off" /\ sync' = [sync EXCEPT ![s] = x]
        /\ hand' = hand /\ card' = card /\ record' = record /\ guestLock' = guestLock
    BY <1>3 DEF Guests!Read
  <2>2. whole(x) /\ x.pc = "lock" /\ x.managed = {}
    BY DEF Guests!NoSync
  <2> HIDE DEF x
  <2> QED BY <2>1, <2>2, <1>2, Zenon DEF Reads
<1>4. CASE Guests(c)!Lock(s)
  <2> DEFINE x == [e EXCEPT !.pc = "add", !.have = card, !.managed = record, !.todo = e.want \ card]
  <2>1. /\ e.pc = "lock" /\ guestLock = {} /\ guestLock' = {s}
        /\ hand' = hand /\ card' = card /\ record' = record
    BY <1>4 DEF Guests!Lock
  <2>2. sync' = [sync EXCEPT ![s] = x]
    BY <1>4, <1>1, Zenon DEF Guests!Lock
  <2>3. /\ whole(x) /\ x.pc = "add" /\ x.have = card /\ x.managed = record
        /\ x.todo = e.want \ card /\ x.want = e.want
    BY <1>1
  <2> HIDE DEF x
  <2> QED BY <2>1, <2>2, <2>3, <1>2, Zenon DEF Locks
<1>5. CASE Guests(c)!Added(s)
  <2> DEFINE x == [e EXCEPT !.pc = "del", !.todo = e.managed \ e.want]
  <2>1. /\ e.pc = "add" /\ guestLock' = guestLock
        /\ hand' = hand /\ card' = card /\ record' = record
    BY <1>5 DEF Guests!Added
  <2>2. sync' = [sync EXCEPT ![s] = x]
    BY <1>5, <1>1, Zenon DEF Guests!Added
  <2>3. /\ whole(x) /\ x.pc = "del" /\ x.have = e.have /\ x.managed = e.managed
        /\ x.todo = e.managed \ e.want /\ x.want = e.want
    BY <1>1
  <2> HIDE DEF x
  <2> QED BY <2>1, <2>2, <2>3, <1>2, Zenon DEF Turns
<1>6. CASE Guests(c)!Save(s)
  <2>1. /\ e.pc = "del" /\ guestLock' = {} /\ sync' = [sync EXCEPT ![s] = Guests(c)!NoSync]
        /\ hand' = hand /\ card' = card /\ record' = e.managed
    BY <1>6 DEF Guests!Save
  <2>2. /\ whole(Guests(c)!NoSync)
        /\ Guests(c)!NoSync.pc = "off" /\ Guests(c)!NoSync.managed = {}
    BY DEF Guests!NoSync
  <2> QED BY <2>1, <2>2, <1>2, Zenon DEF Saves
<1>7. CASE Guests(c)!Kill(s)
  <2>1. /\ sync' = [sync EXCEPT ![s] = Guests(c)!NoSync] /\ guestLock' = guestLock \ {s}
        /\ hand' = hand /\ card' = card /\ record' = record
    BY <1>7 DEF Guests!Kill
  <2>2. /\ whole(Guests(c)!NoSync)
        /\ Guests(c)!NoSync.pc = "off" /\ Guests(c)!NoSync.managed = {}
    BY DEF Guests!NoSync
  <2> QED BY <2>1, <2>2, <1>2, <1>7, Zenon DEF Dies
<1>8. ASSUME NEW a \in c.addrs, Guests(c)!Add(s, a) \/ Guests(c)!Del(s, a)
      PROVE  /\ RunsTyped(c)' /\ hand' = hand
             /\ \A q \in c.syncs \ {s} : sync'[q] = sync[q]
             /\ Adds(s, a) \/ Dels(s, a)
  <2> DEFINE less == [e EXCEPT !.todo = e.todo \ {a}]
             more == [e EXCEPT !.todo = e.todo \ {a}, !.managed = e.managed \cup {a}]
             none == [e EXCEPT !.todo = e.todo \ {a}, !.managed = e.managed \ {a}]
  <2>1. whole(less) /\ whole(more) /\ whole(none)
    BY <1>1
  <2>2. /\ less.pc = e.pc /\ less.want = e.want /\ less.have = e.have
        /\ less.todo = e.todo \ {a} /\ less.managed = e.managed
    BY <1>1
  <2>3. /\ more.pc = e.pc /\ more.want = e.want /\ more.have = e.have
        /\ more.todo = e.todo \ {a} /\ more.managed = e.managed \cup {a}
    BY <1>1
  <2>4. /\ none.pc = e.pc /\ none.want = e.want /\ none.have = e.have
        /\ none.todo = e.todo \ {a} /\ none.managed = e.managed \ {a}
    BY <1>1
  <2>5. hand' = hand /\ record' = record /\ guestLock' = guestLock /\ a \in e.todo
    BY <1>8 DEF Guests!Add, Guests!Del
  <2>6. CASE Guests(c)!Add(s, a)
    <3>1. /\ e.pc = "add"
          /\ \/ /\ a \notin card /\ card' = card \cup {a} /\ sync' = [sync EXCEPT ![s] = more]
             \/ card' = card /\ sync' = [sync EXCEPT ![s] = less]
      BY <2>6, <1>1, Zenon DEF Guests!Add
    <3> HIDE DEF less, more, none
    <3> QED BY <3>1, <2>1, <2>2, <2>3, <2>5, <1>2 DEF Adds, Stay
  <2>7. CASE Guests(c)!Del(s, a)
    <3>1. /\ e.pc = "del"
          /\ \/ /\ card' = IF a \in e.have THEN card \ {a} ELSE card
                /\ sync' = [sync EXCEPT ![s] = none]
             \/ card' = card /\ sync' = [sync EXCEPT ![s] = less]
      BY <2>7, <1>1, Zenon DEF Guests!Del
    <3> HIDE DEF less, more, none
    <3> QED BY <3>1, <2>1, <2>2, <2>4, <2>5, <1>2 DEF Dels, Stay
  <2> QED BY <1>8, <2>6, <2>7
<1> QED BY <1>3, <1>4, <1>5, <1>6, <1>7, <1>8 DEF Guests!Runs

\* What is done outside the script: nothing to it, an address by hand, a reboot.
LEMMA OutsideMoves ==
    ASSUME NEW c, Guests(c)!Next, ~ \E s \in c.syncs : Guests(c)!Runs(s) \/ Guests(c)!Kill(s)
    PROVE  \/ UNCHANGED <<card, hand, record, sync, guestLock>>
           \/ \E a \in c.addrs :
                 /\ a \notin card \cup record /\ \A s \in c.syncs : a \notin sync[s].managed
                 /\ card' = card \cup {a} /\ hand' = hand \cup {a}
                 /\ UNCHANGED <<record, sync, guestLock>>
           \/ /\ card' = hand /\ hand' = hand /\ record' = record /\ guestLock' = {}
              /\ sync' = [s \in c.syncs |-> Guests(c)!NoSync]
<1>1. ASSUME NEW r \in c.requests, \/ Guests(c)!Attach(r) \/ Guests(c)!Detach(r)
                                   \/ Guests(c)!Install(r) \/ Guests(c)!Asks(r)
      PROVE  UNCHANGED Guests(c)!guest
  BY <1>1, Zenon DEF Guests!Attach, Guests!Detach, Guests!Install, Guests!Begins, Guests!Asks,
     Guests!PubRead, Guests!PubGet, Guests!PubWrite, Guests!Create, Guests!Bind,
     Guests!Unbind, Guests!Delete
<1>2. Guests(c)!Propagate \/ Guests(c)!Edit => UNCHANGED Guests(c)!guest
  BY DEF Guests!Propagate, Guests!Edit
<1>3. UNCHANGED Guests(c)!guest => UNCHANGED <<card, hand, record, sync, guestLock>>
  BY DEF Guests!guest
<1>4. ASSUME NEW a \in c.addrs, Guests(c)!ByHand(a)
      PROVE  /\ a \notin card \cup record /\ \A s \in c.syncs : a \notin sync[s].managed
             /\ card' = card \cup {a} /\ hand' = hand \cup {a}
             /\ UNCHANGED <<record, sync, guestLock>>
  BY <1>4 DEF Guests!ByHand
<1>5. Guests(c)!Reboot => /\ card' = hand /\ hand' = hand /\ record' = record /\ guestLock' = {}
                          /\ sync' = [s \in c.syncs |-> Guests(c)!NoSync]
  BY DEF Guests!Reboot
<1> QED BY <1>1, <1>2, <1>3, <1>4, <1>5 DEF Guests!Next

LEMMA AfterReboot ==
    ASSUME NEW c, sync' = [s \in c.syncs |-> Guests(c)!NoSync]
    PROVE  RunsTyped(c)' /\ \A s \in c.syncs : sync'[s].pc = "off" /\ sync'[s].managed = {}
BY DEF RunsTyped, Guests!NoSync

\* Everything but a reboot leaves what was configured by hand, and so does that.
LEMMA HandsNext ==
    ASSUME NEW c, HandsOff(c), Guests(c)!Next
    PROVE  HandsOff(c)' /\ Guests(c)!ByHandKept
<1>1. /\ RunsTyped(c) /\ hand \subseteq card /\ hand \cap record = {}
      /\ \A s \in c.syncs : /\ hand \cap sync[s].managed = {}
                            /\ sync[s].pc = "del" => sync[s].todo \subseteq sync[s].managed
  BY DEF HandsOff
<1>2. CASE \E s \in c.syncs : Guests(c)!Runs(s) \/ Guests(c)!Kill(s)
  <2>1. PICK s \in c.syncs : Guests(c)!Runs(s) \/ Guests(c)!Kill(s)
    BY <1>2
  <2>2. /\ RunsTyped(c)' /\ hand' = hand
        /\ \A q \in c.syncs \ {s} : sync'[q] = sync[q]
    BY <2>1, <1>1, RunMoves
  <2>3. \/ Reads(s) \/ Locks(s) \/ Turns(s) \/ Saves(s) \/ Dies(s)
        \/ \E a \in c.addrs : Adds(s, a) \/ Dels(s, a)
    BY <2>1, <1>1, RunMoves
  <2>4. /\ hand \subseteq card' /\ hand \cap record' = {}
        /\ hand \cap sync'[s].managed = {}
        /\ sync'[s].pc = "del" => sync'[s].todo \subseteq sync'[s].managed
    <3>1. CASE Reads(s)
      BY <3>1, <1>1 DEF Reads
    <3>2. CASE Locks(s)
      BY <3>2, <1>1 DEF Locks
    <3>3. CASE Turns(s)
      BY <3>3, <1>1 DEF Turns
    <3>4. CASE Saves(s)
      BY <3>4, <1>1 DEF Saves
    <3>5. CASE Dies(s)
      BY <3>5, <1>1 DEF Dies
    <3>6. CASE \E a \in c.addrs : Adds(s, a)
      BY <3>6, <1>1 DEF Adds, Stay
    <3>7. CASE \E a \in c.addrs : Dels(s, a)
      BY <3>7, <1>1 DEF Dels, Stay
    <3> QED BY <2>3, <3>1, <3>2, <3>3, <3>4, <3>5, <3>6, <3>7
  <2> QED BY <1>1, <2>2, <2>4 DEF HandsOff, Guests!ByHandKept
<1>3. CASE ~ \E s \in c.syncs : Guests(c)!Runs(s) \/ Guests(c)!Kill(s)
  <2>1. CASE UNCHANGED <<card, hand, record, sync, guestLock>>
    BY <1>1, <2>1, Zenon DEF HandsOff, RunsTyped, Guests!ByHandKept
  <2>2. CASE \E a \in c.addrs :
                /\ a \notin card \cup record /\ \A s \in c.syncs : a \notin sync[s].managed
                /\ card' = card \cup {a} /\ hand' = hand \cup {a}
                /\ UNCHANGED <<record, sync, guestLock>>
    <3>1. RunsTyped(c)'
      BY <1>1, <2>2 DEF RunsTyped
    <3> QED BY <1>1, <2>2, <3>1 DEF HandsOff, Guests!ByHandKept
  <2>3. CASE /\ card' = hand /\ hand' = hand /\ record' = record /\ guestLock' = {}
             /\ sync' = [s \in c.syncs |-> Guests(c)!NoSync]
    BY <1>1, <2>3, AfterReboot DEF HandsOff, Guests!ByHandKept
  <2> QED BY <1>3, <2>1, <2>2, <2>3, OutsideMoves
<1> QED BY <1>2, <1>3

\* Unless runs are killed, runs do not overwrite each other's record.
LEMMA RecordNext ==
    ASSUME NEW c, OnRecord(c), Guests(c)!Next, "kill" \notin c.faults
    PROVE  OnRecord(c)'
<1>1. /\ RunsTyped(c)
      /\ \A s \in c.syncs : s \in guestLock <=> sync[s].pc \in {"add", "del"}
      /\ guestLock = {} \/ \E s \in c.syncs : guestLock = {s}
      /\ \A s \in c.syncs : s \in guestLock => Knows(s)
      /\ guestLock = {} => card \ hand \subseteq record
  BY DEF OnRecord
<1>2. CASE \E s \in c.syncs : Guests(c)!Runs(s) \/ Guests(c)!Kill(s)
  <2>1. PICK s \in c.syncs : Guests(c)!Runs(s) \/ Guests(c)!Kill(s)
    BY <1>2
  <2>2. /\ RunsTyped(c)' /\ hand' = hand
        /\ \A q \in c.syncs \ {s} : sync'[q] = sync[q]
    BY <2>1, <1>1, RunMoves
  <2>3. ~ Guests(c)!Kill(s)
    BY DEF Guests!Kill, Guests!Fault
  <2>4. \/ Reads(s) \/ Locks(s) \/ Turns(s) \/ Saves(s)
        \/ \E a \in c.addrs : Adds(s, a) \/ Dels(s, a)
    BY <2>1, <2>3, <1>1, RunMoves
  <2>5. ASSUME NEW q \in c.syncs \ {s}, guestLock' = guestLock, guestLock = {s} \/ card' = card
        PROVE  /\ q \in guestLock' <=> sync'[q].pc \in {"add", "del"}
               /\ q \in guestLock' => Knows(q)'
    BY <1>1, <2>2, <2>5 DEF Knows
  <2>6. CASE Reads(s)
    BY <2>6, <2>2, <2>5, <1>1 DEF Reads, OnRecord, Knows
  <2>7. CASE Locks(s)
    <3>1. Knows(s)'
      BY <2>7, <2>2, <1>1 DEF Locks, Knows
    <3>2. \A q \in c.syncs \ {s} : q \notin guestLock' /\ sync'[q].pc \notin {"add", "del"}
      BY <2>7, <2>2, <1>1 DEF Locks
    <3> QED BY <2>7, <2>2, <3>1, <3>2 DEF Locks, OnRecord
  <2>8. CASE Turns(s)
    <3>1. guestLock = {s} /\ Knows(s)
      BY <2>8, <1>1 DEF Turns
    <3>2. Knows(s)'
      BY <2>8, <2>2, <3>1 DEF Turns, Knows
    <3> QED BY <2>8, <2>2, <2>5, <3>1, <3>2 DEF Turns, OnRecord
  <2>9. CASE Saves(s)
    <3>1. guestLock = {s} /\ Knows(s)
      BY <2>9, <1>1 DEF Saves
    <3>2. \A q \in c.syncs \ {s} : q \notin guestLock' /\ sync'[q].pc \notin {"add", "del"}
      BY <2>9, <2>2, <3>1, <1>1 DEF Saves
    <3>3. card' \ hand' \subseteq record'
      BY <2>9, <2>2, <3>1 DEF Saves, Knows
    <3> QED BY <2>9, <2>2, <3>2, <3>3 DEF Saves, OnRecord
  <2>10. ASSUME NEW a \in c.addrs, Adds(s, a)
         PROVE  OnRecord(c)'
    <3>1. guestLock = {s} /\ Knows(s) /\ guestLock' = guestLock
      BY <2>10, <1>1 DEF Adds, Stay
    <3>2. Knows(s)'
      BY <2>10, <2>2, <3>1 DEF Adds, Stay, Knows
    <3> QED BY <2>10, <2>2, <2>5, <3>1, <3>2 DEF Adds, Stay, OnRecord
  <2>11. ASSUME NEW a \in c.addrs, Dels(s, a)
         PROVE  OnRecord(c)'
    <3>1. guestLock = {s} /\ Knows(s) /\ guestLock' = guestLock
      BY <2>11, <1>1 DEF Dels, Stay
    <3>2. Knows(s)'
      BY <2>11, <2>2, <3>1 DEF Dels, Stay, Knows
    <3> QED BY <2>11, <2>2, <2>5, <3>1, <3>2 DEF Dels, Stay, OnRecord
  <2> QED BY <2>4, <2>6, <2>7, <2>8, <2>9, <2>10, <2>11
<1>3. CASE ~ \E s \in c.syncs : Guests(c)!Runs(s) \/ Guests(c)!Kill(s)
  <2>1. CASE UNCHANGED <<card, hand, record, sync, guestLock>>
    BY <1>1, <2>1, Zenon DEF OnRecord, RunsTyped, Knows
  <2>2. CASE \E a \in c.addrs :
                /\ a \notin card \cup record /\ \A s \in c.syncs : a \notin sync[s].managed
                /\ card' = card \cup {a} /\ hand' = hand \cup {a}
                /\ UNCHANGED <<record, sync, guestLock>>
    <3>1. RunsTyped(c)'
      BY <1>1, <2>2 DEF RunsTyped
    <3>2. \A s \in c.syncs : Knows(s) => Knows(s)'
      BY <2>2 DEF Knows
    <3> QED BY <1>1, <2>2, <3>1, <3>2 DEF OnRecord
  <2>3. CASE /\ card' = hand /\ hand' = hand /\ record' = record /\ guestLock' = {}
             /\ sync' = [s \in c.syncs |-> Guests(c)!NoSync]
    BY <1>1, <2>3, AfterReboot DEF OnRecord
  <2> QED BY <1>3, <2>1, <2>2, <2>3, OutsideMoves
<1> QED BY <1>2, <1>3

\* So what the script has configured is on record between runs.
LEMMA RecordSays ==
    ASSUME NEW c, OnRecord(c)
    PROVE  Guests(c)!RecordComplete
BY DEF OnRecord, Guests!RecordComplete

------------------------------------------------------------------------------
(* Public addresses *)

Homes(c) == c.private \cup {"nowhere", "elsewhere"}
Calls == {"", "own", "default"}
Ids(c) == 0..c.maxPub
ItemOf(c) == [st: {"out", "pending", "releasing", "released", "assigning", "rebind",
                   "create_failed", "done", "failed", "skipped"},
              old: Ids(c), new: Ids(c), name: Calls, flag: {TRUE, FALSE}, rounds: {0, 1}]
ItemsOf(c) == [c.private -> ItemOf(c)]

RotationTyped(c) ==
    /\ pub \in [1..c.maxPub -> [st: {"none", "assigned", "assigning", "available", "terminating",
                                     "gone"},
                                at: Homes(c), name: Calls]]
    /\ job \in [state: {"none", "running", "done", "failed"}, stale: {TRUE, FALSE},
                by: c.threads \cup {"none"}, names: [c.private -> Calls],
                done: SUBSET c.private, failed: SUBSET c.private]
    /\ thr \in [c.threads -> [pc: {"none", "release", "look", "rebind", "create", "end"},
                              items: ItemsOf(c)]]
    /\ asker \in [c.askers -> [pc: {"idle", "shown", "plan", "save"}, ids: SUBSET c.private,
                               shown: [c.private -> Ids(c)], names: [c.private -> Calls],
                               items: ItemsOf(c)]]

LEMMA OutIs ==
    ASSUME NEW c, c.maxPub \in Nat
    PROVE  /\ Rotations(c)!Out \in ItemOf(c) /\ Rotations(c)!Out.st = "out"
           /\ Rotations(c)!Out.old = 0 /\ Rotations(c)!Out.new = 0 /\ Rotations(c)!Out.name = ""
           /\ Rotations(c)!NoItems \in ItemsOf(c)
           /\ \A p \in c.private : Rotations(c)!NoItems[p] = Rotations(c)!Out
<1>1. 0 \in Ids(c)
  BY DEF Ids
<1> QED BY <1>1, Zenon DEF Rotations!Out, Rotations!NoItems, ItemOf, ItemsOf, Calls

LEMMA NoAskIs ==
    ASSUME NEW c, c.maxPub \in Nat
    PROVE  /\ Rotations(c)!NoAsk \in [pc: {"idle", "shown", "plan", "save"},
                    ids: SUBSET c.private, shown: [c.private -> Ids(c)],
                    names: [c.private -> Calls], items: ItemsOf(c)]
           /\ Rotations(c)!NoAsk.pc = "idle" /\ Rotations(c)!NoAsk.items = Rotations(c)!NoItems
<1>1. Rotations(c)!NoItems \in ItemsOf(c) /\ 0 \in Ids(c)
  <2>1. Rotations(c)!NoItems \in ItemsOf(c)
    BY OutIs, Zenon
  <2>2. 0 \in Ids(c)
    BY DEF Ids
  <2> QED BY <2>1, <2>2
<1>2. [p \in c.private |-> 0] \in [c.private -> Ids(c)]
  BY <1>1
<1>3. [p \in c.private |-> ""] \in [c.private -> Calls]
  BY DEF Calls
<1> QED BY <1>1, <1>2, <1>3, Zenon DEF Rotations!NoAsk

\* The public address of a private one exists and is bound to it.
LEMMA PublicOfIs ==
    ASSUME NEW c, c.maxPub \in Nat, NEW p \in c.private
    PROVE  /\ Rotations(c)!PublicOf(p) \in Ids(c)
           /\ Rotations(c)!PublicOf(p) # 0 =>
                 /\ Rotations(c)!PublicOf(p) \in 1..c.maxPub
                 /\ Rotations(c)!Exists(Rotations(c)!PublicOf(p))
                 /\ pub[Rotations(c)!PublicOf(p)].at = p
           /\ Rotations(c)!PublicOf(p) = 0 =>
                 \A x \in 1..c.maxPub : ~(Rotations(c)!Exists(x) /\ pub[x].at = p)
<1>1. CASE \E x \in 1..c.maxPub : Rotations(c)!Exists(x) /\ pub[x].at = p
  <2>1. PICK x \in 1..c.maxPub : Rotations(c)!Exists(x) /\ pub[x].at = p
    BY <1>1
  <2>2. Rotations(c)!PublicOf(p) = CHOOSE y \in 1..c.maxPub : Rotations(c)!Exists(y) /\ pub[y].at = p
    BY <1>1 DEF Rotations!PublicOf, Rotations!PubId
  <2>3. /\ Rotations(c)!PublicOf(p) \in 1..c.maxPub
        /\ Rotations(c)!Exists(Rotations(c)!PublicOf(p))
        /\ pub[Rotations(c)!PublicOf(p)].at = p
    BY <2>1, <2>2, Zenon
  <2> QED BY <2>3 DEF Ids
<1>2. CASE ~ \E x \in 1..c.maxPub : Rotations(c)!Exists(x) /\ pub[x].at = p
  BY <1>2 DEF Rotations!PublicOf, Rotations!PubId, Ids
<1> QED BY <1>1, <1>2

\* A set of names of addresses has a first one.
LEMMA LeastIsIn ==
    ASSUME NEW c, NEW T, T \subseteq Nat, T # {}
    PROVE  Rotations(c)!Least(T) \in T
<1> DEFINE less == {ss \in Nat \X Nat : ss[1] < ss[2]}
<1>0. IsWellFoundedOn(less, Nat)
  BY NatLessThanWellFounded DEF OpToRel
<1>1. PICK x \in T : \A y \in T : <<y, x>> \notin less
  <2> HIDE DEF less
  <2> QED BY <1>0, WFMin, Zenon
<1>2. ASSUME NEW y \in T
      PROVE  x <= y
  <2>1. <<y, x>> \in Nat \X Nat
    BY <1>2
  <2>2. ~(<<y, x>>[1] < <<y, x>>[2])
    BY <1>1, <1>2, <2>1
  <2> QED BY <2>2
<1> QED BY <1>2, Zenon DEF Rotations!Least

LEMMA LeastFresh ==
    ASSUME NEW c, c.maxPub \in Nat, Rotations(c)!Fresh # {}
    PROVE  /\ Rotations(c)!Least(Rotations(c)!Fresh) \in 1..c.maxPub
           /\ pub[Rotations(c)!Least(Rotations(c)!Fresh)].st = "none"
<1>1. Rotations(c)!Fresh \subseteq Nat
  BY DEF Rotations!Fresh, Rotations!PubId
<1>2. Rotations(c)!Least(Rotations(c)!Fresh) \in Rotations(c)!Fresh
  BY <1>1, LeastIsIn
<1> QED BY <1>2 DEF Rotations!Fresh, Rotations!PubId

\* The items of a thread change to these, and the row says so.
LEMMA StepsSet ==
    ASSUME NEW c, RotationTyped(c), NEW w \in c.threads, NEW xs, xs \in ItemsOf(c),
           Rotations(c)!Steps(w, xs)
    PROVE  thr'[w].items = xs
<1>1. thr'[w].items = xs
  BY DEF Rotations!Steps, RotationTyped
<1> QED BY <1>1

LEMMA StepsNames ==
    ASSUME NEW c, RotationTyped(c), NEW w \in c.threads, NEW xs, xs \in ItemsOf(c),
           Rotations(c)!Steps(w, xs)
    PROVE  job' = job \/ \A p \in c.private : job'.names[p] = xs[p].name
<1> DEFINE ns == [p \in c.private |-> xs[p].name]
<1>1. \/ job' = job
      \/ job' = [job EXCEPT !.state = "running", !.stale = FALSE, !.by = w, !.names = ns,
                            !.done = {}, !.failed = {}]
  BY DEF Rotations!Steps
<1>2. job' = job \/ job'.names = ns
  <2> HIDE DEF ns
  <2> QED BY <1>1 DEF RotationTyped
<1> QED BY <1>2

LEMMA StepsMove ==
    ASSUME NEW c, RotationTyped(c), NEW w \in c.threads, NEW xs, xs \in ItemsOf(c),
           Rotations(c)!Steps(w, xs)
    PROVE  /\ thr'[w].pc = Rotations(c)!After(thr[w].pc, xs)
           /\ thr'[w].pc \in {"release", "look", "rebind", "create", "end"}
           /\ \A v \in c.threads \ {w} : thr'[v] = thr[v]
           /\ thr' \in [c.threads -> [pc: {"none", "release", "look", "rebind", "create", "end"},
                                      items: ItemsOf(c)]]
           /\ \/ job' = job
              \/ job' \in [state: {"running"}, stale: {FALSE}, by: {w},
                           names: [c.private -> Calls], done: {{}}, failed: {{}}]
           /\ asker' = asker /\ agreed' = agreed
<1> DEFINE there == Rotations(c)!After(thr[w].pc, xs)
<1>1. there \in {"release", "look", "rebind", "create", "end"}
  BY DEF Rotations!After
<1>2. /\ thr \in [c.threads -> [pc: {"none", "release", "look", "rebind", "create", "end"},
                                items: ItemsOf(c)]]
      /\ job \in [state: {"none", "running", "done", "failed"}, stale: {TRUE, FALSE},
                  by: c.threads \cup {"none"}, names: [c.private -> Calls],
                  done: SUBSET c.private, failed: SUBSET c.private]
  BY Zenon DEF RotationTyped
<1>3. thr' = [thr EXCEPT ![w] = [pc |-> there, items |-> xs]]
  BY <1>2 DEF Rotations!Steps
<1>4. [pc |-> there, items |-> xs]
         \in [pc: {"none", "release", "look", "rebind", "create", "end"}, items: ItemsOf(c)]
  <2> HIDE DEF there
  <2> QED BY <1>1
<1>5. /\ thr' \in [c.threads -> [pc: {"none", "release", "look", "rebind", "create", "end"},
                                 items: ItemsOf(c)]]
      /\ thr'[w].pc = there
      /\ \A v \in c.threads \ {w} : thr'[v] = thr[v]
  <2> HIDE DEF there
  <2> QED BY <1>2, <1>3, <1>4
<1> DEFINE ns == [p \in c.private |-> xs[p].name]
<1>6. \/ job' = job
      \/ job' = [job EXCEPT !.state = "running", !.stale = FALSE, !.by = w, !.names = ns,
                            !.done = {}, !.failed = {}]
  BY DEF Rotations!Steps
<1>7. ns \in [c.private -> Calls] /\ \A p \in c.private : ns[p] = xs[p].name
  BY Zenon DEF ItemsOf, ItemOf
<1>8. \/ job' = job
      \/ job' \in [state: {"running"}, stale: {FALSE}, by: {w}, names: [c.private -> Calls],
                   done: {{}}, failed: {{}}]
  <2> HIDE DEF ns
  <2>1. CASE job' # job
    <3>1. job' = [job EXCEPT !.state = "running", !.stale = FALSE, !.by = w, !.names = ns,
                             !.done = {}, !.failed = {}]
      BY <1>6, <2>1
    <3> QED BY <1>2, <1>7, <3>1, Zenon
  <2> QED BY <2>1
<1> QED BY <1>1, <1>5, <1>7, <1>8, Zenon DEF Rotations!Steps

LEMMA PutMoves ==
    ASSUME NEW c, RotationTyped(c), NEW w \in c.threads, NEW p \in c.private,
           NEW i \in ItemOf(c), Rotations(c)!Put(w, p, i)
    PROVE  /\ thr'[w].items \in ItemsOf(c) /\ Rotations(c)!Steps(w, thr'[w].items)
           /\ thr'[w].items[p] = i
           /\ \A q \in c.private \ {p} : thr'[w].items[q] = thr[w].items[q]
<1> DEFINE items == [thr[w].items EXCEPT ![p] = i]
<1>1. thr[w].items \in ItemsOf(c)
  BY DEF RotationTyped
<1>2. items \in ItemsOf(c) /\ items[p] = i /\ \A q \in c.private \ {p} : items[q] = thr[w].items[q]
  BY <1>1 DEF ItemsOf
<1>3. Rotations(c)!Steps(w, items)
  BY DEF Rotations!Put
<1>4. thr'[w].items = items
  BY <1>2, <1>3, StepsSet
<1> QED BY <1>2, <1>3, <1>4

\* When a new address has been asked for.
Late == {"create_failed", "assigning", "rebind", "done"}
Holding == {"assigning", "rebind", "done"}

\* What a step of a thread does to an item of the private address p.
ItemMoves(c, p, i, j) ==
    /\ j.old = i.old /\ j.name = i.name
    /\ \/ j.new = i.new
       \/ /\ i.st = "create_failed" /\ pub' = pub
          /\ j.new = Rotations(c)!PublicOf(p) /\ j.new # 0
       \/ /\ i.st = "released" /\ Rotations(c)!Creates(p, i.name)
          /\ j.new = Rotations(c)!Least(Rotations(c)!Fresh)
    /\ j.st = "released" => i.st = "released" \/ ~Rotations(c)!Exists(i.old)
    /\ j.st \in Late => i.st \in Late \cup {"released"}
    /\ j.st \in Holding => i.st \in Holding \/ j.new # 0
    /\ j.st \in Holding /\ i.st \in Holding => j.new = i.new
    /\ j.st = "pending" => i.st = "pending"
    /\ j.st = "out" <=> i.st = "out"
    /\ j.st = "done" => \/ i.st = "done"
                        \/ pub' = pub /\ pub[j.new].st = "assigned" /\ pub[j.new].at = p

LEMMA FailsIs ==
    ASSUME NEW c, NEW i \in ItemOf(c)
    PROVE  /\ Rotations(c)!Fails(i) \in ItemOf(c) /\ Rotations(c)!Fails(i).st = "failed"
           /\ Rotations(c)!Fails(i).old = i.old /\ Rotations(c)!Fails(i).new = i.new
           /\ Rotations(c)!Fails(i).name = i.name
BY Zenon DEF Rotations!Fails, ItemOf

LEMMA ReleasingIs ==
    ASSUME NEW c, NEW i \in ItemOf(c), NEW b \in {TRUE, FALSE}
    PROVE  /\ Rotations(c)!Releasing(i, b) \in ItemOf(c)
           /\ Rotations(c)!Releasing(i, b).st = "releasing"
           /\ Rotations(c)!Releasing(i, b).old = i.old /\ Rotations(c)!Releasing(i, b).new = i.new
           /\ Rotations(c)!Releasing(i, b).name = i.name
BY Zenon DEF Rotations!Releasing, ItemOf

LEMMA CheckReleasedIs ==
    ASSUME NEW c, NEW i \in ItemOf(c), NEW j, j = Rotations(c)!CheckReleased(i)
    PROVE  /\ j \in ItemOf(c) /\ j.old = i.old /\ j.name = i.name /\ j.new = i.new
           /\ \/ j = i
              \/ i.st = "releasing" /\ j.st = "released" /\ ~Rotations(c)!Exists(i.old)
              \/ i.st = "releasing" /\ j.st \in {"releasing", "failed"}
<1>1. CASE j = i
  BY <1>1
<1>2. CASE i.st = "releasing" /\ j = Rotations(c)!Fails(i)
  BY <1>2, FailsIs
<1>3. CASE /\ i.st = "releasing" /\ ~Rotations(c)!Exists(i.old)
           /\ j = [i EXCEPT !.st = "released", !.flag = FALSE, !.rounds = 0]
  BY <1>3, Zenon DEF ItemOf
<1>4. CASE i.st = "releasing" /\ j = [i EXCEPT !.rounds = 1]
  BY <1>4, Zenon DEF ItemOf
<1> QED BY <1>1, <1>2, <1>3, <1>4 DEF Rotations!CheckReleased

LEMMA CheckCreatedIs ==
    ASSUME NEW c, c.maxPub \in Nat, NEW p \in c.private, NEW i \in ItemOf(c),
           NEW j, j = Rotations(c)!CheckCreated(i, p)
    PROVE  /\ j \in ItemOf(c) /\ j.old = i.old /\ j.name = i.name
           /\ \/ j = i
              \/ i.st = "create_failed" /\ j.st = "create_failed" /\ j.new = i.new
              \/ /\ i.st = "create_failed" /\ j.st = "assigning"
                 /\ j.new = Rotations(c)!PublicOf(p) /\ j.new # 0
<1> DEFINE x == Rotations(c)!PublicOf(p)
<1>1. x \in Ids(c)
  BY PublicOfIs
<1>2. CASE j = i
  BY <1>2
<1>3. CASE i.st = "create_failed" /\ j = [i EXCEPT !.flag = TRUE]
  BY <1>3, Zenon DEF ItemOf
<1>4. CASE /\ i.st = "create_failed" /\ x # 0
           /\ j = [i EXCEPT !.st = "assigning", !.new = x, !.flag = FALSE, !.rounds = 0]
  <2> HIDE DEF x
  <2>1. /\ j \in ItemOf(c) /\ j.old = i.old /\ j.name = i.name /\ j.new = x
        /\ j.st = "assigning"
    BY <1>1, <1>4, Zenon DEF ItemOf
  <2> QED BY <2>1, <1>4 DEF x
<1> QED BY <1>2, <1>3, <1>4 DEF Rotations!CheckCreated

LEMMA CheckAssignedIs ==
    ASSUME NEW c, NEW p \in c.private, NEW i \in ItemOf(c),
           NEW j, j = Rotations(c)!CheckAssigned(i, p)
    PROVE  /\ j \in ItemOf(c) /\ j.old = i.old /\ j.name = i.name /\ j.new = i.new
           /\ \/ j = i
              \/ i.st = "assigning" /\ j.st \in {"failed", "assigning", "rebind"}
              \/ /\ i.st = "assigning" /\ j.st = "done"
                 /\ pub[i.new].st = "assigned" /\ pub[i.new].at = p
<1>1. CASE j = i
  BY <1>1
<1>2. CASE i.st = "assigning" /\ j = Rotations(c)!Fails(i)
  BY <1>2, FailsIs
<1>3. CASE /\ i.st = "assigning" /\ pub[i.new].st = "assigned" /\ pub[i.new].at = p
           /\ j = [i EXCEPT !.st = "done"]
  BY <1>3, Zenon DEF ItemOf
<1>4. CASE i.st = "assigning" /\ j = [i EXCEPT !.rounds = 0]
  BY <1>4, Zenon DEF ItemOf
<1>5. CASE i.st = "assigning" /\ j = [i EXCEPT !.st = "rebind", !.flag = TRUE, !.rounds = 0]
  BY <1>5, Zenon DEF ItemOf
<1>6. CASE i.st = "assigning" /\ j = [i EXCEPT !.rounds = 1]
  BY <1>6, Zenon DEF ItemOf
<1> QED BY <1>1, <1>2, <1>3, <1>4, <1>5, <1>6 DEF Rotations!CheckAssigned

LEMMA LookMoves ==
    ASSUME NEW c, c.maxPub \in Nat, NEW p \in c.private, NEW i \in ItemOf(c), pub' = pub,
           NEW j, j = Rotations(c)!CheckAssigned(Rotations(c)!CheckCreated(
                         Rotations(c)!CheckReleased(i), p), p)
    PROVE  j \in ItemOf(c) /\ ItemMoves(c, p, i, j)
<1> DEFINE k == Rotations(c)!CheckReleased(i)
           l == Rotations(c)!CheckCreated(k, p)
<1>1. /\ k \in ItemOf(c) /\ k.old = i.old /\ k.name = i.name /\ k.new = i.new
      /\ \/ k = i
         \/ i.st = "releasing" /\ k.st = "released" /\ ~Rotations(c)!Exists(i.old)
         \/ i.st = "releasing" /\ k.st \in {"releasing", "failed"}
  BY CheckReleasedIs
<1>2. /\ l \in ItemOf(c) /\ l.old = k.old /\ l.name = k.name
      /\ \/ l = k
         \/ k.st = "create_failed" /\ l.st = "create_failed" /\ l.new = k.new
         \/ /\ k.st = "create_failed" /\ l.st = "assigning"
            /\ l.new = Rotations(c)!PublicOf(p) /\ l.new # 0
  <2> HIDE DEF k
  <2> QED BY <1>1, CheckCreatedIs
<1>3. /\ j \in ItemOf(c) /\ j.old = l.old /\ j.name = l.name /\ j.new = l.new
      /\ \/ j = l
         \/ l.st = "assigning" /\ j.st \in {"failed", "assigning", "rebind"}
         \/ /\ l.st = "assigning" /\ j.st = "done"
            /\ pub[l.new].st = "assigned" /\ pub[l.new].at = p
  <2>1. j = Rotations(c)!CheckAssigned(l, p)
    OBVIOUS
  <2> HIDE DEF k, l
  <2> QED BY <1>2, <2>1, CheckAssignedIs
<1> HIDE DEF k, l
<1>4. /\ k.st = "create_failed" => k = i
      /\ k.st \in Late => k = i
      /\ k.st = "released" => k = i \/ ~Rotations(c)!Exists(i.old)
      /\ k.st = "pending" => k = i
      /\ k.st = "out" <=> i.st = "out"
  BY <1>1 DEF Late
<1>5. CASE l = k
  BY <1>1, <1>3, <1>4, <1>5 DEF ItemMoves, Late, Holding
<1>6. CASE k.st = "create_failed" /\ l.st = "create_failed" /\ l.new = k.new
  BY <1>1, <1>2, <1>3, <1>4, <1>6 DEF ItemMoves, Late, Holding
<1>7. CASE /\ k.st = "create_failed" /\ l.st = "assigning"
           /\ l.new = Rotations(c)!PublicOf(p) /\ l.new # 0
  BY <1>1, <1>2, <1>3, <1>4, <1>7 DEF ItemMoves, Late, Holding
<1> QED BY <1>2, <1>5, <1>6, <1>7

\* What a step of the thread w does to the public addresses.
PubMoves(c, w) ==
    \/ pub' = pub
    \/ \E p \in c.private :
          LET x == thr[w].items[p].old IN
          /\ thr[w].pc = "release" /\ thr[w].items[p].st = "pending"
          /\ pub[x].st \in {"assigned", "assigning", "available"}
          /\ pub' = [pub EXCEPT ![x].st = "terminating"]
    \/ \E p \in c.private :
          LET x == thr[w].items[p].new IN
          /\ thr[w].items[p].st = "rebind" /\ Rotations(c)!Exists(x)
          /\ pub' = [pub EXCEPT ![x].st = "assigning", ![x].at = p]
    \/ \E p \in c.private : Rotations(c)!Creates(p, thr[w].items[p].name)
                            /\ thr[w].items[p].st = "released"

\* A step of a thread at work.
WorkHolds(c, w) ==
    /\ thr'[w].items \in ItemsOf(c) /\ PubMoves(c, w)
    /\ \A p \in c.private : ItemMoves(c, p, thr[w].items[p], thr'[w].items[p])

LEMMA ItemStays ==
    ASSUME NEW c, NEW p, NEW i, NEW j, j = i
    PROVE  ItemMoves(c, p, i, j)
BY DEF ItemMoves

LEMMA PutHolds ==
    ASSUME NEW c, RotationTyped(c), NEW w \in c.threads, NEW p \in c.private,
           NEW i \in ItemOf(c), Rotations(c)!Put(w, p, i), PubMoves(c, w),
           ItemMoves(c, p, thr[w].items[p], i)
    PROVE  WorkHolds(c, w) /\ Rotations(c)!Steps(w, thr'[w].items)
<1>1. /\ thr'[w].items \in ItemsOf(c) /\ Rotations(c)!Steps(w, thr'[w].items)
      /\ thr'[w].items[p] = i
      /\ \A q \in c.private \ {p} : thr'[w].items[q] = thr[w].items[q]
  BY PutMoves
<1>2. ASSUME NEW q \in c.private
      PROVE  ItemMoves(c, q, thr[w].items[q], thr'[w].items[q])
  <2>1. CASE q = p
    BY <1>1, <2>1
  <2>2. CASE q # p
    BY <1>1, <2>2, ItemStays
  <2> QED BY <2>1, <2>2
<1> QED BY <1>1, <1>2 DEF WorkHolds

LEMMA DeleteMoves ==
    ASSUME NEW c, RotationTyped(c), NEW w \in c.threads, NEW p \in c.private,
           Rotations(c)!Delete(w, p)
    PROVE  WorkHolds(c, w) /\ Rotations(c)!Steps(w, thr'[w].items)
<1> DEFINE i == thr[w].items[p]
<1>1. i \in ItemOf(c)
  BY DEF RotationTyped, ItemsOf
<1>2. thr[w].pc = "release" /\ i.st = "pending"
  BY DEF Rotations!Delete
<1>3. PubMoves(c, w)
  <2>1. \/ pub' = pub
        \/ /\ pub[i.old].st \in {"assigned", "assigning", "available"}
           /\ Rotations(c)!Terminate(i.old)
    BY Zenon DEF Rotations!Delete
  <2> QED BY <1>2, <2>1, Zenon DEF PubMoves, Rotations!Terminate
<1>4. PICK j : /\ j \in {Rotations(c)!Releasing(i, TRUE), Rotations(c)!Releasing(i, FALSE),
                         Rotations(c)!Fails(i)}
               /\ Rotations(c)!Put(w, p, j)
  BY Zenon DEF Rotations!Delete
<1>5. /\ j \in ItemOf(c) /\ j.old = i.old /\ j.new = i.new /\ j.name = i.name
      /\ j.st \in {"releasing", "failed"}
  <2>1. CASE j = Rotations(c)!Releasing(i, TRUE)
    BY <1>1, <2>1, ReleasingIs, Zenon
  <2>2. CASE j = Rotations(c)!Releasing(i, FALSE)
    BY <1>1, <2>2, ReleasingIs, Zenon
  <2>3. CASE j = Rotations(c)!Fails(i)
    BY <1>1, <2>3, FailsIs
  <2> QED BY <1>4, <2>1, <2>2, <2>3, Zenon
<1>6. ItemMoves(c, p, i, j)
  BY <1>2, <1>5 DEF ItemMoves, Late, Holding
<1> QED BY <1>3, <1>4, <1>5, <1>6, PutHolds

LEMMA TimesOutMoves ==
    ASSUME NEW c, RotationTyped(c), NEW w \in c.threads, Rotations(c)!TimesOut(w)
    PROVE  WorkHolds(c, w) /\ Rotations(c)!Steps(w, thr'[w].items) /\ pub' = pub
<1>1. PICK p \in c.private :
         /\ thr[w].items[p].st \in {"releasing", "assigning"}
         /\ Rotations(c)!Put(w, p, Rotations(c)!Fails(thr[w].items[p]))
  BY DEF Rotations!TimesOut
<1>2. pub' = pub
  BY DEF Rotations!TimesOut
<1> DEFINE i == thr[w].items[p]  j == Rotations(c)!Fails(i)
<1>3. i \in ItemOf(c)
  BY DEF RotationTyped, ItemsOf
<1>4. /\ j \in ItemOf(c) /\ j.old = i.old /\ j.new = i.new /\ j.name = i.name /\ j.st = "failed"
  BY <1>3, FailsIs
<1> HIDE DEF j
<1>5. ItemMoves(c, p, i, j)
  BY <1>1, <1>4 DEF ItemMoves, Late, Holding
<1>6. PubMoves(c, w)
  BY <1>2 DEF PubMoves
<1>7. Rotations(c)!Put(w, p, j)
  BY <1>1 DEF j
<1> QED BY <1>2, <1>4, <1>5, <1>6, <1>7, PutHolds

LEMMA LookHolds ==
    ASSUME NEW c, RotationTyped(c), c.maxPub \in Nat, NEW w \in c.threads, Rotations(c)!Look(w)
    PROVE  WorkHolds(c, w) /\ Rotations(c)!Steps(w, thr'[w].items) /\ pub' = pub
<1> DEFINE to(p) == Rotations(c)!CheckAssigned(Rotations(c)!CheckCreated(
                       Rotations(c)!CheckReleased(thr[w].items[p]), p), p)
           items == [p \in c.private |-> to(p)]
<1>1. pub' = pub /\ Rotations(c)!Steps(w, items)
  BY DEF Rotations!Look
<1>2. ASSUME NEW p \in c.private
      PROVE  to(p) \in ItemOf(c) /\ ItemMoves(c, p, thr[w].items[p], to(p))
  <2>1. thr[w].items[p] \in ItemOf(c)
    BY DEF RotationTyped, ItemsOf
  <2> QED BY <1>1, <2>1, LookMoves
<1>3. items \in ItemsOf(c) /\ \A p \in c.private : items[p] = to(p)
  <2> HIDE DEF to
  <2> QED BY <1>2 DEF ItemsOf
<1>4. thr'[w].items = items
  <2> HIDE DEF to, items
  <2>1. items \in ItemsOf(c) /\ Rotations(c)!Steps(w, items)
    BY <1>1, <1>3
  <2> QED BY <2>1, StepsSet, Zenon
<1> HIDE DEF to, items
<1>5. PubMoves(c, w)
  BY <1>1 DEF PubMoves
<1> QED BY <1>1, <1>2, <1>3, <1>4, <1>5 DEF WorkHolds

LEMMA RebindMoves ==
    ASSUME NEW c, RotationTyped(c), NEW w \in c.threads, NEW p \in c.private,
           Rotations(c)!Rebind(w, p)
    PROVE  WorkHolds(c, w) /\ Rotations(c)!Steps(w, thr'[w].items)
<1> DEFINE i == thr[w].items[p]  again == [i EXCEPT !.st = "assigning"]
<1>1. i \in ItemOf(c)
  BY DEF RotationTyped, ItemsOf
<1>2. i.st = "rebind"
  BY Zenon DEF Rotations!Rebind
<1>3. PubMoves(c, w)
  <2>1. \/ pub' = pub
        \/ /\ Rotations(c)!Exists(i.new)
           /\ pub' = [pub EXCEPT ![i.new].st = "assigning", ![i.new].at = p]
    BY Zenon DEF Rotations!Rebind
  <2> QED BY <1>2, <2>1, Zenon DEF PubMoves
<1>4. PICK j : j \in {again, Rotations(c)!Fails(i)} /\ Rotations(c)!Put(w, p, j)
  BY Zenon DEF Rotations!Rebind
<1>5. /\ again \in ItemOf(c) /\ again.old = i.old /\ again.new = i.new /\ again.name = i.name
      /\ again.st = "assigning"
  BY <1>1, Zenon DEF ItemOf
<1> HIDE DEF again
<1>6. /\ j \in ItemOf(c) /\ j.old = i.old /\ j.new = i.new /\ j.name = i.name
      /\ j.st \in {"assigning", "failed"}
  BY <1>1, <1>4, <1>5, FailsIs
<1>7. ItemMoves(c, p, i, j)
  BY <1>2, <1>6 DEF ItemMoves, Late, Holding
<1> QED BY <1>3, <1>4, <1>6, <1>7, PutHolds

LEMMA CreateMoves ==
    ASSUME NEW c, RotationTyped(c), c.maxPub \in Nat, NEW w \in c.threads, NEW p \in c.private,
           Rotations(c)!Create(w, p)
    PROVE  WorkHolds(c, w) /\ Rotations(c)!Steps(w, thr'[w].items)
<1> DEFINE i == thr[w].items[p]  first == Rotations(c)!Least(Rotations(c)!Fresh)
           failed == [i EXCEPT !.st = "create_failed", !.flag = FALSE]
           begun1 == [i EXCEPT !.st = "assigning", !.new = first, !.flag = FALSE, !.rounds = 0]
<1>1. i \in ItemOf(c)
  BY DEF RotationTyped, ItemsOf
<1>2. i.st = "released"
  BY DEF Rotations!Create
<1>3. \/ pub' = pub
      \/ Rotations(c)!Creates(p, i.name)
  BY DEF Rotations!Create
<1>4. PubMoves(c, w)
  BY <1>2, <1>3 DEF PubMoves
<1>5. /\ failed \in ItemOf(c) /\ failed.old = i.old /\ failed.new = i.new /\ failed.name = i.name
      /\ failed.st = "create_failed"
  BY <1>1, Zenon DEF ItemOf
<1>6. CASE Rotations(c)!Put(w, p, failed)
  <2> HIDE DEF failed
  <2>1. ItemMoves(c, p, i, failed)
    BY <1>2, <1>5 DEF ItemMoves, Late, Holding
  <2> QED BY <1>4, <1>5, <1>6, <2>1, PutHolds
<1>7. CASE Rotations(c)!Creates(p, i.name) /\ Rotations(c)!Put(w, p, begun1)
  <2>1. first \in Ids(c) /\ first # 0
    BY <1>7, LeastFresh DEF Rotations!Creates, Ids
  <2>2. /\ begun1 \in ItemOf(c) /\ begun1.old = i.old /\ begun1.new = first
        /\ begun1.name = i.name /\ begun1.st = "assigning"
    <3> HIDE DEF first
    <3> QED BY <1>1, <2>1, Zenon DEF ItemOf
  <2> HIDE DEF begun1
  <2>3. ItemMoves(c, p, i, begun1)
    BY <1>2, <1>7, <2>1, <2>2 DEF ItemMoves, Late, Holding
  <2> QED BY <1>4, <1>7, <2>2, <2>3, PutHolds
<1> QED BY <1>6, <1>7 DEF Rotations!Create

\* The last step of a thread: what could not be made has failed.
ThreadEnds(c, w) ==
    /\ asker' = asker /\ thr[w].pc = "end" /\ thr'[w].pc = "none"
    /\ \A v \in c.threads \ {w} : thr'[v] = thr[v]
    /\ thr' \in [c.threads -> [pc: {"none", "release", "look", "rebind", "create", "end"},
                               items: ItemsOf(c)]]
    /\ \A p \in c.private : /\ \/ thr'[w].items[p] = thr[w].items[p]
                               \/ thr'[w].items[p].st = "failed"
                            /\ thr'[w].items[p].st # "create_failed"

JobEnds(c, w) ==
    \/ job' = job
    \/ /\ job' \in [state: {"done", "failed"}, stale: {FALSE}, by: {w},
                    names: [c.private -> Calls],
                    done: {{p \in c.private : thr'[w].items[p].st = "done"}},
                    failed: {{p \in c.private : thr'[w].items[p].st = "failed"} \cup
                             {p \in c.private : thr'[w].items[p].st = "skipped"}}]
       /\ \A p \in c.private : job'.names[p] = thr'[w].items[p].name

LEMMA FinishMoves ==
    ASSUME NEW c, RotationTyped(c), NEW w \in c.threads, Rotations(c)!Finish(w)
    PROVE  WorkHolds(c, w) /\ pub' = pub /\ ThreadEnds(c, w) /\ JobEnds(c, w)
<1> DEFINE to(p) == IF thr[w].items[p].st = "create_failed"
                    THEN Rotations(c)!Fails(thr[w].items[p]) ELSE thr[w].items[p]
           items == [p \in c.private |-> to(p)]
           In(st) == {p \in c.private : items[p].st = st}
           ns == [p \in c.private |-> items[p].name]
<1>1. ASSUME NEW p \in c.private
      PROVE  /\ to(p) \in ItemOf(c) /\ ItemMoves(c, p, thr[w].items[p], to(p))
             /\ to(p) = thr[w].items[p] \/ to(p).st = "failed"
             /\ to(p).st # "create_failed"
  <2>1. thr[w].items[p] \in ItemOf(c)
    BY DEF RotationTyped, ItemsOf
  <2>2. CASE thr[w].items[p].st = "create_failed"
    <3> DEFINE i == thr[w].items[p]  j == to(p)
    <3>1. /\ j \in ItemOf(c) /\ j.old = i.old /\ j.new = i.new /\ j.name = i.name
          /\ j.st = "failed"
      BY <2>1, <2>2, FailsIs
    <3> HIDE DEF j
    <3>2. ItemMoves(c, p, i, j)
      BY <2>2, <3>1 DEF ItemMoves, Late, Holding
    <3> QED BY <3>1, <3>2 DEF j
  <2>3. CASE thr[w].items[p].st # "create_failed"
    BY <2>1, <2>3, ItemStays
  <2> QED BY <2>2, <2>3
<1>2. items \in ItemsOf(c) /\ \A p \in c.private : items[p] = to(p)
  <2> HIDE DEF to
  <2> QED BY <1>1 DEF ItemsOf
<1>3. /\ thr[w].pc = "end" /\ pub' = pub /\ asker' = asker
      /\ thr' = [thr EXCEPT ![w] = [pc |-> "none", items |-> items]]
  BY Zenon DEF Rotations!Finish
<1>4. \/ job' = job
      \/ job' = [job EXCEPT !.state = IF In("failed") = {} THEN "done" ELSE "failed",
                            !.stale = FALSE, !.by = w, !.names = ns, !.done = In("done"),
                            !.failed = In("failed") \cup In("skipped")]
  BY Zenon DEF Rotations!Finish
<1> HIDE DEF to, items
<1>5. /\ thr' \in [c.threads -> [pc: {"none", "release", "look", "rebind", "create", "end"},
                                 items: ItemsOf(c)]]
      /\ thr'[w].items = items /\ thr'[w].pc = "none"
      /\ \A v \in c.threads \ {w} : thr'[v] = thr[v]
  BY <1>2, <1>3 DEF RotationTyped
<1>6. WorkHolds(c, w)
  BY <1>1, <1>2, <1>3, <1>5 DEF WorkHolds, PubMoves
<1>7. ns \in [c.private -> Calls] /\ \A p \in c.private : ns[p] = items[p].name
  BY <1>2, Zenon DEF ItemsOf, ItemOf
<1>8. ASSUME job' # job
      PROVE  /\ job' \in [state: {"done", "failed"}, stale: {FALSE}, by: {w},
                          names: [c.private -> Calls], done: {In("done")},
                          failed: {In("failed") \cup In("skipped")}]
             /\ job'.names = ns
  <2>1. PICK st \in {"done", "failed"} :
           job' = [job EXCEPT !.state = st, !.stale = FALSE, !.by = w, !.names = ns,
                              !.done = In("done"), !.failed = In("failed") \cup In("skipped")]
    BY <1>4, <1>8, Zenon
  <2>2. job \in [state: {"none", "running", "done", "failed"}, stale: {TRUE, FALSE},
                 by: c.threads \cup {"none"}, names: [c.private -> Calls],
                 done: SUBSET c.private, failed: SUBSET c.private]
    BY Zenon DEF RotationTyped
  <2> HIDE DEF In, ns
  <2> QED BY <2>1, <2>2, <1>7, Zenon
<1>9. ASSUME job' # job
      PROVE  /\ job' \in [state: {"done", "failed"}, stale: {FALSE}, by: {w},
                          names: [c.private -> Calls],
                          done: {{p \in c.private : thr'[w].items[p].st = "done"}},
                          failed: {{p \in c.private : thr'[w].items[p].st = "failed"} \cup
                                   {p \in c.private : thr'[w].items[p].st = "skipped"}}]
             /\ \A p \in c.private : job'.names[p] = thr'[w].items[p].name
  BY <1>5, <1>7, <1>8, <1>9, Zenon
<1>10. \A p \in c.private : /\ \/ thr'[w].items[p] = thr[w].items[p]
                               \/ thr'[w].items[p].st = "failed"
                            /\ thr'[w].items[p].st # "create_failed"
  BY <1>1, <1>2, <1>5
<1> HIDE DEF In, ns
<1>11. ThreadEnds(c, w)
  BY <1>3, <1>5, <1>10 DEF ThreadEnds
<1>12. JobEnds(c, w)
  BY <1>9, Zenon DEF JobEnds
<1> QED BY <1>3, <1>6, <1>11, <1>12

PubsOf(c) == [1..c.maxPub -> [st: {"none", "assigned", "assigning", "available", "terminating",
                                   "gone"}, at: Homes(c), name: Calls]]

\* What a step of the thread w does to the public address x.
Deleted(c, w, x) ==
    /\ pub[x].st \in {"assigned", "assigning", "available"} /\ pub'[x].st = "terminating"
    /\ pub'[x].at = pub[x].at /\ pub'[x].name = pub[x].name
    /\ \E p \in c.private : /\ thr[w].pc = "release" /\ thr[w].items[p].st = "pending"
                            /\ thr[w].items[p].old = x
Rebound(c, w, x) ==
    /\ Rotations(c)!Exists(x) /\ pub'[x].st = "assigning" /\ pub'[x].name = pub[x].name
    /\ \E p \in c.private : /\ thr[w].items[p].st = "rebind" /\ thr[w].items[p].new = x
                            /\ pub'[x].at = p
Created(c, w, x) ==
    /\ pub[x].st = "none" /\ pub'[x].st = "assigning"
    /\ \E p \in c.private : /\ thr[w].items[p].st = "released" /\ pub'[x].at = p
                            /\ pub'[x].name = thr[w].items[p].name

LEMMA CreatesIs ==
    ASSUME NEW c, RotationTyped(c), c.maxPub \in Nat, NEW p \in c.private, NEW n \in Calls,
           Rotations(c)!Creates(p, n)
    PROVE  LET x == Rotations(c)!Least(Rotations(c)!Fresh) IN
           /\ pub' \in PubsOf(c) /\ x \in 1..c.maxPub /\ pub[x].st = "none"
           /\ pub'[x].st = "assigning" /\ pub'[x].at = p /\ pub'[x].name = n
           /\ \A y \in 1..c.maxPub \ {x} : pub'[y] = pub[y]
<1> DEFINE x == Rotations(c)!Least(Rotations(c)!Fresh)
<1>1. x \in 1..c.maxPub /\ pub[x].st = "none"
  BY LeastFresh DEF Rotations!Creates
<1>2. pub' = [pub EXCEPT ![x] = [st |-> "assigning", at |-> p, name |-> n]]
  BY DEF Rotations!Creates
<1>3. pub \in PubsOf(c)
  BY DEF RotationTyped, PubsOf
<1>4. p \in Homes(c)
  BY DEF Homes
<1> HIDE DEF x
<1>5. /\ pub' \in PubsOf(c)
      /\ pub'[x].st = "assigning" /\ pub'[x].at = p /\ pub'[x].name = n
      /\ \A y \in 1..c.maxPub \ {x} : pub'[y] = pub[y]
  BY <1>1, <1>2, <1>3, <1>4 DEF PubsOf
<1> QED BY <1>1, <1>5 DEF x

LEMMA WorkPubs ==
    ASSUME NEW c, RotationTyped(c), c.maxPub \in Nat, NEW w \in c.threads, PubMoves(c, w)
    PROVE  /\ pub' \in PubsOf(c)
           /\ \A x \in 1..c.maxPub : \/ pub'[x] = pub[x] \/ Deleted(c, w, x)
                                     \/ Rebound(c, w, x) \/ Created(c, w, x)
<1>1. pub \in PubsOf(c)
  BY DEF RotationTyped, PubsOf
<1>2. \A p \in c.private : thr[w].items[p] \in ItemOf(c)
  BY DEF RotationTyped, ItemsOf
<1>3. CASE pub' = pub
  BY <1>1, <1>3
<1>4. ASSUME NEW p \in c.private, NEW x, x = thr[w].items[p].old,
             thr[w].pc = "release", thr[w].items[p].st = "pending",
             pub[x].st \in {"assigned", "assigning", "available"},
             pub' = [pub EXCEPT ![x].st = "terminating"]
      PROVE  /\ pub' \in PubsOf(c)
             /\ \A y \in 1..c.maxPub : pub'[y] = pub[y] \/ Deleted(c, w, y)
  <2>1. /\ pub' \in PubsOf(c) /\ \A y \in 1..c.maxPub \ {x} : pub'[y] = pub[y]
        /\ x \in 1..c.maxPub => /\ pub'[x].st = "terminating" /\ pub'[x].at = pub[x].at
                                /\ pub'[x].name = pub[x].name
    BY <1>1, <1>4, Zenon DEF PubsOf
  <2>2. x \in 1..c.maxPub => Deleted(c, w, x)
    BY <1>4, <2>1, Zenon DEF Deleted
  <2> QED BY <2>1, <2>2
<1>5. ASSUME NEW p \in c.private, NEW x, x = thr[w].items[p].new,
             thr[w].items[p].st = "rebind", Rotations(c)!Exists(x),
             pub' = [pub EXCEPT ![x].st = "assigning", ![x].at = p]
      PROVE  /\ pub' \in PubsOf(c)
             /\ \A y \in 1..c.maxPub : pub'[y] = pub[y] \/ Rebound(c, w, y)
  <2>1. p \in Homes(c)
    BY DEF Homes
  <2>2. /\ pub' \in PubsOf(c) /\ \A y \in 1..c.maxPub \ {x} : pub'[y] = pub[y]
        /\ x \in 1..c.maxPub => /\ pub'[x].st = "assigning" /\ pub'[x].at = p
                                /\ pub'[x].name = pub[x].name
    BY <1>1, <1>5, <2>1, Zenon DEF PubsOf
  <2>3. x \in 1..c.maxPub => Rebound(c, w, x)
    BY <1>5, <2>2, Zenon DEF Rebound
  <2> QED BY <2>2, <2>3
<1>6. ASSUME NEW p \in c.private, Rotations(c)!Creates(p, thr[w].items[p].name),
             thr[w].items[p].st = "released"
      PROVE  /\ pub' \in PubsOf(c)
             /\ \A y \in 1..c.maxPub : pub'[y] = pub[y] \/ Created(c, w, y)
  <2> DEFINE x == Rotations(c)!Least(Rotations(c)!Fresh)
  <2>1. thr[w].items[p].name \in Calls
    BY <1>2, Zenon DEF ItemOf
  <2>2. /\ pub' \in PubsOf(c) /\ x \in 1..c.maxPub /\ pub[x].st = "none"
        /\ pub'[x].st = "assigning" /\ pub'[x].at = p /\ pub'[x].name = thr[w].items[p].name
        /\ \A y \in 1..c.maxPub \ {x} : pub'[y] = pub[y]
    BY <1>6, <2>1, CreatesIs
  <2> HIDE DEF x
  <2>3. Created(c, w, x)
    BY <1>6, <2>2 DEF Created
  <2> QED BY <2>2, <2>3
<1>7. CASE \E p \in c.private :
              LET x == thr[w].items[p].old IN
              /\ thr[w].pc = "release" /\ thr[w].items[p].st = "pending"
              /\ pub[x].st \in {"assigned", "assigning", "available"}
              /\ pub' = [pub EXCEPT ![x].st = "terminating"]
  BY <1>7, <1>4, Zenon
<1>8. CASE \E p \in c.private :
              LET x == thr[w].items[p].new IN
              /\ thr[w].items[p].st = "rebind" /\ Rotations(c)!Exists(x)
              /\ pub' = [pub EXCEPT ![x].st = "assigning", ![x].at = p]
  BY <1>8, <1>5, Zenon
<1>9. CASE \E p \in c.private : Rotations(c)!Creates(p, thr[w].items[p].name)
                                /\ thr[w].items[p].st = "released"
  BY <1>9, <1>6, Zenon
<1> QED BY <1>3, <1>7, <1>8, <1>9, Zenon DEF PubMoves

\* What a thread, or the time, does: one step of its work.
LEMMA WorkMoves ==
    ASSUME NEW c, RotationTyped(c), c.maxPub \in Nat, NEW w \in c.threads,
           Rotations(c)!Work(w) \/ Rotations(c)!TimesOut(w)
    PROVE  /\ WorkHolds(c, w)
           /\ Rotations(c)!Steps(w, thr'[w].items) \/ Rotations(c)!Finish(w)
<1>1. ASSUME Rotations(c)!NoDeletes(w)
      PROVE  WorkHolds(c, w) /\ Rotations(c)!Steps(w, thr'[w].items)
  <2>1. Rotations(c)!Steps(w, thr[w].items) /\ pub' = pub
    BY <1>1 DEF Rotations!NoDeletes
  <2>2. thr[w].items \in ItemsOf(c)
    BY DEF RotationTyped
  <2>3. thr'[w].items = thr[w].items
    BY <2>1, <2>2, StepsSet
  <2>4. \A p \in c.private : ItemMoves(c, p, thr[w].items[p], thr'[w].items[p])
    BY <2>3, ItemStays
  <2> QED BY <2>1, <2>2, <2>3, <2>4 DEF WorkHolds, PubMoves
<1> QED BY <1>1, LookHolds, FinishMoves, TimesOutMoves, DeleteMoves, RebindMoves, CreateMoves
        DEF Rotations!Work

\* So types are kept.
LEMMA WorkTyped ==
    ASSUME NEW c, RotationTyped(c), c.maxPub \in Nat, NEW w \in c.threads,
           Rotations(c)!Work(w) \/ Rotations(c)!TimesOut(w)
    PROVE  /\ RotationTyped(c)' /\ asker' = asker
           /\ \A v \in c.threads \ {w} : thr'[v] = thr[v]
<1>1. /\ thr'[w].items \in ItemsOf(c) /\ PubMoves(c, w)
      /\ Rotations(c)!Steps(w, thr'[w].items) \/ Rotations(c)!Finish(w)
  BY WorkMoves DEF WorkHolds
<1>2. pub' \in PubsOf(c)
  BY <1>1, WorkPubs
<1>3. CASE Rotations(c)!Steps(w, thr'[w].items)
  <2>1. /\ thr' \in [c.threads -> [pc: {"none", "release", "look", "rebind", "create", "end"},
                                   items: ItemsOf(c)]]
        /\ \/ job' = job
           \/ job' \in [state: {"running"}, stale: {FALSE}, by: {w},
                        names: [c.private -> Calls], done: {{}}, failed: {{}}]
        /\ asker' = asker /\ \A v \in c.threads \ {w} : thr'[v] = thr[v]
    BY <1>1, <1>3, StepsMove, Zenon
  <2>2. job' \in [state: {"none", "running", "done", "failed"}, stale: {TRUE, FALSE},
                  by: c.threads \cup {"none"}, names: [c.private -> Calls],
                  done: SUBSET c.private, failed: SUBSET c.private]
    <3>1. CASE job' = job
      BY <3>1, Zenon DEF RotationTyped
    <3>2. CASE job' # job
      BY <2>1, <3>2, Zenon
    <3> QED BY <3>1, <3>2
  <2> QED BY <1>2, <2>1, <2>2, Zenon DEF RotationTyped, PubsOf
<1>4. CASE Rotations(c)!Finish(w)
  <2>1. /\ thr' \in [c.threads -> [pc: {"none", "release", "look", "rebind", "create", "end"},
                                   items: ItemsOf(c)]]
        /\ asker' = asker /\ \A v \in c.threads \ {w} : thr'[v] = thr[v]
    BY <1>4, FinishMoves DEF ThreadEnds
  <2>2. \/ job' = job
        \/ job' \in [state: {"done", "failed"}, stale: {FALSE}, by: {w},
                     names: [c.private -> Calls],
                     done: {{p \in c.private : thr'[w].items[p].st = "done"}},
                     failed: {{p \in c.private : thr'[w].items[p].st = "failed"} \cup
                              {p \in c.private : thr'[w].items[p].st = "skipped"}}]
    <3>1. JobEnds(c, w)
      BY <1>4, FinishMoves
    <3> QED BY <3>1, Zenon DEF JobEnds
  <2>3. job' \in [state: {"none", "running", "done", "failed"}, stale: {TRUE, FALSE},
                  by: c.threads \cup {"none"}, names: [c.private -> Calls],
                  done: SUBSET c.private, failed: SUBSET c.private]
    <3>1. CASE job' = job
      BY <3>1, Zenon DEF RotationTyped
    <3>2. CASE job' # job
      BY <2>2, <3>2, Zenon
    <3> QED BY <3>1, <3>2, Zenon
  <2> QED BY <1>2, <2>1, <2>3, Zenon DEF RotationTyped, PubsOf
<1> QED BY <1>1, <1>3, <1>4

AskersOf(c) == [c.askers -> [pc: {"idle", "shown", "plan", "save"}, ids: SUBSET c.private,
                             shown: [c.private -> Ids(c)], names: [c.private -> Calls],
                             items: ItemsOf(c)]]
ThreadsOf(c) == [c.threads -> [pc: {"none", "release", "look", "rebind", "create", "end"},
                               items: ItemsOf(c)]]
JobsOf(c) == [state: {"none", "running", "done", "failed"}, stale: {TRUE, FALSE},
              by: c.threads \cup {"none"}, names: [c.private -> Calls],
              done: SUBSET c.private, failed: SUBSET c.private]

LEMMA TypedIs ==
    ASSUME NEW c
    PROVE  RotationTyped(c) <=> /\ pub \in PubsOf(c) /\ asker \in AskersOf(c)
                                /\ thr \in ThreadsOf(c) /\ job \in JobsOf(c)
BY Zenon DEF RotationTyped, PubsOf, AskersOf, ThreadsOf, JobsOf

\* What a plan says of a private address.
PlannedOf(c, p, hint, i) ==
    /\ i.old = Rotations(c)!PublicOf(p) /\ i.new = 0 /\ i.st \in {"pending", "skipped"}
    /\ i.name = IF i.old # 0 THEN pub[i.old].name ELSE IF hint # "" THEN hint ELSE "default"

LEMMA PlannedIs ==
    ASSUME NEW c, RotationTyped(c), c.maxPub \in Nat, NEW p \in c.private, NEW h \in Calls,
           NEW i, i = Rotations(c)!Planned(p, h)
    PROVE  i \in ItemOf(c) /\ PlannedOf(c, p, h, i)
<1> DEFINE x == Rotations(c)!PublicOf(p)
           st == IF x = 0 \/ pub[x].st = "assigned" THEN "pending" ELSE "skipped"
           n == IF x # 0 THEN pub[x].name ELSE IF h # "" THEN h ELSE "default"
<1>1. x \in Ids(c) /\ (x # 0 => x \in 1..c.maxPub)
  BY PublicOfIs
<1>2. n \in Calls
  <2>1. x # 0 => pub[x].name \in Calls
    BY <1>1 DEF RotationTyped
  <2> HIDE DEF x
  <2> QED BY <2>1, Zenon DEF Calls
<1>3. /\ Rotations(c)!Out \in ItemOf(c) /\ Rotations(c)!Out.new = 0
  BY OutIs, Zenon
<1>4. i = [Rotations(c)!Out EXCEPT !.st = st, !.old = x, !.name = n]
  BY DEF Rotations!Planned
<1>5. st \in {"pending", "skipped"}
  OBVIOUS
<1>6. x = Rotations(c)!PublicOf(p) /\ n = IF x # 0 THEN pub[x].name ELSE IF h # "" THEN h ELSE "default"
  OBVIOUS
<1> HIDE DEF x, st, n
<1>7. i \in ItemOf(c) /\ i.old = x /\ i.new = 0 /\ i.st = st /\ i.name = n
  BY <1>1, <1>2, <1>3, <1>4, <1>5, Zenon DEF ItemOf
<1> QED BY <1>5, <1>6, <1>7, Zenon DEF PlannedOf

\* What the first steps of a request do to it.
AskMoves(c, b) ==
    /\ UNCHANGED <<pub, job, thr>> /\ asker' \in AskersOf(c)
    /\ \A d \in c.askers \ {b} : asker'[d] = asker[d]
    /\ \/ asker'[b].pc \in {"idle", "shown"} /\ asker'[b].items = Rotations(c)!NoItems
       \/ /\ asker'[b].pc = "plan" /\ asker[b].pc = "shown" /\ ~Rotations(c)!Running
          /\ asker'[b].names = job.names /\ asker'[b].ids \in c.selections
          /\ asker'[b].items = asker[b].items
       \/ /\ asker'[b].pc = "save" /\ asker[b].pc = "plan"
          /\ \A p \in c.private :
                IF p \in asker[b].ids
                THEN PlannedOf(c, p, asker[b].names[p], asker'[b].items[p])
                ELSE asker'[b].items[p] = Rotations(c)!Out

LEMMA ShowMoves ==
    ASSUME NEW c, RotationTyped(c), c.maxPub \in Nat, NEW b \in c.askers, Rotations(c)!Show(b)
    PROVE  AskMoves(c, b)
<1> DEFINE sh == [p \in c.private |-> Rotations(c)!PublicOf(p)]
           e == [Rotations(c)!NoAsk EXCEPT !.pc = "shown", !.shown = sh]
<1>1. sh \in [c.private -> Ids(c)]
  BY PublicOfIs
<1>2. /\ asker' = [asker EXCEPT ![b] = e] /\ UNCHANGED <<pub, job, thr>>
  BY DEF Rotations!Show
<1>3. asker \in AskersOf(c)
  BY TypedIs
<1> HIDE DEF sh
<1>4. /\ e \in [pc: {"idle", "shown", "plan", "save"}, ids: SUBSET c.private,
                shown: [c.private -> Ids(c)], names: [c.private -> Calls], items: ItemsOf(c)]
      /\ e.pc = "shown" /\ e.items = Rotations(c)!NoItems
  BY <1>1, NoAskIs, Zenon
<1> HIDE DEF e
<1> QED BY <1>2, <1>3, <1>4 DEF AskMoves, AskersOf

LEMMA GiveUp ==
    ASSUME NEW c, RotationTyped(c), c.maxPub \in Nat, NEW b \in c.askers,
           asker' = [asker EXCEPT ![b] = Rotations(c)!NoAsk]
    PROVE  /\ asker' \in AskersOf(c) /\ asker'[b].pc = "idle"
           /\ asker'[b].items = Rotations(c)!NoItems
           /\ \A d \in c.askers \ {b} : asker'[d] = asker[d]
<1>1. asker \in AskersOf(c)
  BY TypedIs
<1> QED BY <1>1, NoAskIs DEF AskersOf

LEMMA AskHolds ==
    ASSUME NEW c, RotationTyped(c), Rotations(c)!IpRotationAssumption, NEW b \in c.askers,
           Rotations(c)!Ask(b), c.maxPub \in Nat
    PROVE  AskMoves(c, b)
<1>1. PICK xs \in c.selections :
         asker' = [asker EXCEPT ![b] = IF Rotations(c)!Running THEN Rotations(c)!NoAsk
                     ELSE [asker[b] EXCEPT !.pc = "plan", !.ids = xs, !.names = job.names]]
  BY Zenon DEF Rotations!Ask, RotationTyped
<1>2. UNCHANGED <<pub, job, thr>> /\ asker[b].pc = "shown"
  BY DEF Rotations!Ask
<1>3. asker \in AskersOf(c) /\ job.names \in [c.private -> Calls]
  BY TypedIs, Zenon DEF JobsOf
<1>4. xs \in SUBSET c.private
  BY DEF Rotations!IpRotationAssumption
<1>5. CASE Rotations(c)!Running
  BY <1>1, <1>2, <1>5, GiveUp, Zenon DEF AskMoves
<1>6. CASE ~Rotations(c)!Running
  <2> DEFINE e == [asker[b] EXCEPT !.pc = "plan", !.ids = xs, !.names = job.names]
  <2>1. /\ e \in [pc: {"idle", "shown", "plan", "save"}, ids: SUBSET c.private,
                  shown: [c.private -> Ids(c)], names: [c.private -> Calls], items: ItemsOf(c)]
        /\ e.pc = "plan" /\ e.names = job.names /\ e.ids = xs /\ e.items = asker[b].items
    BY <1>3, <1>4, Zenon DEF AskersOf
  <2>2. asker' = [asker EXCEPT ![b] = e]
    BY <1>1, <1>6
  <2> HIDE DEF e
  <2> QED BY <1>2, <1>3, <1>6, <2>1, <2>2 DEF AskMoves, AskersOf
<1> QED BY <1>5, <1>6

LEMMA PlanMoves ==
    ASSUME NEW c, RotationTyped(c), c.maxPub \in Nat, NEW b \in c.askers, Rotations(c)!Plan(b)
    PROVE  AskMoves(c, b)
<1> DEFINE q == asker[b]
           xs == [p \in c.private |-> IF p \in q.ids THEN Rotations(c)!Planned(p, q.names[p])
                                      ELSE Rotations(c)!Out]
<1>1. UNCHANGED <<pub, job, thr>> /\ q.pc = "plan"
  BY DEF Rotations!Plan
<1>2. \/ asker' = [asker EXCEPT ![b] = [q EXCEPT !.pc = "save", !.items = xs]]
      \/ asker' = [asker EXCEPT ![b] = Rotations(c)!NoAsk]
  BY Zenon DEF Rotations!Plan
<1>3. asker \in AskersOf(c)
  BY TypedIs
<1>4. CASE asker' = [asker EXCEPT ![b] = Rotations(c)!NoAsk]
  BY <1>1, <1>4, GiveUp, Zenon DEF AskMoves
<1>5. CASE asker' = [asker EXCEPT ![b] = [q EXCEPT !.pc = "save", !.items = xs]]
  <2>1. ASSUME NEW p \in c.private
        PROVE  /\ xs[p] \in ItemOf(c)
               /\ IF p \in q.ids THEN PlannedOf(c, p, q.names[p], xs[p])
                  ELSE xs[p] = Rotations(c)!Out
    <3>1. q.names[p] \in Calls
      BY <1>3 DEF AskersOf
    <3>2. CASE p \in q.ids
      BY <3>1, <3>2, PlannedIs
    <3>3. CASE p \notin q.ids
      BY <3>3, OutIs, Zenon
    <3> QED BY <3>2, <3>3
  <2>2. xs \in ItemsOf(c)
    <3>1. xs = [p \in c.private |-> xs[p]]
      OBVIOUS
    <3> HIDE DEF xs
    <3> QED BY <2>1, <3>1 DEF ItemsOf
  <2> DEFINE e == [q EXCEPT !.pc = "save", !.items = xs]
  <2> HIDE DEF xs
  <2>3. /\ e \in [pc: {"idle", "shown", "plan", "save"}, ids: SUBSET c.private,
                  shown: [c.private -> Ids(c)], names: [c.private -> Calls], items: ItemsOf(c)]
        /\ e.pc = "save" /\ e.items = xs
    BY <1>3, <2>2, Zenon DEF AskersOf
  <2>4. asker' = [asker EXCEPT ![b] = e]
    BY <1>5
  <2> HIDE DEF e
  <2>5. asker' \in AskersOf(c) /\ asker'[b] = e /\ \A d \in c.askers \ {b} : asker'[d] = asker[d]
    BY <1>3, <2>3, <2>4 DEF AskersOf
  <2> QED BY <1>1, <2>1, <2>3, <2>5 DEF AskMoves
<1> QED BY <1>2, <1>4, <1>5

\* The row is written, and a thread begins; or neither.
SaveMoves(c, b, w) ==
    /\ thr[w].pc = "none" /\ thr'[w].pc = "release" /\ thr' \in ThreadsOf(c)
    /\ \A v \in c.threads \ {w} : thr'[v] = thr[v]
    /\ \A p \in c.private :
          LET i == asker[b].items[p]  j == thr'[w].items[p] IN
          /\ j.old = i.old /\ j.new = i.new /\ j.name = i.name
          /\ j.st = IF i.st = "pending" /\ i.old = 0 THEN "released" ELSE i.st
    /\ job' \in [state: {"running"}, stale: {FALSE}, by: {w}, names: [c.private -> Calls],
                 done: {{}}, failed: {{}}]
    /\ \A p \in c.private : job'.names[p] = asker[b].items[p].name

LEMMA SaveHolds ==
    ASSUME NEW c, RotationTyped(c), c.maxPub \in Nat, NEW b \in c.askers, Rotations(c)!Save(b)
    PROVE  /\ pub' = pub /\ asker[b].pc = "save" /\ asker' \in AskersOf(c)
           /\ asker'[b].pc = "idle" /\ asker'[b].items = Rotations(c)!NoItems
           /\ \A d \in c.askers \ {b} : asker'[d] = asker[d]
           /\ UNCHANGED <<job, thr>> \/ \E w \in c.threads : SaveMoves(c, b, w)
<1> DEFINE xs == asker[b].items
           to(p) == IF xs[p].st = "pending" /\ xs[p].old = 0
                    THEN [xs[p] EXCEPT !.st = "released"] ELSE xs[p]
           ys == [p \in c.private |-> to(p)]
           ns == [p \in c.private |-> xs[p].name]
<1>1. /\ pub' = pub /\ asker[b].pc = "save" /\ asker' = [asker EXCEPT ![b] = Rotations(c)!NoAsk]
  BY DEF Rotations!Save
<1>2. xs \in ItemsOf(c)
  BY TypedIs DEF AskersOf
<1>3. ASSUME NEW p \in c.private
      PROVE  /\ to(p) \in ItemOf(c) /\ to(p).old = xs[p].old /\ to(p).new = xs[p].new
             /\ to(p).name = xs[p].name
             /\ to(p).st = IF xs[p].st = "pending" /\ xs[p].old = 0 THEN "released" ELSE xs[p].st
  <2>1. xs[p] \in ItemOf(c)
    BY <1>2 DEF ItemsOf
  <2> QED BY <2>1, Zenon DEF ItemOf
<1>4. ys \in ItemsOf(c) /\ \A p \in c.private : ys[p] = to(p)
  <2> HIDE DEF to
  <2> QED BY <1>3 DEF ItemsOf
<1>5. ns \in [c.private -> Calls] /\ \A p \in c.private : ns[p] = xs[p].name
  BY <1>2, Zenon DEF ItemsOf, ItemOf
<1>6. CASE UNCHANGED <<job, thr>>
  BY <1>1, <1>6, GiveUp, Zenon
<1>7. ASSUME NEW w \in c.threads, ~Rotations(c)!Live(w),
             thr' = [thr EXCEPT ![w] = [pc |-> "release", items |-> ys]],
             job' = [state |-> "running", stale |-> FALSE, by |-> w, names |-> ns,
                     done |-> {}, failed |-> {}]
      PROVE  SaveMoves(c, b, w)
  <2>1. thr \in ThreadsOf(c)
    BY TypedIs
  <2> HIDE DEF to, ys, ns
  <2>2. /\ thr' \in ThreadsOf(c) /\ thr'[w].pc = "release" /\ thr'[w].items = ys
        /\ \A v \in c.threads \ {w} : thr'[v] = thr[v]
    BY <1>4, <1>7, <2>1 DEF ThreadsOf
  <2>3. thr[w].pc = "none"
    BY <1>7 DEF Rotations!Live
  <2>4. job' \in [state: {"running"}, stale: {FALSE}, by: {w}, names: [c.private -> Calls],
                  done: {{}}, failed: {{}}] /\ job'.names = ns
    BY <1>5, <1>7
  <2>5. \A p \in c.private : job'.names[p] = asker[b].items[p].name
    BY <2>4, <1>5
  <2>6. \A p \in c.private :
          LET i == asker[b].items[p]  j == thr'[w].items[p] IN
          /\ j.old = i.old /\ j.new = i.new /\ j.name = i.name
          /\ j.st = IF i.st = "pending" /\ i.old = 0 THEN "released" ELSE i.st
    BY <2>2, <1>3, <1>4
  <2> QED BY <2>2, <2>3, <2>4, <2>5, <2>6, Zenon DEF SaveMoves
<1>8. CASE ~ UNCHANGED <<job, thr>>
  <2>1. PICK w \in c.threads :
           /\ ~Rotations(c)!Live(w)
           /\ thr' = [thr EXCEPT ![w] = [pc |-> "release", items |-> ys]]
           /\ job' = [state |-> "running", stale |-> FALSE, by |-> w, names |-> ns,
                      done |-> {}, failed |-> {}]
    BY <1>8 DEF Rotations!Save
  <2> HIDE DEF ys, ns
  <2> QED BY <1>1, <1>7, <2>1, GiveUp, Zenon
<1> QED BY <1>6, <1>8

\* What Oracle, or somebody else, does to a public address that was asked for.
SettleMoves(c, x) ==
    /\ pub' \in PubsOf(c) /\ \A y \in 1..c.maxPub \ {x} : pub'[y] = pub[y]
    /\ pub'[x].name = pub[x].name /\ pub'[x].at \in {pub[x].at, "nowhere", "elsewhere"}
    /\ \/ pub[x].st = "assigning" /\ pub'[x].st \in {"assigned", "available"}
       \/ pub[x].st = "terminating" /\ pub'[x].st \in {"terminating", "gone"}
       \/ pub[x].st = "available" /\ pub'[x].st = "assigned"
       \/ pub[x].st = "assigned" /\ pub'[x].st = "assigned" /\ "move" \in c.faults

LEMMA SettleHolds ==
    ASSUME NEW c, RotationTyped(c), NEW x \in 1..c.maxPub,
           Rotations(c)!Settle(x) \/ Rotations(c)!Take(x)
    PROVE  SettleMoves(c, x) /\ UNCHANGED <<job, thr, asker>>
<1>1. pub \in PubsOf(c)
  BY TypedIs
<1>2. UNCHANGED <<job, thr, asker>>
  BY DEF Rotations!Settle, Rotations!Take
<1>3. {"nowhere", "elsewhere"} \subseteq Homes(c)
  BY DEF Homes
<1>4. CASE pub[x].st = "assigning" /\ pub' = [pub EXCEPT ![x].st = "assigned"]
  BY <1>1, <1>2, <1>4 DEF SettleMoves, PubsOf
<1>5. CASE pub[x].st = "assigning" /\ pub' = [pub EXCEPT ![x].st = "available", ![x].at = "nowhere"]
  BY <1>1, <1>2, <1>3, <1>5 DEF SettleMoves, PubsOf
<1>6. ASSUME NEW st \in {"terminating", "gone"}, pub[x].st = "terminating",
             pub' = [pub EXCEPT ![x].st = st, ![x].at = "nowhere"]
      PROVE  SettleMoves(c, x)
  BY <1>1, <1>3, <1>6 DEF SettleMoves, PubsOf
<1>7. CASE /\ pub[x].st = "available" \/ (pub[x].st = "assigned" /\ "move" \in c.faults)
           /\ pub' = [pub EXCEPT ![x].st = "assigned", ![x].at = "elsewhere"]
  BY <1>1, <1>2, <1>3, <1>7 DEF SettleMoves, PubsOf
<1>8. \/ pub[x].st = "assigning" /\ pub' = [pub EXCEPT ![x].st = "assigned"]
      \/ pub[x].st = "assigning" /\ pub' = [pub EXCEPT ![x].st = "available", ![x].at = "nowhere"]
      \/ pub[x].st = "terminating"
         /\ \E st \in {"terminating", "gone"} : pub' = [pub EXCEPT ![x].st = st, ![x].at = "nowhere"]
      \/ /\ pub[x].st = "available" \/ (pub[x].st = "assigned" /\ "move" \in c.faults)
         /\ pub' = [pub EXCEPT ![x].st = "assigned", ![x].at = "elsewhere"]
  <2>1. CASE Rotations(c)!Take(x)
    <3>1. /\ \/ pub[x].st = "available"
             \/ pub[x].st = "assigned" /\ Rotations(c)!Fault("move")
          /\ pub' = [pub EXCEPT ![x].st = "assigned", ![x].at = "elsewhere"]
      BY <2>1 DEF Rotations!Take, Rotations!Elsewhere
    <3>2. Rotations(c)!Fault("move") => "move" \in c.faults
      BY Zenon DEF Rotations!Fault
    <3> QED BY <3>1, <3>2
  <2>2. CASE pub[x].st = "assigning" /\ Rotations(c)!Settle(x)
    BY <2>2 DEF Rotations!Settle, Rotations!Nowhere
  <2>3. CASE pub[x].st = "terminating" /\ Rotations(c)!Settle(x)
    <3> DEFINE st == IF pub[x].st = "terminating" /\ pub[x].at # "nowhere" THEN pub[x].st ELSE "gone"
    <3>1. pub' = [pub EXCEPT ![x].st = st, ![x].at = "nowhere"]
      BY <2>3, <1>1 DEF Rotations!Settle, Rotations!Nowhere, PubsOf
    <3>2. st \in {"terminating", "gone"}
      BY <2>3
    <3> HIDE DEF st
    <3> QED BY <2>3, <3>1, <3>2, Zenon
  <2> QED BY <2>1, <2>2, <2>3, Zenon DEF Rotations!Settle
<1> QED BY <1>2, <1>4, <1>5, <1>6, <1>7, <1>8

LEMMA CrashHolds ==
    ASSUME NEW c, RotationTyped(c), c.maxPub \in Nat, NEW w \in c.threads, Rotations(c)!Crash(w)
    PROVE  /\ UNCHANGED <<pub, job>> /\ thr' \in ThreadsOf(c) /\ asker' \in AskersOf(c)
           /\ thr'[w].pc = "none" /\ thr'[w].items = thr[w].items
           /\ \A v \in c.threads \ {w} : thr'[v] = thr[v]
           /\ \A b \in c.askers : \/ asker'[b] = asker[b] /\ asker[b].pc \notin {"plan", "save"}
                                  \/ asker'[b] = Rotations(c)!NoAsk
<1>1. /\ UNCHANGED <<pub, job>> /\ thr' = [thr EXCEPT ![w].pc = "none"]
      /\ asker' = [b \in c.askers |-> IF asker[b].pc \in {"plan", "save"}
                                      THEN Rotations(c)!NoAsk ELSE asker[b]]
  BY DEF Rotations!Crash
<1>2. thr \in ThreadsOf(c) /\ asker \in AskersOf(c)
  BY TypedIs
<1>3. /\ thr' \in ThreadsOf(c) /\ thr'[w].pc = "none" /\ thr'[w].items = thr[w].items
      /\ \A v \in c.threads \ {w} : thr'[v] = thr[v]
  BY <1>1, <1>2 DEF ThreadsOf
<1>4. \A b \in c.askers : \/ asker'[b] = asker[b] /\ asker[b].pc \notin {"plan", "save"}
                          \/ asker'[b] = Rotations(c)!NoAsk
  BY <1>1
<1>5. asker' \in AskersOf(c)
  BY <1>1, <1>2, NoAskIs DEF AskersOf
<1> QED BY <1>1, <1>3, <1>4, <1>5

LEMMA StaleHolds ==
    ASSUME NEW c, RotationTyped(c), Rotations(c)!GoStale
    PROVE  /\ UNCHANGED <<pub, thr, asker>> /\ job' \in JobsOf(c)
           /\ job'.state = "running" /\ job'.state = job.state /\ job'.by = job.by
           /\ job'.names = job.names
<1>1. /\ UNCHANGED <<pub, thr, asker>> /\ job' = [job EXCEPT !.stale = TRUE]
      /\ job.state = "running"
  BY DEF Rotations!GoStale
<1>2. job \in JobsOf(c)
  BY TypedIs
<1>3. /\ job' \in JobsOf(c) /\ job'.state = job.state /\ job'.by = job.by
      /\ job'.names = job.names
  BY <1>1, <1>2, Zenon DEF JobsOf
<1> QED BY <1>1, <1>3

\* With few addresses the row goes stale only when every thread is gone.
LEMMA StaleIsGone ==
    ASSUME NEW c, Rotations(c)!IpRotationAssumption, Rotations(c)!Steady, Rotations(c)!GoStale,
           NEW w \in c.threads
    PROVE  thr[w].pc = "none"
<1> DEFINE loose == {p \in c.private : thr[w].items[p].st = "rebind"}
<1>1. IsFiniteSet(c.private) /\ Cardinality(c.private) < c.many /\ c.many \in Nat
  BY DEF Rotations!Steady, Rotations!IpRotationAssumption, Rotations!IsFiniteSet, IsFiniteSet,
     Rotations!Cardinality, Cardinality
<1>2. IsFiniteSet(loose) /\ Cardinality(loose) <= Cardinality(c.private)
  BY <1>1, FS_Subset
<1>3. Cardinality(loose) \in Nat /\ Cardinality(c.private) \in Nat
  BY <1>1, <1>2, FS_CardinalityType
<1>4. ~(Cardinality(loose) >= c.many)
  <2> HIDE DEF loose
  <2> QED BY <1>1, <1>2, <1>3
<1>5. ~Rotations(c)!Silent(w)
  BY <1>4 DEF Rotations!Silent, Rotations!Cardinality, Cardinality
<1> QED BY <1>5 DEF Rotations!GoStale, Rotations!Live

\* Every step is one of these.
RotationMoves(c) ==
    \/ \E b \in c.askers : AskMoves(c, b)
    \/ \E b \in c.askers : Rotations(c)!Save(b)
    \/ \E w \in c.threads : Rotations(c)!Work(w) \/ Rotations(c)!TimesOut(w)
    \/ \E w \in c.threads : Rotations(c)!Crash(w)
    \/ \E x \in 1..c.maxPub : SettleMoves(c, x) /\ UNCHANGED <<job, thr, asker>>
    \/ Rotations(c)!GoStale

LEMMA RotationSteps ==
    ASSUME NEW c, RotationTyped(c), c.maxPub \in Nat, Rotations(c)!IpRotationAssumption,
           Rotations(c)!Next
    PROVE  RotationMoves(c)
<1>1. CASE \E b \in c.askers : \/ Rotations(c)!Show(b) \/ Rotations(c)!Ask(b)
                               \/ Rotations(c)!Plan(b) \/ Rotations(c)!Save(b)
  BY <1>1, ShowMoves, AskHolds, PlanMoves DEF RotationMoves
<1>2. CASE \E w \in c.threads : \/ Rotations(c)!Work(w) \/ Rotations(c)!TimesOut(w)
                                \/ Rotations(c)!Crash(w)
  BY <1>2 DEF RotationMoves
<1>3. CASE \E x \in 1..c.maxPub : Rotations(c)!Settle(x) \/ Rotations(c)!Take(x)
  BY <1>3, SettleHolds DEF RotationMoves
<1>4. CASE Rotations(c)!GoStale
  BY <1>4 DEF RotationMoves
<1> QED BY <1>1, <1>2, <1>3, <1>4 DEF Rotations!Next, Rotations!PubId

\* Types are kept.
LEMMA RotationTypeStep ==
    ASSUME NEW c, RotationTyped(c), c.maxPub \in Nat, RotationMoves(c)
    PROVE  RotationTyped(c)'
<1> USE TypedIs
<1>1. /\ pub \in PubsOf(c) /\ asker \in AskersOf(c) /\ thr \in ThreadsOf(c) /\ job \in JobsOf(c)
  OBVIOUS
<1>2. RotationTyped(c)' <=> /\ pub' \in PubsOf(c) /\ asker' \in AskersOf(c)
                            /\ thr' \in ThreadsOf(c) /\ job' \in JobsOf(c)
  BY Zenon DEF RotationTyped, PubsOf, AskersOf, ThreadsOf, JobsOf
<1>3. CASE \E b \in c.askers : AskMoves(c, b)
  BY <1>1, <1>2, <1>3 DEF AskMoves
<1>4. ASSUME NEW b \in c.askers, Rotations(c)!Save(b)
      PROVE  RotationTyped(c)'
  <2>1. pub' = pub /\ asker' \in AskersOf(c)
    BY <1>4, SaveHolds
  <2>2. UNCHANGED <<job, thr>> \/ \E w \in c.threads : SaveMoves(c, b, w)
    BY <1>4, SaveHolds
  <2>3. ASSUME NEW w \in c.threads, SaveMoves(c, b, w)
        PROVE  thr' \in ThreadsOf(c) /\ job' \in JobsOf(c)
    BY <2>3, Zenon DEF SaveMoves, JobsOf
  <2> QED BY <1>1, <1>2, <2>1, <2>2, <2>3
<1>5. CASE \E w \in c.threads : Rotations(c)!Work(w) \/ Rotations(c)!TimesOut(w)
  BY <1>5, WorkTyped
<1>6. CASE \E w \in c.threads : Rotations(c)!Crash(w)
  BY <1>1, <1>2, <1>6, CrashHolds
<1>7. CASE \E x \in 1..c.maxPub : SettleMoves(c, x) /\ UNCHANGED <<job, thr, asker>>
  BY <1>1, <1>2, <1>7 DEF SettleMoves
<1>8. CASE Rotations(c)!GoStale
  BY <1>1, <1>2, <1>8, StaleHolds
<1> QED BY <1>3, <1>4, <1>5, <1>6, <1>7, <1>8 DEF RotationMoves

LEMMA RotationInitTyped ==
    ASSUME NEW c, c.maxPub \in Nat, Rotations(c)!IpRotationAssumption, Rotations(c)!Init
    PROVE  /\ RotationTyped(c)
           /\ job.state = "none" /\ job.by = "none"
           /\ \A w \in c.threads : thr[w].pc = "none" /\ thr[w].items = Rotations(c)!NoItems
           /\ \A b \in c.askers : asker[b] = Rotations(c)!NoAsk
           /\ \A x \in 1..c.maxPub :
                 \/ pub[x].st = "none" /\ pub[x].at = "nowhere" /\ pub[x].name = ""
                 \/ /\ pub[x].st = "assigned" /\ pub[x].at \in c.private /\ pub[x].name = "own"
                    /\ c.bound[pub[x].at] = x
           /\ \A p \in c.private : c.bound[p] # 0 => pub[c.bound[p]].st = "assigned"
<1> DEFINE there(x) == CHOOSE p \in c.private : c.bound[p] = x
           to(x) == IF \E p \in c.private : c.bound[p] = x
                    THEN [st |-> "assigned", at |-> there(x), name |-> "own"]
                    ELSE [st |-> "none", at |-> "nowhere", name |-> ""]
<1>1. pub = [x \in 1..c.maxPub |-> to(x)]
  BY Zenon DEF Rotations!Init, Rotations!Nowhere, Rotations!PubId
<1>2. ASSUME NEW x \in 1..c.maxPub, \E p \in c.private : c.bound[p] = x
      PROVE  there(x) \in c.private /\ c.bound[there(x)] = x
  BY <1>2
<1> HIDE DEF there
<1>3. ASSUME NEW x \in 1..c.maxPub
      PROVE  /\ to(x) \in [st: {"none", "assigned", "assigning", "available", "terminating",
                                "gone"}, at: Homes(c), name: Calls]
             /\ \/ to(x).st = "none" /\ to(x).at = "nowhere" /\ to(x).name = ""
                \/ /\ to(x).st = "assigned" /\ to(x).at \in c.private /\ to(x).name = "own"
                   /\ c.bound[to(x).at] = x
             /\ (\E p \in c.private : c.bound[p] = x) => to(x).st = "assigned"
  BY <1>2 DEF Homes, Calls
<1> HIDE DEF to
<1>4. pub \in PubsOf(c) /\ \A x \in 1..c.maxPub : pub[x] = to(x)
  BY <1>1, <1>3, Zenon DEF PubsOf
<1>5. ASSUME NEW p \in c.private, c.bound[p] # 0
      PROVE  pub[c.bound[p]].st = "assigned"
  <2>1. c.bound[p] \in 1..c.maxPub
    BY <1>5 DEF Rotations!IpRotationAssumption
  <2>2. \E q \in c.private : c.bound[q] = c.bound[p]
    OBVIOUS
  <2>3. to(c.bound[p]).st = "assigned"
    BY <2>1, <2>2, <1>3, Zenon
  <2> QED BY <2>1, <2>3, <1>4
<1>6. /\ thr = [w \in c.threads |-> [pc |-> "none", items |-> Rotations(c)!NoItems]]
      /\ asker = [b \in c.askers |-> Rotations(c)!NoAsk]
      /\ job = [state |-> "none", stale |-> FALSE, by |-> "none",
                names |-> [p \in c.private |-> ""], done |-> {}, failed |-> {}]
  BY Zenon DEF Rotations!Init
<1>7. thr \in ThreadsOf(c)
  BY <1>6, OutIs, Zenon DEF ThreadsOf
<1>8. asker \in AskersOf(c)
  BY <1>6, NoAskIs, Zenon DEF AskersOf
<1>9. job \in JobsOf(c)
  <2>1. [p \in c.private |-> ""] \in [c.private -> Calls]
    BY DEF Calls
  <2> QED BY <1>6, <2>1, Zenon DEF JobsOf
<1>10. RotationTyped(c)
  BY <1>4, <1>7, <1>8, <1>9, TypedIs
<1>11. \A x \in 1..c.maxPub :
          \/ pub[x].st = "none" /\ pub[x].at = "nowhere" /\ pub[x].name = ""
          \/ /\ pub[x].st = "assigned" /\ pub[x].at \in c.private /\ pub[x].name = "own"
             /\ c.bound[pub[x].at] = x
  <2> TAKE x \in 1..c.maxPub
  <2>1. \/ to(x).st = "none" /\ to(x).at = "nowhere" /\ to(x).name = ""
        \/ /\ to(x).st = "assigned" /\ to(x).at \in c.private /\ to(x).name = "own"
           /\ c.bound[to(x).at] = x
    BY <1>3, Zenon
  <2>2. pub[x] = to(x)
    BY <1>4
  <2> QED BY <2>1, <2>2, Zenon
<1> QED BY <1>5, <1>6, <1>10, <1>11, Zenon

\* A public address is bound to one private address, and planned for no other.
Ties(c, x, p) ==
    \/ pub[x].at = p
    \/ \E w \in c.threads : thr[w].items[p].old = x \/ thr[w].items[p].new = x
    \/ \E b \in c.askers : asker[b].items[p].old = x

Tied(c) ==
    \A x \in 1..c.maxPub, p \in c.private : Ties(c, x, p) =>
       pub[x].st # "none" /\ \A q \in c.private : Ties(c, x, q) => p = q

\* Items of a plan, and of a thread.
Planning(c) ==
    /\ \A b \in c.askers, p \in c.private :
          asker[b].items[p].st \in {"out", "pending", "skipped"} /\ asker[b].items[p].new = 0
    /\ \A w \in c.threads, p \in c.private :
          /\ thr[w].items[p].st \in Holding => thr[w].items[p].new # 0
          /\ thr[w].items[p].st = "pending" => thr[w].items[p].old # 0

TiesGrow(c) ==
    /\ \A x \in 1..c.maxPub : pub'[x].st = "none" => pub[x].st = "none"
    /\ \A x \in 1..c.maxPub, p \in c.private : Ties(c, x, p)' =>
          \/ Ties(c, x, p)
          \/ pub[x].st = "none" /\ pub'[x].st # "none" /\ pub'[x].at = p

LEMMA TiedKept ==
    ASSUME NEW c, Tied(c), TiesGrow(c)
    PROVE  Tied(c)'
<1> SUFFICES ASSUME NEW x \in 1..c.maxPub, NEW p \in c.private, Ties(c, x, p)'
             PROVE  pub'[x].st # "none" /\ \A q \in c.private : Ties(c, x, q)' => p = q
  BY DEF Tied
<1>1. \A q \in c.private : Ties(c, x, q)' =>
         \/ Ties(c, x, q)
         \/ pub[x].st = "none" /\ pub'[x].st # "none" /\ pub'[x].at = q
  BY DEF TiesGrow
<1>2. \A q \in c.private : Ties(c, x, q) => pub[x].st # "none"
  BY DEF Tied
<1>3. pub'[x].st # "none"
  BY <1>1, <1>2 DEF TiesGrow
<1>4. \A q, r \in c.private : Ties(c, x, q) /\ Ties(c, x, r) => q = r
  BY DEF Tied
<1>5. ASSUME NEW q \in c.private, Ties(c, x, q)'
      PROVE  p = q
  BY <1>1, <1>2, <1>4, <1>5
<1> QED BY <1>3, <1>5

LEMMA WorkTies ==
    ASSUME NEW c, RotationTyped(c), c.maxPub \in Nat, NEW w \in c.threads,
           Rotations(c)!Work(w) \/ Rotations(c)!TimesOut(w)
    PROVE  TiesGrow(c)
<1>1. /\ thr'[w].items \in ItemsOf(c) /\ PubMoves(c, w)
      /\ \A p \in c.private : ItemMoves(c, p, thr[w].items[p], thr'[w].items[p])
  BY WorkMoves DEF WorkHolds
<1>2. asker' = asker /\ \A v \in c.threads \ {w} : thr'[v] = thr[v]
  BY WorkTyped
<1>3. \A x \in 1..c.maxPub : \/ pub'[x] = pub[x] \/ Deleted(c, w, x)
                             \/ Rebound(c, w, x) \/ Created(c, w, x)
  BY <1>1, WorkPubs
<1>4. ASSUME NEW x \in 1..c.maxPub
      PROVE  /\ pub'[x].st = "none" => pub[x].st = "none"
             /\ \A p \in c.private : pub'[x].at = p =>
                   \/ Ties(c, x, p)
                   \/ pub[x].st = "none" /\ pub'[x].st # "none" /\ pub'[x].at = p
  <2>1. CASE pub'[x] = pub[x]
    BY <2>1 DEF Ties
  <2>2. CASE Deleted(c, w, x)
    BY <2>2 DEF Deleted, Ties
  <2>3. CASE Rebound(c, w, x)
    BY <2>3 DEF Rebound, Ties
  <2>4. CASE Created(c, w, x)
    BY <2>4 DEF Created
  <2> QED BY <1>3, <2>1, <2>2, <2>3, <2>4
<1>5. ASSUME NEW x \in 1..c.maxPub, NEW p \in c.private,
             thr'[w].items[p].old = x \/ thr'[w].items[p].new = x
      PROVE  \/ Ties(c, x, p)
             \/ pub[x].st = "none" /\ pub'[x].st # "none" /\ pub'[x].at = p
  <2> DEFINE i == thr[w].items[p]  j == thr'[w].items[p]
  <2>1. /\ j.old = i.old
        /\ \/ j.new = i.new
           \/ j.new = Rotations(c)!PublicOf(p) /\ j.new # 0
           \/ Rotations(c)!Creates(p, i.name) /\ j.new = Rotations(c)!Least(Rotations(c)!Fresh)
    BY <1>1 DEF ItemMoves
  <2>2. CASE i.old = x \/ i.new = x
    BY <2>2 DEF Ties
  <2>3. CASE x = Rotations(c)!PublicOf(p) /\ x # 0
    <3>1. pub[x].at = p
      BY <2>3, PublicOfIs
    <3> QED BY <3>1 DEF Ties
  <2>4. CASE Rotations(c)!Creates(p, i.name) /\ x = Rotations(c)!Least(Rotations(c)!Fresh)
    <3>0. i \in ItemOf(c)
      BY DEF RotationTyped, ItemsOf
    <3>1. i.name \in Calls
      BY <3>0, Zenon DEF ItemOf
    <3>2. pub[x].st = "none" /\ pub'[x].st = "assigning" /\ pub'[x].at = p
      BY <2>4, <3>1, CreatesIs
    <3> QED BY <3>2
  <2> QED BY <1>5, <2>1, <2>2, <2>3, <2>4
<1>6. ASSUME NEW x \in 1..c.maxPub, NEW p \in c.private, Ties(c, x, p)'
      PROVE  \/ Ties(c, x, p)
             \/ pub[x].st = "none" /\ pub'[x].st # "none" /\ pub'[x].at = p
  <2>1. CASE pub'[x].at = p
    BY <1>4, <2>1
  <2>2. ASSUME NEW v \in c.threads, thr'[v].items[p].old = x \/ thr'[v].items[p].new = x
        PROVE  \/ Ties(c, x, p)
               \/ pub[x].st = "none" /\ pub'[x].st # "none" /\ pub'[x].at = p
    <3>1. CASE v = w
      BY <1>5, <2>2, <3>1
    <3>2. CASE v # w
      BY <1>2, <2>2, <3>2 DEF Ties
    <3> QED BY <3>1, <3>2
  <2>3. CASE \E b \in c.askers : asker'[b].items[p].old = x
    BY <1>2, <2>3 DEF Ties
  <2> QED BY <1>6, <2>1, <2>2, <2>3 DEF Ties
<1> QED BY <1>4, <1>6 DEF TiesGrow

LEMMA TiesHold ==
    ASSUME NEW c, RotationTyped(c), c.maxPub \in Nat, RotationMoves(c), Planning(c),
           {"nowhere", "elsewhere"} \cap c.private = {}
    PROVE  TiesGrow(c)
<1>0. \A x \in 1..c.maxPub : x # 0
  OBVIOUS
<1>1. \A p \in c.private : /\ Rotations(c)!Out.old = 0 /\ Rotations(c)!NoItems[p] = Rotations(c)!Out
                           /\ Rotations(c)!NoAsk.items = Rotations(c)!NoItems
  BY OutIs, NoAskIs, Zenon
<1>2. ASSUME NEW b \in c.askers, AskMoves(c, b)
      PROVE  TiesGrow(c)
  <2>1. /\ pub' = pub /\ thr' = thr /\ \A d \in c.askers \ {b} : asker'[d] = asker[d]
    BY <1>2 DEF AskMoves
  <2>2. ASSUME NEW x \in 1..c.maxPub, NEW p \in c.private, asker'[b].items[p].old = x
        PROVE  Ties(c, x, p)
    <3>0. x # 0
      BY <1>0
    <3>1. CASE asker'[b].items = Rotations(c)!NoItems
      BY <1>1, <2>2, <3>0, <3>1
    <3>2. CASE asker'[b].items = asker[b].items
      BY <2>2, <3>2 DEF Ties
    <3>3. CASE IF p \in asker[b].ids
               THEN PlannedOf(c, p, asker[b].names[p], asker'[b].items[p])
               ELSE asker'[b].items[p] = Rotations(c)!Out
      <4>1. asker'[b].items[p] # Rotations(c)!Out
        BY <1>1, <2>2, <3>0
      <4>2. x = Rotations(c)!PublicOf(p)
        BY <2>2, <3>3, <4>1, Zenon DEF PlannedOf
      <4>3. pub[x].at = p
        BY <3>0, <4>2, PublicOfIs
      <4> QED BY <4>3 DEF Ties
    <3> QED BY <1>2, <3>1, <3>2, <3>3 DEF AskMoves
  <2> QED BY <2>1, <2>2 DEF TiesGrow, Ties
<1>3. ASSUME NEW b \in c.askers, Rotations(c)!Save(b)
      PROVE  TiesGrow(c)
  <2>1. /\ pub' = pub /\ asker'[b].items = Rotations(c)!NoItems
        /\ \A d \in c.askers \ {b} : asker'[d] = asker[d]
    BY <1>3, SaveHolds
  <2>2. UNCHANGED <<job, thr>> \/ \E w \in c.threads : SaveMoves(c, b, w)
    BY <1>3, SaveHolds
  <2>3. ASSUME NEW x \in 1..c.maxPub, NEW p \in c.private, NEW d \in c.askers,
               asker'[d].items[p].old = x
        PROVE  Ties(c, x, p)
    <3>1. CASE d = b
      BY <1>0, <1>1, <2>1, <2>3, <3>1
    <3>2. CASE d # b
      BY <2>1, <2>3, <3>2 DEF Ties
    <3> QED BY <3>1, <3>2
  <2>4. CASE UNCHANGED <<job, thr>>
    BY <2>1, <2>3, <2>4 DEF TiesGrow, Ties
  <2>5. ASSUME NEW w \in c.threads, SaveMoves(c, b, w), NEW x \in 1..c.maxPub,
               NEW p \in c.private, NEW v \in c.threads,
               thr'[v].items[p].old = x \/ thr'[v].items[p].new = x
        PROVE  Ties(c, x, p)
    <3>1. CASE v = w
      <4>1. asker[b].items[p].new = 0
        BY DEF Planning
      <4>2. thr'[w].items[p].old = asker[b].items[p].old /\ thr'[w].items[p].new = 0
        BY <2>5, <4>1 DEF SaveMoves
      <4>3. asker[b].items[p].old = x
        BY <1>0, <2>5, <3>1, <4>2
      <4> QED BY <4>3 DEF Ties
    <3>2. CASE v # w
      BY <2>5, <3>2 DEF SaveMoves, Ties
    <3> QED BY <3>1, <3>2
  <2>6. ASSUME NEW w \in c.threads, SaveMoves(c, b, w)
        PROVE  TiesGrow(c)
    <3>1. \A x \in 1..c.maxPub, p \in c.private, v \in c.threads :
             thr'[v].items[p].old = x \/ thr'[v].items[p].new = x => Ties(c, x, p)
      BY <2>5, <2>6
    <3> QED BY <2>1, <2>3, <3>1 DEF TiesGrow, Ties
  <2> QED BY <2>2, <2>4, <2>6
<1>4. ASSUME NEW w \in c.threads, Rotations(c)!Crash(w)
      PROVE  TiesGrow(c)
  <2>1. pub' = pub /\ \A v \in c.threads : thr'[v].items = thr[v].items
    BY <1>4, CrashHolds
  <2>2. \A b \in c.askers : asker'[b] = asker[b] \/ asker'[b] = Rotations(c)!NoAsk
    BY <1>4, CrashHolds
  <2>3. \A x \in 1..c.maxPub, p \in c.private, b \in c.askers :
           asker'[b].items[p].old = x => asker[b].items[p].old = x
    BY <1>0, <1>1, <2>2
  <2> QED BY <2>1, <2>3 DEF TiesGrow, Ties
<1>5. ASSUME NEW y \in 1..c.maxPub, SettleMoves(c, y), UNCHANGED <<job, thr, asker>>
      PROVE  TiesGrow(c)
  <2>1. \A x \in 1..c.maxPub : pub'[x].st = "none" => pub[x].st = "none"
    BY <1>5 DEF SettleMoves
  <2>2. \A x \in 1..c.maxPub, p \in c.private : pub'[x].at = p => pub[x].at = p
    BY <1>5 DEF SettleMoves
  <2> QED BY <1>5, <2>1, <2>2 DEF TiesGrow, Ties
<1>6. CASE Rotations(c)!GoStale
  BY <1>6, StaleHolds DEF TiesGrow, Ties
<1> QED BY <1>2, <1>3, <1>4, <1>5, <1>6, WorkTies DEF RotationMoves

LEMMA PlanningKept ==
    ASSUME NEW c, RotationTyped(c), c.maxPub \in Nat, RotationMoves(c), Planning(c)
    PROVE  Planning(c)'
<1>1. \A p \in c.private : /\ Rotations(c)!Out.st = "out" /\ Rotations(c)!Out.new = 0
                           /\ Rotations(c)!NoItems[p] = Rotations(c)!Out
                           /\ Rotations(c)!NoAsk.items = Rotations(c)!NoItems
  BY OutIs, NoAskIs, Zenon
<1>2. ASSUME NEW b \in c.askers, AskMoves(c, b)
      PROVE  Planning(c)'
  <2>1. ASSUME NEW p \in c.private
        PROVE  /\ asker'[b].items[p].st \in {"out", "pending", "skipped"}
               /\ asker'[b].items[p].new = 0
    <3>1. CASE asker'[b].items = Rotations(c)!NoItems
      BY <1>1, <3>1
    <3>2. CASE asker'[b].items = asker[b].items
      BY <3>2 DEF Planning
    <3>3. CASE IF p \in asker[b].ids
               THEN PlannedOf(c, p, asker[b].names[p], asker'[b].items[p])
               ELSE asker'[b].items[p] = Rotations(c)!Out
      BY <1>1, <3>3, Zenon DEF PlannedOf
    <3> QED BY <1>2, <3>1, <3>2, <3>3 DEF AskMoves
  <2> QED BY <1>2, <2>1 DEF AskMoves, Planning
<1>3. ASSUME NEW b \in c.askers, Rotations(c)!Save(b)
      PROVE  Planning(c)'
  <2>1. /\ asker'[b].items = Rotations(c)!NoItems
        /\ \A d \in c.askers \ {b} : asker'[d] = asker[d]
    BY <1>3, SaveHolds
  <2>2. \A d \in c.askers, p \in c.private : /\ asker'[d].items[p].st \in {"out", "pending", "skipped"}
                                             /\ asker'[d].items[p].new = 0
    BY <1>1, <2>1 DEF Planning
  <2>3. UNCHANGED <<job, thr>> \/ \E w \in c.threads : SaveMoves(c, b, w)
    BY <1>3, SaveHolds
  <2>4. ASSUME NEW w \in c.threads, SaveMoves(c, b, w), NEW p \in c.private
        PROVE  /\ thr'[w].items[p].st \notin Holding
               /\ thr'[w].items[p].st = "pending" => thr'[w].items[p].old # 0
    <3>1. asker[b].items[p].st \in {"out", "pending", "skipped"}
      BY DEF Planning
    <3> QED BY <2>4, <3>1 DEF SaveMoves, Holding
  <2>5. ASSUME NEW w \in c.threads, SaveMoves(c, b, w)
        PROVE  \A v \in c.threads \ {w} : thr'[v] = thr[v]
    BY <2>5 DEF SaveMoves
  <2> QED BY <2>2, <2>3, <2>4, <2>5 DEF Planning
<1>4. ASSUME NEW w \in c.threads, Rotations(c)!Work(w) \/ Rotations(c)!TimesOut(w)
      PROVE  Planning(c)'
  <2>1. \A p \in c.private : ItemMoves(c, p, thr[w].items[p], thr'[w].items[p])
    BY <1>4, WorkMoves DEF WorkHolds
  <2>2. asker' = asker /\ \A v \in c.threads \ {w} : thr'[v] = thr[v]
    BY <1>4, WorkTyped
  <2>3. ASSUME NEW p \in c.private
        PROVE  /\ thr'[w].items[p].st \in Holding => thr'[w].items[p].new # 0
               /\ thr'[w].items[p].st = "pending" => thr'[w].items[p].old # 0
    <3>1. /\ thr[w].items[p].st \in Holding => thr[w].items[p].new # 0
          /\ thr[w].items[p].st = "pending" => thr[w].items[p].old # 0
      BY DEF Planning
    <3> QED BY <2>1, <3>1 DEF ItemMoves
  <2> QED BY <2>2, <2>3 DEF Planning
<1>5. ASSUME NEW w \in c.threads, Rotations(c)!Crash(w)
      PROVE  Planning(c)'
  <2>1. \A v \in c.threads : thr'[v].items = thr[v].items
    BY <1>5, CrashHolds
  <2>2. \A b \in c.askers : asker'[b] = asker[b] \/ asker'[b] = Rotations(c)!NoAsk
    BY <1>5, CrashHolds
  <2>3. \A b \in c.askers, p \in c.private : /\ asker'[b].items[p].st \in {"out", "pending", "skipped"}
                                             /\ asker'[b].items[p].new = 0
    BY <1>1, <2>2 DEF Planning
  <2> QED BY <2>1, <2>3 DEF Planning
<1>6. CASE \E x \in 1..c.maxPub : SettleMoves(c, x) /\ UNCHANGED <<job, thr, asker>>
  BY <1>6 DEF Planning
<1>7. CASE Rotations(c)!GoStale
  BY <1>7, StaleHolds DEF Planning
<1> QED BY <1>2, <1>3, <1>4, <1>5, <1>6, <1>7 DEF RotationMoves

\* What holds of every part about rotations.
RotationHold(c) == RotationTyped(c) /\ Tied(c) /\ Planning(c)
RotationFacts(c) ==
    /\ c.maxPub \in Nat /\ Rotations(c)!IpRotationAssumption
    /\ {"nowhere", "elsewhere"} \cap c.private = {}

LEMMA RotationHoldInit ==
    ASSUME NEW c, RotationFacts(c), Rotations(c)!Init
    PROVE  RotationHold(c)
<1>1. /\ RotationTyped(c)
      /\ \A w \in c.threads : thr[w].pc = "none" /\ thr[w].items = Rotations(c)!NoItems
      /\ \A b \in c.askers : asker[b] = Rotations(c)!NoAsk
      /\ \A x \in 1..c.maxPub :
            \/ pub[x].st = "none" /\ pub[x].at = "nowhere" /\ pub[x].name = ""
            \/ /\ pub[x].st = "assigned" /\ pub[x].at \in c.private /\ pub[x].name = "own"
               /\ c.bound[pub[x].at] = x
  BY RotationInitTyped, Zenon DEF RotationFacts
<1>2. \A p \in c.private : /\ Rotations(c)!Out.st = "out" /\ Rotations(c)!Out.new = 0
                           /\ Rotations(c)!Out.old = 0
                           /\ Rotations(c)!NoItems[p] = Rotations(c)!Out
                           /\ Rotations(c)!NoAsk.items = Rotations(c)!NoItems
  BY OutIs, NoAskIs, Zenon DEF RotationFacts
<1>3. \A w \in c.threads, p \in c.private :
         /\ thr[w].items[p].st = "out" /\ thr[w].items[p].old = 0 /\ thr[w].items[p].new = 0
  <2> TAKE w \in c.threads, p \in c.private
  <2>1. thr[w].items = Rotations(c)!NoItems
    BY <1>1, Zenon
  <2>2. thr[w].items[p] = Rotations(c)!Out
    BY <2>1, <1>2
  <2> QED BY <2>2, <1>2
<1>4. \A b \in c.askers, p \in c.private :
         /\ asker[b].items[p].st = "out" /\ asker[b].items[p].old = 0
         /\ asker[b].items[p].new = 0
  <2> TAKE b \in c.askers, p \in c.private
  <2>1. asker[b] = Rotations(c)!NoAsk
    BY <1>1, Zenon
  <2>2. asker[b].items[p] = Rotations(c)!Out
    BY <2>1, <1>2
  <2> QED BY <2>2, <1>2
<1>5. Planning(c)
  BY <1>3, <1>4 DEF Planning, Holding
<1>6. \A x \in 1..c.maxPub : x # 0
  BY DEF RotationFacts
<1>7. ASSUME NEW x \in 1..c.maxPub, NEW p \in c.private, Ties(c, x, p)
      PROVE  pub[x].at = p /\ pub[x].st # "none"
  <2>1. pub[x].at = p
    BY <1>3, <1>4, <1>6, <1>7 DEF Ties
  <2>2. p # "nowhere"
    BY DEF RotationFacts
  <2> QED BY <1>1, <2>1, <2>2, Zenon
<1>8. Tied(c)
  BY <1>7 DEF Tied
<1> QED BY <1>1, <1>5, <1>8, Zenon DEF RotationHold

LEMMA RotationHoldNext ==
    ASSUME NEW c, RotationFacts(c), RotationHold(c), Rotations(c)!Next
    PROVE  RotationMoves(c) /\ RotationHold(c)'
<1>1. RotationMoves(c)
  BY RotationSteps DEF RotationFacts, RotationHold
<1>2. RotationTyped(c)'
  BY <1>1, RotationTypeStep DEF RotationFacts, RotationHold
<1>3. Tied(c)'
  BY <1>1, TiesHold, TiedKept DEF RotationFacts, RotationHold
<1>4. Planning(c)'
  BY <1>1, PlanningKept DEF RotationFacts, RotationHold
<1> QED BY <1>1, <1>2, <1>3, <1>4 DEF RotationHold

LEMMA WorkLive ==
    ASSUME NEW c, NEW w \in c.threads, Rotations(c)!Work(w) \/ Rotations(c)!TimesOut(w)
    PROVE  thr[w].pc # "none"
BY Zenon
   DEF Rotations!Work, Rotations!TimesOut, Rotations!NoDeletes, Rotations!Look, Rotations!Finish,
       Rotations!Delete, Rotations!Rebind, Rotations!Create

\* What a step does to a public address, whoever takes it.
LEMMA PubSteps ==
    ASSUME NEW c, RotationTyped(c), c.maxPub \in Nat, RotationMoves(c), NEW x \in 1..c.maxPub
    PROVE  \/ pub'[x] = pub[x]
           \/ \E w \in c.threads : /\ Rotations(c)!Work(w) \/ Rotations(c)!TimesOut(w)
                                   /\ \/ Deleted(c, w, x) \/ Rebound(c, w, x)
                                      \/ Created(c, w, x)
           \/ SettleMoves(c, x)
<1>1. CASE \E b \in c.askers : AskMoves(c, b)
  BY <1>1 DEF AskMoves
<1>2. CASE \E b \in c.askers : Rotations(c)!Save(b)
  BY <1>2, SaveHolds
<1>3. ASSUME NEW w \in c.threads, Rotations(c)!Work(w) \/ Rotations(c)!TimesOut(w)
      PROVE  \/ pub'[x] = pub[x] \/ Deleted(c, w, x) \/ Rebound(c, w, x) \/ Created(c, w, x)
  <2>1. PubMoves(c, w)
    BY <1>3, WorkMoves DEF WorkHolds
  <2> QED BY <2>1, WorkPubs
<1>4. CASE \E w \in c.threads : Rotations(c)!Crash(w)
  BY <1>4, CrashHolds
<1>5. CASE \E y \in 1..c.maxPub : SettleMoves(c, y) /\ UNCHANGED <<job, thr, asker>>
  BY <1>5 DEF SettleMoves
<1>6. CASE Rotations(c)!GoStale
  BY <1>6, StaleHolds
<1> QED BY <1>1, <1>2, <1>3, <1>4, <1>5, <1>6 DEF RotationMoves

\* What a thread is to delete, its user has agreed to lose; and of a request that says what
\* its user was shown, whatever its plan has found is that.
Consents(c) ==
    /\ agreed \in [c.threads -> [c.private -> SUBSET Ids(c)]]
    /\ \A w \in c.threads, p \in c.private :
          thr[w].items[p].old # 0 => thr[w].items[p].old \in agreed[w][p]
    /\ \A b \in c.askers : asker[b].pc = "save" /\ c.checked[b] =>
          \A p \in c.private : asker[b].items[p].old \in {0, asker[b].shown[p]}

LEMMA ConsentsInit ==
    ASSUME NEW c, RotationFacts(c), Rotations(c)!Init
    PROVE  Consents(c)
<1>1. /\ \A w \in c.threads : thr[w].items = Rotations(c)!NoItems
      /\ \A b \in c.askers : asker[b] = Rotations(c)!NoAsk
  BY RotationInitTyped, Zenon DEF RotationFacts
<1>2. /\ \A p \in c.private : Rotations(c)!NoItems[p].old = 0
      /\ Rotations(c)!NoAsk.pc = "idle"
  BY OutIs, NoAskIs DEF RotationFacts
<1>3. agreed = [w \in c.threads |-> [p \in c.private |-> {}]]
  BY DEF Rotations!Init
<1> QED BY <1>1, <1>2, <1>3 DEF Consents

\* A plan, of a request that says what its user was shown.
LEMMA PlanConsents ==
    ASSUME NEW c, RotationFacts(c), RotationHold(c), NEW b \in c.askers, Rotations(c)!Plan(b),
           asker'[b].pc = "save", c.checked[b], NEW p \in c.private
    PROVE  asker'[b].items[p].old \in {0, asker'[b].shown[p]}
<1> DEFINE q == asker[b]
           to(x) == IF x \in q.ids THEN Rotations(c)!Planned(x, q.names[x]) ELSE Rotations(c)!Out
           items == [x \in c.private |-> to(x)]
<1>1. asker \in AskersOf(c) /\ c.maxPub \in Nat
  BY TypedIs DEF RotationHold, RotationFacts
<1>2. Rotations(c)!NoAsk.pc = "idle"
  BY <1>1, NoAskIs
<1>3. asker' \in {[asker EXCEPT ![b] = [q EXCEPT !.pc = "save", !.items = items]],
                  [asker EXCEPT ![b] = Rotations(c)!NoAsk]}
  BY Zenon DEF Rotations!Plan
<1>4. /\ asker' = [asker EXCEPT ![b] = [q EXCEPT !.pc = "save", !.items = items]]
      /\ \A x \in q.ids : items[x].old = q.shown[x]
  <2>1. CASE asker' = [asker EXCEPT ![b] = Rotations(c)!NoAsk]
    BY <1>1, <1>2, <2>1 DEF AskersOf
  <2>2. (\A x \in q.ids : items[x].old = q.shown[x])
        \/ asker' = [asker EXCEPT ![b] = Rotations(c)!NoAsk]
    BY Zenon DEF Rotations!Plan
  <2> QED BY <1>3, <2>1, <2>2
<1>5. items[p] = to(p)
  OBVIOUS
<1>6. Rotations(c)!Out.old = 0
  BY <1>1, OutIs
<1>7. p \notin q.ids => items[p].old = 0
  BY <1>5, <1>6
<1> HIDE DEF items
<1>8. asker'[b].items = items /\ asker'[b].shown = q.shown
  BY <1>1, <1>4 DEF AskersOf
<1> QED BY <1>4, <1>7, <1>8

LEMMA ConsentsNext ==
    ASSUME NEW c, RotationFacts(c), RotationHold(c), Rotations(c)!Next, Consents(c)
    PROVE  Consents(c)'
<1>0. RotationTyped(c) /\ c.maxPub \in Nat /\ asker \in AskersOf(c) /\ thr \in ThreadsOf(c)
  BY TypedIs DEF RotationFacts, RotationHold
<1>1. Rotations(c)!NoAsk.pc = "idle"
  BY <1>0, NoAskIs
<1>2. ASSUME NEW b \in c.askers,
             Rotations(c)!Show(b) \/ Rotations(c)!Ask(b) \/ Rotations(c)!Plan(b)
      PROVE  Consents(c)'
  <2>1. UNCHANGED <<thr, agreed>> /\ \A d \in c.askers \ {b} : asker'[d] = asker[d]
    BY <1>0, <1>2 DEF Rotations!Show, Rotations!Ask, Rotations!Plan, AskersOf
  <2>2. ASSUME Rotations(c)!Show(b)
        PROVE  asker'[b].pc # "save"
    <3>1. asker'[b] = [Rotations(c)!NoAsk EXCEPT !.pc = "shown",
                          !.shown = [p \in c.private |-> Rotations(c)!PublicOf(p)]]
      BY <1>0, <2>2 DEF Rotations!Show, AskersOf
    <3> QED BY <1>0, <3>1, NoAskIs
  <2>3. ASSUME Rotations(c)!Ask(b)
        PROVE  asker'[b].pc # "save"
    BY <1>0, <1>1, <2>3 DEF Rotations!Ask, AskersOf
  <2>4. asker'[b].pc = "save" /\ c.checked[b] =>
           \A p \in c.private : asker'[b].items[p].old \in {0, asker'[b].shown[p]}
    BY <1>2, <2>2, <2>3, PlanConsents
  <2> QED BY <2>1, <2>4 DEF Consents
<1>3. ASSUME NEW b \in c.askers, Rotations(c)!Save(b)
      PROVE  Consents(c)'
  <2>1. /\ asker[b].pc = "save" /\ asker'[b].pc = "idle"
        /\ \A d \in c.askers \ {b} : asker'[d] = asker[d]
    BY <1>0, <1>3, SaveHolds
  <2>2. CASE UNCHANGED <<thr, agreed>>
    BY <2>1, <2>2 DEF Consents
  <2> DEFINE may == [p \in c.private |-> IF c.checked[b] THEN {asker[b].shown[p]} ELSE 0..c.maxPub]
  <2>3. ASSUME ~ UNCHANGED <<thr, agreed>>
        PROVE  Consents(c)'
    <3>1. PICK w \in c.threads :
             /\ ~Rotations(c)!Live(w) /\ agreed' = [agreed EXCEPT ![w] = may]
             /\ \E xs : thr' = [thr EXCEPT ![w] = [pc |-> "release", items |-> xs]]
      BY <1>3, <2>3 DEF Rotations!Save
    <3>2. /\ \A v \in c.threads \ {w} : thr'[v] = thr[v]
          /\ \A p \in c.private : thr'[w].items[p].old = asker[b].items[p].old
      <4>1. CASE \E v \in c.threads : SaveMoves(c, b, v)
        <5>1. PICK v \in c.threads : SaveMoves(c, b, v)
          BY <4>1
        <5>2. thr'[v].pc = "release" /\ thr[v].pc = "none"
          BY <5>1 DEF SaveMoves
        <5>3. v = w
          BY <1>0, <3>1, <5>2 DEF ThreadsOf
        <5> QED BY <5>1, <5>3 DEF SaveMoves
      <4>2. CASE UNCHANGED <<job, thr>>
        BY <1>0, <3>1, <4>2 DEF ThreadsOf, Rotations!Live
      <4> QED BY <1>0, <1>3, <4>1, <4>2, SaveHolds
    <3>3. may \in [c.private -> SUBSET Ids(c)]
      <4>1. asker[b].shown \in [c.private -> Ids(c)]
        BY <1>0 DEF AskersOf
      <4> QED BY <4>1 DEF Ids
    <3>4. ASSUME NEW p \in c.private, thr'[w].items[p].old # 0
          PROVE  thr'[w].items[p].old \in may[p]
      <4>1. asker[b].items[p].old \in 0..c.maxPub
        <5>1. asker[b].items \in ItemsOf(c)
          BY <1>0 DEF AskersOf
        <5> QED BY <5>1 DEF ItemsOf, ItemOf, Ids
      <4>2. c.checked[b] => asker[b].items[p].old = asker[b].shown[p]
        BY <2>1, <3>2, <3>4 DEF Consents
      <4> QED BY <3>2, <4>1, <4>2
    <3> HIDE DEF may
    <3>5. /\ agreed' \in [c.threads -> [c.private -> SUBSET Ids(c)]] /\ agreed'[w] = may
          /\ \A v \in c.threads \ {w} : agreed'[v] = agreed[v]
      BY <3>1, <3>3 DEF Consents
    <3> QED BY <2>1, <3>2, <3>4, <3>5 DEF Consents
  <2> QED BY <2>2, <2>3
<1>4. ASSUME NEW w \in c.threads, Rotations(c)!Work(w) \/ Rotations(c)!TimesOut(w)
      PROVE  Consents(c)'
  <2>1. agreed' = agreed
    BY <1>4 DEF Rotations!Work, Rotations!TimesOut, Rotations!NoDeletes, Rotations!Look,
       Rotations!Finish, Rotations!Delete, Rotations!Rebind, Rotations!Create, Rotations!Put,
       Rotations!Steps
  <2>2. asker' = asker /\ \A v \in c.threads \ {w} : thr'[v] = thr[v]
    BY <1>0, <1>4, WorkTyped
  <2>3. \A p \in c.private : thr'[w].items[p].old = thr[w].items[p].old
    BY <1>0, <1>4, WorkMoves DEF WorkHolds, ItemMoves
  <2> QED BY <2>1, <2>2, <2>3 DEF Consents
<1>5. ASSUME NEW w \in c.threads, Rotations(c)!Crash(w)
      PROVE  Consents(c)'
  <2>1. agreed' = agreed
    BY <1>5 DEF Rotations!Crash
  <2>2. \A v \in c.threads : thr'[v].items = thr[v].items
    BY <1>0, <1>5, CrashHolds
  <2>3. \A b \in c.askers : asker'[b] = asker[b] \/ asker'[b] = Rotations(c)!NoAsk
    BY <1>0, <1>5, CrashHolds
  <2> QED BY <1>1, <2>1, <2>2, <2>3 DEF Consents
<1>6. CASE \/ \E x \in 1..c.maxPub : Rotations(c)!Settle(x) \/ Rotations(c)!Take(x)
           \/ Rotations(c)!GoStale
  <2>1. UNCHANGED <<thr, asker, agreed>>
    BY <1>6 DEF Rotations!Settle, Rotations!Take, Rotations!GoStale
  <2> QED BY <2>1 DEF Consents
<1> QED BY <1>2, <1>3, <1>4, <1>5, <1>6 DEF Rotations!Next, Rotations!PubId

\* What is deleted was planned by the thread that deletes it, and its user has agreed.
LEMMA DeletesConsented ==
    ASSUME NEW c, RotationFacts(c), RotationHold(c), RotationMoves(c), Consents(c)
    PROVE  Rotations(c)!DeletesAgreed
<1> SUFFICES ASSUME NEW x \in 1..c.maxPub, pub[x].st # "terminating",
                    pub'[x].st = "terminating"
             PROVE  \E w \in c.threads, p \in c.private :
                       thr'[w] # thr[w] /\ thr[w].items[p].old = x /\ x \in agreed[w][p]
  BY DEF Rotations!DeletesAgreed, Rotations!PubId
<1>1. RotationTyped(c) /\ c.maxPub \in Nat
  BY DEF RotationFacts, RotationHold
<1>2. ~SettleMoves(c, x)
  BY DEF SettleMoves
<1>3. PICK w \in c.threads : /\ Rotations(c)!Work(w) \/ Rotations(c)!TimesOut(w)
                             /\ Deleted(c, w, x)
  BY <1>1, <1>2, PubSteps DEF Rebound, Created
<1>4. PICK p \in c.private : /\ thr[w].pc = "release" /\ thr[w].items[p].st = "pending"
                             /\ thr[w].items[p].old = x
  BY <1>3 DEF Deleted
<1>5. x \in agreed[w][p]
  BY <1>4 DEF Consents
<1>6. thr'[w] # thr[w]
  <2>1. PICK q \in c.private : Rotations(c)!Delete(w, q) /\ pub' # pub
    BY <1>3, <1>4 DEF Deleted, Rotations!Work, Rotations!TimesOut, Rotations!NoDeletes,
       Rotations!Look, Rotations!Finish, Rotations!Rebind, Rotations!Create
  <2>2. thr[w].items[q].st = "pending" /\ thr[w].items[q] \in ItemOf(c)
    BY <1>1, <2>1 DEF Rotations!Delete, RotationTyped, ItemsOf
  <2>3. PICK j : /\ j \in {Rotations(c)!Releasing(thr[w].items[q], TRUE),
                            Rotations(c)!Releasing(thr[w].items[q], FALSE),
                            Rotations(c)!Fails(thr[w].items[q])}
                 /\ Rotations(c)!Put(w, q, j)
    BY <2>1, Zenon DEF Rotations!Delete
  <2>4. j \in ItemOf(c) /\ j.st # "pending"
    BY <2>2, <2>3, ReleasingIs, FailsIs
  <2>5. thr'[w].items[q] = j
    BY <1>1, <2>3, <2>4, PutMoves
  <2> QED BY <2>2, <2>4, <2>5
<1> QED BY <1>4, <1>5, <1>6

\* What is gone stays so.
LEMMA GoneStays ==
    ASSUME NEW c, RotationTyped(c), c.maxPub \in Nat, RotationMoves(c), NEW x \in 1..c.maxPub,
           pub[x].st = "gone"
    PROVE  pub'[x].st = "gone"
<1>1. ASSUME NEW w \in c.threads, Deleted(c, w, x) \/ Rebound(c, w, x) \/ Created(c, w, x)
      PROVE  FALSE
  BY <1>1 DEF Deleted, Rebound, Created, Rotations!Exists
<1>2. ~SettleMoves(c, x)
  BY DEF SettleMoves
<1> QED BY <1>1, <1>2, PubSteps

\* An address that takes no room, and whatever has a new one instead.
NoRoom(i) == i.old = 0 \/ pub[i.old].st = "gone"
Replaced(c) ==
    \A w \in c.threads, p \in c.private :
       \/ thr[w].items[p].st \in Late \cup {"released"}
       \/ thr[w].items[p].new # 0
       => NoRoom(thr[w].items[p])

LEMMA NoRoomStays ==
    ASSUME NEW c, RotationTyped(c), c.maxPub \in Nat, RotationMoves(c), NEW i \in ItemOf(c),
           NEW j, j.old = i.old, NoRoom(i)
    PROVE  j.old = 0 \/ pub'[j.old].st = "gone"
<1>1. i.old \in 0..c.maxPub
  BY DEF ItemOf, Ids
<1>2. CASE i.old = 0
  BY <1>2
<1>3. CASE i.old # 0
  <2>1. i.old \in 1..c.maxPub
    BY <1>1, <1>3
  <2>2. pub[i.old].st = "gone"
    BY <1>3 DEF NoRoom
  <2> QED BY <2>1, <2>2, GoneStays
<1> QED BY <1>2, <1>3

LEMMA ReplacedKept ==
    ASSUME NEW c, RotationFacts(c), RotationHold(c), RotationMoves(c), Replaced(c)
    PROVE  Replaced(c)'
<1>0. /\ RotationTyped(c) /\ c.maxPub \in Nat
      /\ \A w \in c.threads, p \in c.private : thr[w].items[p] \in ItemOf(c)
  <2>1. RotationTyped(c) /\ c.maxPub \in Nat
    BY DEF RotationFacts, RotationHold
  <2>2. \A w \in c.threads : thr[w].items \in ItemsOf(c)
    BY <2>1 DEF RotationTyped
  <2> QED BY <2>1, <2>2 DEF ItemsOf
<1>1. ASSUME NEW w \in c.threads, NEW p \in c.private, thr'[w].items[p] = thr[w].items[p],
             \/ thr'[w].items[p].st \in Late \cup {"released"}
             \/ thr'[w].items[p].new # 0
      PROVE  thr'[w].items[p].old = 0 \/ pub'[thr'[w].items[p].old].st = "gone"
  <2>1. NoRoom(thr[w].items[p])
    BY <1>1 DEF Replaced
  <2> QED BY <1>0, <1>1, <2>1, NoRoomStays
<1>2. CASE thr' = thr
  BY <1>1, <1>2 DEF Replaced, NoRoom
<1>3. ASSUME NEW b \in c.askers, Rotations(c)!Save(b)
      PROVE  Replaced(c)'
  <2>1. UNCHANGED <<job, thr>> \/ \E w \in c.threads : SaveMoves(c, b, w)
    BY <1>0, <1>3, SaveHolds
  <2>2. ASSUME NEW w \in c.threads, SaveMoves(c, b, w)
        PROVE  Replaced(c)'
    <3>1. ASSUME NEW p \in c.private,
                 \/ thr'[w].items[p].st \in Late \cup {"released"}
                 \/ thr'[w].items[p].new # 0
          PROVE  thr'[w].items[p].old = 0
      <4>1. /\ asker[b].items[p].st \in {"out", "pending", "skipped"}
            /\ asker[b].items[p].new = 0
        BY DEF RotationHold, Planning
      <4> QED BY <2>2, <3>1, <4>1 DEF SaveMoves, Late
    <3>2. \A v \in c.threads \ {w} : thr'[v] = thr[v]
      BY <2>2 DEF SaveMoves
    <3> QED BY <1>1, <3>1, <3>2 DEF Replaced, NoRoom
  <2> QED BY <1>2, <2>1, <2>2
<1>4. ASSUME NEW w \in c.threads, Rotations(c)!Work(w) \/ Rotations(c)!TimesOut(w)
      PROVE  Replaced(c)'
  <2>1. \A p \in c.private : ItemMoves(c, p, thr[w].items[p], thr'[w].items[p])
    BY <1>0, <1>4, WorkMoves DEF WorkHolds
  <2>2. \A v \in c.threads \ {w} : thr'[v] = thr[v]
    BY <1>0, <1>4, WorkTyped
  <2>3. ASSUME NEW p \in c.private,
               \/ thr'[w].items[p].st \in Late \cup {"released"}
               \/ thr'[w].items[p].new # 0
        PROVE  thr'[w].items[p].old = 0 \/ pub'[thr'[w].items[p].old].st = "gone"
    <3> DEFINE i == thr[w].items[p]  j == thr'[w].items[p]
    <3>1. ItemMoves(c, p, i, j)
      BY <2>1
    <3>2. j.old = i.old
      BY <3>1 DEF ItemMoves
    <3>3. \/ i.st \in Late \cup {"released"} \/ i.new # 0 \/ ~Rotations(c)!Exists(i.old)
      BY <2>3, <3>1 DEF ItemMoves, Late
    <3>4. i.old \in 0..c.maxPub
      BY <1>0, Zenon DEF ItemOf, Ids
    <3>5. i.old # 0 => pub[i.old].st # "none"
      <4>1. Ties(c, i.old, p)
        BY DEF Ties
      <4>2. i.old # 0 => i.old \in 1..c.maxPub
        BY <3>4
      <4> QED BY <4>1, <4>2 DEF RotationHold, Tied
    <3>6. NoRoom(i)
      <4>1. CASE i.st \in Late \cup {"released"} \/ i.new # 0
        BY <4>1 DEF Replaced
      <4>2. CASE ~Rotations(c)!Exists(i.old)
        BY <3>5, <4>2 DEF Rotations!Exists, NoRoom
      <4> QED BY <3>3, <4>1, <4>2
    <3> QED BY <1>0, <3>2, <3>6, NoRoomStays
  <2> QED BY <1>1, <2>2, <2>3 DEF Replaced, NoRoom
<1>5. ASSUME NEW w \in c.threads, Rotations(c)!Crash(w)
      PROVE  Replaced(c)'
  <2>1. \A v \in c.threads : thr'[v].items = thr[v].items
    BY <1>0, <1>5, CrashHolds
  <2> QED BY <1>1, <2>1 DEF Replaced, NoRoom
<1>6. CASE \E b \in c.askers : AskMoves(c, b)
  BY <1>2, <1>6 DEF AskMoves
<1>7. CASE Rotations(c)!GoStale
  BY <1>0, <1>2, <1>7, StaleHolds
<1> QED BY <1>2, <1>3, <1>4, <1>5, <1>6, <1>7 DEF RotationMoves

LEMMA ReplacedIs ==
    ASSUME NEW c, Replaced(c)
    PROVE  Rotations(c)!OneForOne
BY DEF Replaced, NoRoom, Rotations!OneForOne, Rotations!Exists

LEMMA ReplacedInit ==
    ASSUME NEW c, RotationFacts(c), Rotations(c)!Init
    PROVE  Replaced(c)
<1>1. ASSUME NEW w \in c.threads, NEW p \in c.private
      PROVE  thr[w].items[p].old = 0
  <2>1. thr[w].items = Rotations(c)!NoItems
    BY RotationInitTyped, Zenon DEF RotationFacts
  <2> QED BY <2>1, OutIs, Zenon DEF RotationFacts
<1> QED BY <1>1 DEF Replaced, NoRoom

\* With one who asks, one thread at a time is at work, and the row is its row.
OneJob(c) ==
    /\ \A w \in c.threads : thr[w].pc # "none" =>
          job.by = w /\ job.state = "running" /\ job.stale = FALSE
    /\ \A b \in c.askers : asker[b].pc \in {"plan", "save"} =>
          \A w \in c.threads : thr[w].pc = "none"
    /\ job.state \in {"done", "failed"} => job.by \in c.threads

LEMMA OneJobInit ==
    ASSUME NEW c, RotationFacts(c), Rotations(c)!Init
    PROVE  OneJob(c)
<1>1. /\ job.state = "none" /\ \A w \in c.threads : thr[w].pc = "none"
      /\ \A b \in c.askers : asker[b] = Rotations(c)!NoAsk
  BY RotationInitTyped, Zenon DEF RotationFacts
<1> QED BY <1>1 DEF OneJob

\* The row after a step of the thread w.
LEMMA RowMoves ==
    ASSUME NEW c, RotationTyped(c), c.maxPub \in Nat, NEW w \in c.threads,
           Rotations(c)!Work(w) \/ Rotations(c)!TimesOut(w)
    PROVE  \/ /\ thr'[w].pc # "none"
              /\ \/ job' = job
                 \/ job'.state = "running" /\ job'.stale = FALSE /\ job'.by = w
              /\ thr'[w].pc = Rotations(c)!After(thr[w].pc, thr'[w].items)
           \/ ThreadEnds(c, w) /\ JobEnds(c, w)
<1>1. Rotations(c)!Steps(w, thr'[w].items) \/ Rotations(c)!Finish(w)
  BY WorkMoves
<1>2. CASE Rotations(c)!Steps(w, thr'[w].items)
  <2>1. thr'[w].items \in ItemsOf(c)
    BY WorkMoves DEF WorkHolds
  <2>2. /\ thr'[w].pc = Rotations(c)!After(thr[w].pc, thr'[w].items)
        /\ thr'[w].pc \in {"release", "look", "rebind", "create", "end"}
        /\ \/ job' = job
           \/ job' \in [state: {"running"}, stale: {FALSE}, by: {w},
                        names: [c.private -> Calls], done: {{}}, failed: {{}}]
    BY <1>2, <2>1, StepsMove, Zenon
  <2>3. job' = job \/ (job'.state = "running" /\ job'.stale = FALSE /\ job'.by = w)
    BY <2>2, Zenon
  <2> QED BY <2>2, <2>3
<1>3. CASE Rotations(c)!Finish(w)
  BY <1>3, FinishMoves
<1> QED BY <1>1, <1>2, <1>3, Zenon

LEMMA JobEnd ==
    ASSUME NEW c, NEW w, JobEnds(c, w), job' # job
    PROVE  /\ job'.state \in {"done", "failed"} /\ job'.by = w
           /\ job'.done = {p \in c.private : thr'[w].items[p].st = "done"}
           /\ job'.failed = {p \in c.private : thr'[w].items[p].st = "failed"} \cup
                            {p \in c.private : thr'[w].items[p].st = "skipped"}
           /\ \A p \in c.private : job'.names[p] = thr'[w].items[p].name
<1>1. /\ job' \in [state: {"done", "failed"}, stale: {FALSE}, by: {w},
                   names: [c.private -> Calls],
                   done: {{p \in c.private : thr'[w].items[p].st = "done"}},
                   failed: {{p \in c.private : thr'[w].items[p].st = "failed"} \cup
                            {p \in c.private : thr'[w].items[p].st = "skipped"}}]
      /\ \A p \in c.private : job'.names[p] = thr'[w].items[p].name
  BY Zenon DEF JobEnds
<1> QED BY <1>1

LEMMA OneJobNext ==
    ASSUME NEW c, RotationTyped(c), c.maxPub \in Nat, Rotations(c)!IpRotationAssumption,
           RotationMoves(c), OneJob(c), \A b, d \in c.askers : b = d, Rotations(c)!Steady
    PROVE  OneJob(c)'
<1>1. ASSUME NEW b \in c.askers, AskMoves(c, b)
      PROVE  OneJob(c)'
  <2>1. UNCHANGED <<pub, job, thr>>
    BY <1>1 DEF AskMoves
  <2>2. asker'[b].pc \in {"plan", "save"} => \A w \in c.threads : thr[w].pc = "none"
    BY <1>1 DEF AskMoves, OneJob, Rotations!Running
  <2> QED BY <2>1, <2>2 DEF OneJob
<1>2. ASSUME NEW b \in c.askers, Rotations(c)!Save(b)
      PROVE  OneJob(c)'
  <2>1. asker[b].pc = "save" /\ asker'[b].pc = "idle"
    BY <1>2, SaveHolds
  <2>2. \A d \in c.askers : asker'[d].pc = "idle"
    BY <2>1
  <2>3. \A w \in c.threads : thr[w].pc = "none"
    BY <2>1 DEF OneJob
  <2>4. CASE UNCHANGED <<job, thr>>
    BY <2>2, <2>4 DEF OneJob
  <2>5. ASSUME NEW w \in c.threads, SaveMoves(c, b, w)
        PROVE  OneJob(c)'
    <3>1. job' \in [state: {"running"}, stale: {FALSE}, by: {w},
                    names: [c.private -> Calls], done: {{}}, failed: {{}}]
      BY <2>5, Zenon DEF SaveMoves
    <3>2. job'.state = "running" /\ job'.stale = FALSE /\ job'.by = w
      BY <3>1, Zenon
    <3>3. \A v \in c.threads \ {w} : thr'[v].pc = "none"
      BY <2>3, <2>5 DEF SaveMoves
    <3> QED BY <2>2, <3>2, <3>3 DEF OneJob
  <2> QED BY <1>2, <2>4, <2>5, SaveHolds
<1>3. ASSUME NEW w \in c.threads, Rotations(c)!Work(w) \/ Rotations(c)!TimesOut(w)
      PROVE  OneJob(c)'
  <2>1. thr[w].pc # "none"
    BY <1>3, WorkLive
  <2>2. asker' = asker /\ \A v \in c.threads \ {w} : thr'[v] = thr[v]
    BY <1>3, WorkTyped
  <2>3. \A v \in c.threads \ {w} : thr'[v].pc = "none"
    BY <2>1, <2>2 DEF OneJob
  <2>4. \A b \in c.askers : asker'[b].pc \notin {"plan", "save"}
    BY <2>1, <2>2 DEF OneJob
  <2>5. CASE /\ thr'[w].pc # "none"
             /\ job' = job \/ (job'.state = "running" /\ job'.stale = FALSE /\ job'.by = w)
    <3>1. job'.state = "running" /\ job'.stale = FALSE /\ job'.by = w
      BY <2>1, <2>5 DEF OneJob
    <3> QED BY <2>3, <2>4, <3>1 DEF OneJob
  <2>6. CASE ThreadEnds(c, w) /\ JobEnds(c, w)
    <3>1. thr'[w].pc = "none"
      BY <2>6 DEF ThreadEnds
    <3>2. job'.state \in {"done", "failed"} => job'.by \in c.threads
      BY <2>6, JobEnd DEF OneJob
    <3> QED BY <2>3, <2>4, <3>1, <3>2 DEF OneJob
  <2> QED BY <1>3, <2>5, <2>6, RowMoves, Zenon
<1>4. ASSUME NEW w \in c.threads, Rotations(c)!Crash(w)
      PROVE  OneJob(c)'
  <2>1. job' = job /\ thr'[w].pc = "none" /\ \A v \in c.threads \ {w} : thr'[v] = thr[v]
    BY <1>4, CrashHolds
  <2>2. \A b \in c.askers : \/ asker'[b] = asker[b] /\ asker[b].pc \notin {"plan", "save"}
                            \/ asker'[b] = Rotations(c)!NoAsk
    BY <1>4, CrashHolds
  <2>3. \A b \in c.askers : asker'[b].pc \notin {"plan", "save"}
    BY <2>2, NoAskIs
  <2> QED BY <2>1, <2>3 DEF OneJob
<1>5. CASE \E x \in 1..c.maxPub : SettleMoves(c, x) /\ UNCHANGED <<job, thr, asker>>
  BY <1>5 DEF OneJob
<1>6. CASE Rotations(c)!GoStale
  BY <1>6, StaleHolds, StaleIsGone DEF OneJob
<1> QED BY <1>1, <1>2, <1>3, <1>4, <1>5, <1>6 DEF RotationMoves

\* Whatever is planned is deleted first; at the end nothing is waited for.
Final == {"done", "failed", "skipped", "out"}
Phased(there, i) ==
    /\ there \in {"look", "rebind", "create", "end"} => i.st # "pending"
    /\ there = "end" => i.st \in Final \cup {"create_failed"}
Phases(c) == \A w \in c.threads, p \in c.private : Phased(thr[w].pc, thr[w].items[p])

LEMMA PhasesAfter ==
    ASSUME NEW c, NEW xs \in ItemsOf(c), NEW from, from # "none",
           \A p \in c.private : from # "release" => xs[p].st # "pending",
           NEW p \in c.private
    PROVE  Phased(Rotations(c)!After(from, xs), xs[p])
<1>1. xs[p] \in ItemOf(c)
  BY DEF ItemsOf
<1>2. CASE from = "release" /\ Rotations(c)!Some(xs, "pending")
  BY <1>2 DEF Rotations!After, Phased
<1>3. CASE from = "release" /\ ~Rotations(c)!Some(xs, "pending")
  BY <1>3 DEF Rotations!After, Rotations!Some, Phased
<1>4. CASE from # "release"
  <2>1. xs[p].st # "pending"
    BY <1>4
  <2>2. ASSUME Rotations(c)!After(from, xs) = "end"
        PROVE  xs[p].st \in Final \cup {"create_failed"}
    <3>1. /\ ~Rotations(c)!Some(xs, "rebind") /\ ~Rotations(c)!Some(xs, "released")
          /\ ~ \E q \in c.private : Rotations(c)!Waits(xs[q])
      BY <1>4, <2>2 DEF Rotations!After
    <3>2. xs[p].st \notin {"rebind", "released", "releasing", "assigning", "pending"}
      BY <2>1, <3>1 DEF Rotations!Some, Rotations!Waits
    <3> QED BY <1>1, <3>2, Zenon DEF ItemOf, Final
  <2> QED BY <2>1, <2>2 DEF Phased
<1> QED BY <1>2, <1>3, <1>4

LEMMA PhasesNext ==
    ASSUME NEW c, RotationTyped(c), c.maxPub \in Nat, RotationMoves(c), Phases(c)
    PROVE  Phases(c)'
<1>1. ASSUME NEW w \in c.threads, NEW p \in c.private, thr'[w] = thr[w]
      PROVE  Phased(thr'[w].pc, thr'[w].items[p])
  BY <1>1 DEF Phases
<1>2. ASSUME NEW w \in c.threads, NEW p \in c.private, thr'[w].pc \in {"none", "release"}
      PROVE  Phased(thr'[w].pc, thr'[w].items[p])
  BY <1>2 DEF Phased
<1>3. CASE thr' = thr
  BY <1>1, <1>3 DEF Phases
<1>4. ASSUME NEW b \in c.askers, Rotations(c)!Save(b)
      PROVE  Phases(c)'
  <2>1. UNCHANGED <<job, thr>> \/ \E w \in c.threads : SaveMoves(c, b, w)
    BY <1>4, SaveHolds
  <2>2. ASSUME NEW w \in c.threads, SaveMoves(c, b, w)
        PROVE  Phases(c)'
    BY <1>1, <1>2, <2>2 DEF SaveMoves, Phases
  <2> QED BY <1>3, <2>1, <2>2
<1>5. ASSUME NEW w \in c.threads, Rotations(c)!Work(w) \/ Rotations(c)!TimesOut(w)
      PROVE  Phases(c)'
  <2>1. thr'[w].items \in ItemsOf(c)
    BY <1>5, WorkMoves DEF WorkHolds
  <2>2. \A p \in c.private : ItemMoves(c, p, thr[w].items[p], thr'[w].items[p])
    BY <1>5, WorkMoves DEF WorkHolds
  <2>3. \A v \in c.threads \ {w} : thr'[v] = thr[v]
    BY <1>5, WorkTyped
  <2>4. thr[w].pc # "none" /\ thr[w].pc \in {"none", "release", "look", "rebind", "create", "end"}
    BY <1>5, WorkLive DEF RotationTyped
  <2>5. \A p \in c.private : thr[w].pc # "release" => thr'[w].items[p].st # "pending"
    BY <2>2, <2>4 DEF ItemMoves, Phases, Phased
  <2>6. ASSUME NEW p \in c.private
        PROVE  Phased(thr'[w].pc, thr'[w].items[p])
    <3>1. CASE thr'[w].pc = Rotations(c)!After(thr[w].pc, thr'[w].items)
      BY <2>1, <2>4, <2>5, <3>1, PhasesAfter
    <3>2. CASE ThreadEnds(c, w)
      BY <1>2, <3>2 DEF ThreadEnds
    <3> QED BY <1>5, <3>1, <3>2, RowMoves, Zenon
  <2> QED BY <1>1, <2>3, <2>6 DEF Phases
<1>6. ASSUME NEW w \in c.threads, Rotations(c)!Crash(w)
      PROVE  Phases(c)'
  <2>1. thr'[w].pc = "none" /\ \A v \in c.threads \ {w} : thr'[v] = thr[v]
    BY <1>6, CrashHolds
  <2> QED BY <1>1, <1>2, <2>1 DEF Phases
<1>7. CASE \E b \in c.askers : AskMoves(c, b)
  BY <1>3, <1>7 DEF AskMoves
<1>8. CASE Rotations(c)!GoStale
  BY <1>3, <1>8, StaleHolds
<1> QED BY <1>3, <1>4, <1>5, <1>6, <1>7, <1>8 DEF RotationMoves

\* What a job calls changed is: while its thread is at work, and afterwards.
DoneIsSo(c) ==
    \A w \in c.threads, p \in c.private :
       /\ job.by = w /\ (job.state \in {"done", "failed"} \/ thr[w].pc # "none")
       /\ thr[w].items[p].st = "done"
       => /\ thr[w].items[p].new \in 1..c.maxPub /\ pub[thr[w].items[p].new].st = "assigned"
          /\ pub[thr[w].items[p].new].at = p

\* A report says of each item what became of it.
Reported(c) ==
    job.state \in {"done", "failed"} =>
       \A p \in c.private :
          /\ thr[job.by].items[p].st \in Final
          /\ p \in job.done <=> thr[job.by].items[p].st = "done"
          /\ p \in job.failed <=> thr[job.by].items[p].st \in {"failed", "skipped"}

ReportHolds(c) == OneJob(c) /\ Phases(c) /\ DoneIsSo(c) /\ Reported(c)

\* A new address that is done with is left alone as long as its job is the last.
LEMMA DoneStays ==
    ASSUME NEW c, RotationFacts(c), RotationHold(c), RotationMoves(c), OneJob(c),
           "move" \notin c.faults, NEW w \in c.threads, NEW p \in c.private, job.by = w,
           thr[w].items[p].st = "done", NEW x \in 1..c.maxPub, thr[w].items[p].new = x,
           pub[x].st = "assigned", pub[x].at = p
    PROVE  pub'[x] = pub[x]
<1>1. Ties(c, x, p)
  BY DEF Ties
<1>2. \A q \in c.private : Ties(c, x, q) => q = p
  BY <1>1 DEF RotationHold, Tied
<1>3. ASSUME NEW v \in c.threads, Rotations(c)!Work(v) \/ Rotations(c)!TimesOut(v)
      PROVE  v = w
  BY <1>3, WorkLive DEF OneJob
<1>4. ASSUME NEW v \in c.threads, Rotations(c)!Work(v) \/ Rotations(c)!TimesOut(v),
             Deleted(c, v, x) \/ Rebound(c, v, x) \/ Created(c, v, x)
      PROVE  FALSE
  <2>1. v = w
    BY <1>3, <1>4
  <2>2. \/ \E q \in c.private : thr[w].items[q].st = "pending" /\ thr[w].items[q].old = x
        \/ \E q \in c.private : thr[w].items[q].st = "rebind" /\ thr[w].items[q].new = x
    BY <1>4, <2>1 DEF Deleted, Rebound, Created
  <2>3. \A q \in c.private : thr[w].items[q].old = x \/ thr[w].items[q].new = x => q = p
    BY <1>2 DEF Ties
  <2> QED BY <2>2, <2>3
<1>5. ~SettleMoves(c, x)
  BY DEF SettleMoves
<1> QED BY <1>4, <1>5, PubSteps DEF RotationFacts, RotationHold

LEMMA DoneIsSoNext ==
    ASSUME NEW c, RotationFacts(c), RotationHold(c), RotationMoves(c), OneJob(c),
           DoneIsSo(c), "move" \notin c.faults
    PROVE  DoneIsSo(c)'
<1>0. RotationTyped(c) /\ c.maxPub \in Nat
  BY DEF RotationFacts, RotationHold
<1> SUFFICES ASSUME NEW w \in c.threads, NEW p \in c.private, job'.by = w,
                    job'.state \in {"done", "failed"} \/ thr'[w].pc # "none",
                    thr'[w].items[p].st = "done"
             PROVE  /\ thr'[w].items[p].new \in 1..c.maxPub
                    /\ pub'[thr'[w].items[p].new].st = "assigned"
                    /\ pub'[thr'[w].items[p].new].at = p
  BY DEF DoneIsSo
<1> DEFINE x == thr[w].items[p].new
\* The item was done with before, and its job was the last.
<1>1. ASSUME thr'[w].items[p] = thr[w].items[p], job.by = w,
             job.state \in {"done", "failed"} \/ thr[w].pc # "none"
      PROVE  /\ thr'[w].items[p].new \in 1..c.maxPub
             /\ pub'[thr'[w].items[p].new].st = "assigned"
             /\ pub'[thr'[w].items[p].new].at = p
  <2>1. x \in 1..c.maxPub /\ pub[x].st = "assigned" /\ pub[x].at = p
    BY <1>1 DEF DoneIsSo
  <2>2. pub'[x] = pub[x]
    BY <1>1, <2>1, DoneStays
  <2> QED BY <1>1, <2>1, <2>2
<1>2. CASE thr' = thr /\ job'.by = job.by /\ job'.state = job.state
  BY <1>1, <1>2
<1>3. ASSUME NEW b \in c.askers, Rotations(c)!Save(b)
      PROVE  /\ thr'[w].items[p].new \in 1..c.maxPub
             /\ pub'[thr'[w].items[p].new].st = "assigned"
             /\ pub'[thr'[w].items[p].new].at = p
  <2>1. UNCHANGED <<job, thr>> \/ \E v \in c.threads : SaveMoves(c, b, v)
    BY <1>0, <1>3, SaveHolds
  <2>2. ASSUME NEW v \in c.threads, SaveMoves(c, b, v)
        PROVE  FALSE
    <3>1. job' \in [state: {"running"}, stale: {FALSE}, by: {v},
                    names: [c.private -> Calls], done: {{}}, failed: {{}}]
      BY <2>2, Zenon DEF SaveMoves
    <3>2. v = w
      BY <3>1
    <3>3. asker[b].items[p].st \in {"out", "pending", "skipped"}
      BY DEF RotationHold, Planning
    <3> QED BY <2>2, <3>2, <3>3 DEF SaveMoves
  <2> QED BY <1>2, <2>1, <2>2
<1>4. ASSUME NEW v \in c.threads, Rotations(c)!Work(v) \/ Rotations(c)!TimesOut(v)
      PROVE  /\ thr'[w].items[p].new \in 1..c.maxPub
             /\ pub'[thr'[w].items[p].new].st = "assigned"
             /\ pub'[thr'[w].items[p].new].at = p
  <2>1. thr[v].pc # "none" /\ job.by = v
    BY <1>4, WorkLive DEF OneJob
  <2>2. v = w
    <3>1. CASE job'.by = v \/ job' = job
      BY <2>1, <3>1
    <3>2. CASE JobEnds(c, v)
      BY <2>1, <3>2, JobEnd
    <3> QED BY <1>0, <1>4, <3>1, <3>2, RowMoves, Zenon
  <2>3. thr'[w].items \in ItemsOf(c) /\ ItemMoves(c, p, thr[w].items[p], thr'[w].items[p])
    BY <1>0, <1>4, <2>2, WorkMoves DEF WorkHolds
  <2> DEFINE i == thr[w].items[p]  j == thr'[w].items[p]
  <2>4. CASE i.st = "done"
    <3>1. j.new = i.new
      BY <2>3, <2>4 DEF ItemMoves, Holding
    <3>2. x \in 1..c.maxPub /\ pub[x].st = "assigned" /\ pub[x].at = p
      BY <2>1, <2>2, <2>4 DEF DoneIsSo
    <3>3. pub'[x] = pub[x]
      BY <2>1, <2>2, <2>4, <3>2, DoneStays
    <3> QED BY <3>1, <3>2, <3>3
  <2>5. CASE i.st # "done"
    <3>1. pub' = pub /\ pub[j.new].st = "assigned" /\ pub[j.new].at = p
      BY <2>3, <2>5 DEF ItemMoves
    <3>2. j.new \in 0..c.maxPub
      BY <2>3, Zenon DEF ItemsOf, ItemOf, Ids
    <3>3. Planning(c)'
      BY <1>0, PlanningKept DEF RotationHold
    <3>4. j.new # 0
      BY <3>3 DEF Planning, Holding
    <3> QED BY <3>1, <3>2, <3>4
  <2> QED BY <2>4, <2>5
<1>5. ASSUME NEW v \in c.threads, Rotations(c)!Crash(v)
      PROVE  /\ thr'[w].items[p].new \in 1..c.maxPub
             /\ pub'[thr'[w].items[p].new].st = "assigned"
             /\ pub'[thr'[w].items[p].new].at = p
  <2>1. job' = job /\ thr'[v].pc = "none"
        /\ thr'[v].items = thr[v].items /\ \A y \in c.threads \ {v} : thr'[y] = thr[y]
    BY <1>0, <1>5, CrashHolds
  <2> QED BY <1>1, <2>1
<1>6. CASE \E b \in c.askers : AskMoves(c, b)
  BY <1>2, <1>6 DEF AskMoves
<1>7. CASE Rotations(c)!GoStale
  BY <1>0, <1>2, <1>7, StaleHolds
<1> QED BY <1>2, <1>3, <1>4, <1>5, <1>6, <1>7 DEF RotationMoves

LEMMA ReportedNext ==
    ASSUME NEW c, RotationFacts(c), RotationHold(c), RotationMoves(c), OneJob(c), Phases(c),
           Reported(c)
    PROVE  Reported(c)'
<1>0. RotationTyped(c) /\ c.maxPub \in Nat
  BY DEF RotationFacts, RotationHold
<1>1. CASE UNCHANGED <<job, thr>>
  BY <1>1 DEF Reported
<1>2. CASE job'.state \notin {"done", "failed"}
  BY <1>2 DEF Reported
<1>3. ASSUME NEW b \in c.askers, Rotations(c)!Save(b)
      PROVE  Reported(c)'
  <2>1. UNCHANGED <<job, thr>> \/ \E w \in c.threads : SaveMoves(c, b, w)
    BY <1>0, <1>3, SaveHolds
  <2>2. ASSUME NEW w \in c.threads, SaveMoves(c, b, w)
        PROVE  job'.state = "running"
    <3>1. job' \in [state: {"running"}, stale: {FALSE}, by: {w},
                    names: [c.private -> Calls], done: {{}}, failed: {{}}]
      BY <2>2, Zenon DEF SaveMoves
    <3> QED BY <3>1
  <2> QED BY <1>1, <1>2, <2>1, <2>2
<1>4. ASSUME NEW w \in c.threads, Rotations(c)!Work(w) \/ Rotations(c)!TimesOut(w)
      PROVE  Reported(c)'
  <2>1. job.state = "running"
    BY <1>4, WorkLive DEF OneJob
  <2>2. CASE job' = job
    BY <1>2, <2>1, <2>2
  <2>3. CASE ThreadEnds(c, w) /\ JobEnds(c, w) /\ job' # job
    <3>1. /\ job'.by = w
          /\ job'.done = {p \in c.private : thr'[w].items[p].st = "done"}
          /\ job'.failed = {p \in c.private : thr'[w].items[p].st = "failed"} \cup
                           {p \in c.private : thr'[w].items[p].st = "skipped"}
      BY <2>3, JobEnd
    <3>2. ASSUME NEW p \in c.private
          PROVE  thr'[w].items[p].st \in Final
      <4>1. thr[w].items[p].st \in Final \cup {"create_failed"}
        BY <2>3 DEF ThreadEnds, Phases, Phased
      <4> QED BY <2>3, <4>1 DEF ThreadEnds, Final
    <3>3. \A p \in c.private :
             /\ p \in job'.done <=> thr'[w].items[p].st = "done"
             /\ p \in job'.failed <=> thr'[w].items[p].st \in {"failed", "skipped"}
      BY <3>1
    <3> QED BY <3>1, <3>2, <3>3 DEF Reported
  <2> QED BY <1>0, <1>2, <1>4, <2>2, <2>3, RowMoves, Zenon
<1>5. ASSUME NEW w \in c.threads, Rotations(c)!Crash(w)
      PROVE  Reported(c)'
  <2>1. job' = job /\ \A v \in c.threads : thr'[v].items = thr[v].items
    BY <1>0, <1>5, CrashHolds
  <2> QED BY <2>1 DEF Reported, OneJob
<1>6. CASE \E b \in c.askers : AskMoves(c, b)
  BY <1>1, <1>6 DEF AskMoves
<1>7. CASE Rotations(c)!GoStale
  BY <1>0, <1>2, <1>7, StaleHolds
<1> QED BY <1>1, <1>3, <1>4, <1>5, <1>6, <1>7 DEF RotationMoves

LEMMA ReportNext ==
    ASSUME NEW c, RotationFacts(c), RotationHold(c), RotationMoves(c), ReportHolds(c),
           \A b, d \in c.askers : b = d, Rotations(c)!Steady
    PROVE  ReportHolds(c)'
<1>1. OneJob(c)' /\ Phases(c)'
  BY OneJobNext, PhasesNext DEF ReportHolds, RotationFacts, RotationHold
<1>2. DoneIsSo(c)' /\ Reported(c)'
  BY DoneIsSoNext, ReportedNext DEF ReportHolds, Rotations!Steady
<1> QED BY <1>1, <1>2 DEF ReportHolds

LEMMA ReportInit ==
    ASSUME NEW c, RotationFacts(c), Rotations(c)!Init
    PROVE  ReportHolds(c)
<1>1. job.state = "none" /\ \A w \in c.threads : thr[w].pc = "none"
  BY RotationInitTyped, Zenon DEF RotationFacts
<1>2. OneJob(c)
  BY OneJobInit
<1> QED BY <1>1, <1>2 DEF ReportHolds, Phases, Phased, DoneIsSo, Reported

LEMMA ReportSays ==
    ASSUME NEW c, RotationFacts(c), ReportHolds(c)
    PROVE  Rotations(c)!ReportIsTrue
<1> SUFFICES ASSUME job.state \in {"done", "failed"}, NEW p \in c.private
             PROVE  /\ p \in job.done =>
                          \E x \in 1..c.maxPub : pub[x].st = "assigned" /\ pub[x].at = p
                    /\ Rotations(c)!PublicOf(p) = 0 /\ thr[job.by].items[p].st # "out"
                          => p \in job.failed
  BY DEF Rotations!ReportIsTrue, Rotations!PubId
<1>1. /\ job.by \in c.threads /\ thr[job.by].items[p].st \in Final
      /\ p \in job.done <=> thr[job.by].items[p].st = "done"
      /\ p \in job.failed <=> thr[job.by].items[p].st \in {"failed", "skipped"}
  BY DEF ReportHolds, OneJob, Reported
<1>2. ASSUME thr[job.by].items[p].st = "done"
      PROVE  \E x \in 1..c.maxPub : pub[x].st = "assigned" /\ pub[x].at = p
  <2>1. LET x == thr[job.by].items[p].new IN
        x \in 1..c.maxPub /\ pub[x].st = "assigned" /\ pub[x].at = p
    BY <1>1, <1>2 DEF ReportHolds, DoneIsSo
  <2> QED BY <2>1
<1>3. ASSUME Rotations(c)!PublicOf(p) = 0
      PROVE  thr[job.by].items[p].st # "done"
  <2>1. \A x \in 1..c.maxPub : ~(Rotations(c)!Exists(x) /\ pub[x].at = p)
    BY <1>3, PublicOfIs DEF RotationFacts
  <2> QED BY <1>2, <2>1 DEF Rotations!Exists
<1> QED BY <1>1, <1>2, <1>3 DEF Final

\* The names: of the addresses there are, of the items of a thread, and of a plan.
OwnItems(c, xs) == \A p \in c.private : xs[p].name = "own"
OwnNames(c, ns) == \A p \in c.private : ns[p] = "own"
PubsNamed(c) ==
    \A x \in 1..c.maxPub : IF pub[x].st = "none" THEN pub[x].name # "default"
                           ELSE pub[x].name = "own"
ThreadsNamed(c) ==
    \A w \in c.threads : thr[w].pc # "none" => job.by # "none" /\ OwnItems(c, thr[w].items)
AskersNamed(c) ==
    \A b \in c.askers :
       /\ asker[b].pc = "plan" => /\ asker[b].ids = c.private
                                  /\ job.by = "none" \/ OwnNames(c, asker[b].names)
       /\ asker[b].pc = "save" => OwnItems(c, asker[b].items)
\* Once there was a job its row has the names; before, every address is there.
RowNamed(c) ==
    /\ job.by # "none" => OwnNames(c, job.names)
    /\ job.by = "none" => \A p \in c.private : \E x \in 1..c.maxPub :
                             pub[x].st = "assigned" /\ pub[x].at = p

NamesHold(c) == PubsNamed(c) /\ ThreadsNamed(c) /\ AskersNamed(c) /\ RowNamed(c)

\* What NameKept is about: one who asks for all the addresses, which all exist.
NameFacts(c) ==
    /\ RotationFacts(c) /\ Rotations(c)!Steady /\ \A b, d \in c.askers : b = d
    /\ c.selections \subseteq {c.private} /\ "none" \notin c.threads
    /\ \A p \in c.private : c.bound[p] # 0
    /\ \A p, q \in c.private : c.bound[p] = c.bound[q] => p = q

LEMMA NamesInit ==
    ASSUME NEW c, NameFacts(c), Rotations(c)!Init
    PROVE  NamesHold(c)
<1> USE DEF NameFacts
<1>1. /\ job.by = "none"
      /\ \A w \in c.threads : thr[w].pc = "none"
      /\ \A b \in c.askers : asker[b] = Rotations(c)!NoAsk
      /\ \A x \in 1..c.maxPub :
            \/ pub[x].st = "none" /\ pub[x].at = "nowhere" /\ pub[x].name = ""
            \/ /\ pub[x].st = "assigned" /\ pub[x].at \in c.private /\ pub[x].name = "own"
               /\ c.bound[pub[x].at] = x
      /\ \A p \in c.private : c.bound[p] # 0 => pub[c.bound[p]].st = "assigned"
  BY RotationInitTyped, Zenon DEF RotationFacts
<1>2. ASSUME NEW p \in c.private
      PROVE  \E x \in 1..c.maxPub : pub[x].st = "assigned" /\ pub[x].at = p
  <2>1. c.bound[p] \in 1..c.maxPub
    BY DEF RotationFacts, Rotations!IpRotationAssumption
  <2>2. pub[c.bound[p]].st = "assigned" /\ pub[c.bound[p]].at \in c.private
        /\ c.bound[pub[c.bound[p]].at] = c.bound[p]
    BY <1>1, <2>1, Zenon
  <2>3. pub[c.bound[p]].at = p
    BY <2>2
  <2> QED BY <2>1, <2>2, <2>3
<1>3. PubsNamed(c) /\ ThreadsNamed(c)
  BY <1>1, Zenon DEF PubsNamed, ThreadsNamed
<1>4. AskersNamed(c)
  BY <1>1, NoAskIs, Zenon DEF AskersNamed, RotationFacts
<1>5. RowNamed(c)
  BY <1>1, <1>2, Zenon DEF RowNamed
<1> QED BY <1>3, <1>4, <1>5 DEF NamesHold

\* A plan has the name of the address it found, or the one in the row.
LEMMA PlanNames ==
    ASSUME NEW c, NameFacts(c), NamesHold(c), NEW b \in c.askers, asker[b].pc = "plan",
           NEW p \in c.private, NEW i, PlannedOf(c, p, asker[b].names[p], i)
    PROVE  i.name = "own"
<1> DEFINE x == Rotations(c)!PublicOf(p)
<1>1. c.maxPub \in Nat
  BY DEF NameFacts, RotationFacts
<1>2. CASE x # 0
  <2>1. x \in 1..c.maxPub /\ Rotations(c)!Exists(x)
    BY <1>1, <1>2, PublicOfIs
  <2>2. pub[x].name = "own"
    BY <2>1 DEF Rotations!Exists, NamesHold, PubsNamed
  <2> QED BY <1>2, <2>2 DEF PlannedOf
<1>3. CASE x = 0
  <2>1. ~ \E y \in 1..c.maxPub : pub[y].st = "assigned" /\ pub[y].at = p
    BY <1>1, <1>3, PublicOfIs DEF Rotations!Exists
  <2>2. asker[b].names[p] = "own"
    BY <2>1 DEF NamesHold, RowNamed, AskersNamed, OwnNames
  <2> QED BY <1>3, <2>2 DEF PlannedOf
<1> QED BY <1>2, <1>3

LEMMA PubsNamedNext ==
    ASSUME NEW c, NameFacts(c), RotationHold(c), RotationMoves(c), NamesHold(c)
    PROVE  PubsNamed(c)'
<1> SUFFICES ASSUME NEW x \in 1..c.maxPub
             PROVE  IF pub'[x].st = "none" THEN pub'[x].name # "default"
                    ELSE pub'[x].name = "own"
  BY DEF PubsNamed
<1>1. IF pub[x].st = "none" THEN pub[x].name # "default" ELSE pub[x].name = "own"
  BY DEF NamesHold, PubsNamed
<1>2. ASSUME NEW w \in c.threads, Rotations(c)!Work(w) \/ Rotations(c)!TimesOut(w),
             Deleted(c, w, x) \/ Rebound(c, w, x) \/ Created(c, w, x)
      PROVE  pub'[x].name = "own"
  <2>1. \A p \in c.private : thr[w].items[p].name = "own"
    BY <1>2, WorkLive DEF NamesHold, ThreadsNamed, OwnItems
  <2> QED BY <1>1, <1>2, <2>1 DEF Deleted, Rebound, Created, Rotations!Exists
<1>3. CASE SettleMoves(c, x)
  BY <1>1, <1>3 DEF SettleMoves
<1>4. \/ pub'[x] = pub[x]
      \/ \E w \in c.threads : /\ Rotations(c)!Work(w) \/ Rotations(c)!TimesOut(w)
                              /\ \/ Deleted(c, w, x) \/ Rebound(c, w, x)
                                 \/ Created(c, w, x)
      \/ SettleMoves(c, x)
  BY PubSteps DEF NameFacts, RotationFacts, RotationHold
<1>5. CASE \E w \in c.threads : /\ Rotations(c)!Work(w) \/ Rotations(c)!TimesOut(w)
                                /\ \/ Deleted(c, w, x) \/ Rebound(c, w, x)
                                   \/ Created(c, w, x)
  <2>1. pub'[x].name = "own" /\ pub'[x].st # "none"
    BY <1>2, <1>5 DEF Deleted, Rebound, Created
  <2> QED BY <2>1
<1> QED BY <1>1, <1>3, <1>4, <1>5

\* The others of a step of a thread, and of a step that is not one.
NamedNext(c) == ThreadsNamed(c)' /\ AskersNamed(c)' /\ RowNamed(c)'

LEMMA AskNamed ==
    ASSUME NEW c, NameFacts(c), RotationHold(c), NamesHold(c), NEW b \in c.askers,
           AskMoves(c, b)
    PROVE  NamedNext(c)
<1>1. UNCHANGED <<pub, job, thr>> /\ \A d \in c.askers \ {b} : asker'[d] = asker[d]
  BY DEF AskMoves
<1>2. ASSUME asker'[b].pc = "plan"
      PROVE  /\ asker'[b].ids = c.private
             /\ job.by = "none" \/ OwnNames(c, asker'[b].names)
  BY <1>2 DEF AskMoves, NameFacts, NamesHold, RowNamed
<1>3. ASSUME asker'[b].pc = "save"
      PROVE  OwnItems(c, asker'[b].items)
  <2>1. /\ asker[b].pc = "plan"
        /\ \A p \in c.private :
              IF p \in asker[b].ids THEN PlannedOf(c, p, asker[b].names[p], asker'[b].items[p])
              ELSE asker'[b].items[p] = Rotations(c)!Out
    BY <1>3 DEF AskMoves
  <2>2. asker[b].ids = c.private
    BY <2>1 DEF NamesHold, AskersNamed
  <2> QED BY <2>1, <2>2, PlanNames DEF OwnItems
<1>4. AskersNamed(c)'
  BY <1>1, <1>2, <1>3 DEF NameFacts, AskersNamed
<1> QED BY <1>1, <1>4 DEF NamedNext, NamesHold, ThreadsNamed, RowNamed

LEMMA SaveNamed ==
    ASSUME NEW c, NameFacts(c), RotationHold(c), NamesHold(c), NEW b \in c.askers,
           Rotations(c)!Save(b)
    PROVE  NamedNext(c)
<1>0. RotationTyped(c) /\ c.maxPub \in Nat
  BY DEF NameFacts, RotationFacts, RotationHold
<1>1. asker[b].pc = "save" /\ asker'[b].pc = "idle" /\ pub' = pub
  BY <1>0, SaveHolds
<1>2. AskersNamed(c)'
  BY <1>1 DEF NameFacts, AskersNamed
<1>3. OwnItems(c, asker[b].items)
  BY <1>1 DEF NamesHold, AskersNamed
<1>4. CASE UNCHANGED <<job, thr>>
  BY <1>1, <1>2, <1>4 DEF NamedNext, NamesHold, ThreadsNamed, RowNamed
<1>5. ASSUME NEW w \in c.threads, SaveMoves(c, b, w)
      PROVE  NamedNext(c)
  <2>1. job' \in [state: {"running"}, stale: {FALSE}, by: {w},
                  names: [c.private -> Calls], done: {{}}, failed: {{}}]
    BY <1>5, Zenon DEF SaveMoves
  <2>2. job'.by = w /\ w # "none"
    BY <2>1 DEF NameFacts
  <2>3. OwnNames(c, job'.names)
    BY <1>3, <1>5 DEF SaveMoves, OwnItems, OwnNames
  <2>4. OwnItems(c, thr'[w].items)
    BY <1>3, <1>5 DEF SaveMoves, OwnItems
  <2>5. \A v \in c.threads \ {w} : thr'[v] = thr[v]
    BY <1>5 DEF SaveMoves
  <2>6. ThreadsNamed(c)'
    BY <2>2, <2>4, <2>5 DEF NamesHold, ThreadsNamed
  <2> QED BY <1>2, <2>2, <2>3, <2>6 DEF NamedNext, RowNamed
<1> QED BY <1>0, <1>4, <1>5, SaveHolds

LEMMA WorkNamed ==
    ASSUME NEW c, NameFacts(c), RotationHold(c), NamesHold(c), NEW w \in c.threads,
           Rotations(c)!Work(w) \/ Rotations(c)!TimesOut(w)
    PROVE  NamedNext(c)
<1>0. RotationTyped(c) /\ c.maxPub \in Nat
  BY DEF NameFacts, RotationFacts, RotationHold
<1>1. thr[w].pc # "none" /\ job.by # "none"
  BY WorkLive DEF NamesHold, ThreadsNamed
<1>2. asker' = asker /\ \A v \in c.threads \ {w} : thr'[v] = thr[v]
  BY <1>0, WorkTyped
<1>3. OwnItems(c, thr'[w].items)
  <2>1. \A p \in c.private : ItemMoves(c, p, thr[w].items[p], thr'[w].items[p])
    BY <1>0, WorkMoves DEF WorkHolds
  <2>2. OwnItems(c, thr[w].items)
    BY <1>1 DEF NamesHold, ThreadsNamed
  <2> QED BY <2>1, <2>2 DEF ItemMoves, OwnItems
<1>4. job'.by # "none" /\ OwnNames(c, job'.names)
  <2>1. CASE job' = job
    BY <1>1, <2>1 DEF NamesHold, RowNamed
  <2>2. CASE JobEnds(c, w) /\ job' # job
    <3>1. job'.by = w /\ \A p \in c.private : job'.names[p] = thr'[w].items[p].name
      BY <2>2, JobEnd
    <3> QED BY <1>3, <3>1 DEF NameFacts, OwnItems, OwnNames
  <2>3. CASE Rotations(c)!Steps(w, thr'[w].items)
    <3>1. thr'[w].items \in ItemsOf(c)
      BY <1>0, WorkMoves DEF WorkHolds
    <3>2. job' = job \/ \A p \in c.private : job'.names[p] = thr'[w].items[p].name
      BY <1>0, <2>3, <3>1, StepsNames
    <3>3. \/ job' = job
          \/ job' \in [state: {"running"}, stale: {FALSE}, by: {w},
                       names: [c.private -> Calls], done: {{}}, failed: {{}}]
      BY <1>0, <2>3, <3>1, StepsMove, Zenon
    <3>4. job' = job \/ job'.by = w
      BY <3>3
    <3> QED BY <1>3, <2>1, <3>2, <3>4 DEF NameFacts, OwnItems, OwnNames
  <2>4. CASE Rotations(c)!Finish(w)
    BY <1>0, <2>1, <2>2, <2>4, FinishMoves
  <2> QED BY <1>0, <2>3, <2>4, WorkMoves
<1>5. ThreadsNamed(c)'
  BY <1>2, <1>3, <1>4 DEF NamesHold, ThreadsNamed
<1>6. AskersNamed(c)'
  BY <1>1, <1>2 DEF NamesHold, AskersNamed
<1> QED BY <1>4, <1>5, <1>6 DEF NamedNext, RowNamed

LEMMA CrashNamed ==
    ASSUME NEW c, NameFacts(c), RotationHold(c), NamesHold(c), NEW w \in c.threads,
           Rotations(c)!Crash(w)
    PROVE  NamedNext(c)
<1>0. RotationTyped(c) /\ c.maxPub \in Nat
  BY DEF NameFacts, RotationFacts, RotationHold
<1>1. /\ UNCHANGED <<pub, job>> /\ thr'[w].pc = "none"
      /\ \A v \in c.threads \ {w} : thr'[v] = thr[v]
  BY <1>0, CrashHolds
<1>2. \A b \in c.askers : \/ asker'[b] = asker[b] /\ asker[b].pc \notin {"plan", "save"}
                          \/ asker'[b] = Rotations(c)!NoAsk
  BY <1>0, CrashHolds
<1>3. \A b \in c.askers : asker'[b].pc \notin {"plan", "save"}
  BY <1>0, <1>2, NoAskIs
<1> QED BY <1>1, <1>3 DEF NamedNext, NamesHold, ThreadsNamed, AskersNamed, RowNamed

LEMMA SettleNamed ==
    ASSUME NEW c, NamesHold(c), "move" \notin c.faults, NEW x \in 1..c.maxPub, SettleMoves(c, x),
           UNCHANGED <<job, thr, asker>>
    PROVE  NamedNext(c)
<1>1. \A y \in 1..c.maxPub : pub[y].st = "assigned" => pub'[y] = pub[y]
  BY DEF SettleMoves
<1>2. RowNamed(c)'
  BY <1>1 DEF NamesHold, RowNamed
<1> QED BY <1>2 DEF NamedNext, NamesHold, ThreadsNamed, AskersNamed

LEMMA NamesNext ==
    ASSUME NEW c, NameFacts(c), RotationHold(c), RotationMoves(c), NamesHold(c)
    PROVE  NamesHold(c)'
<1>1. ASSUME Rotations(c)!GoStale
      PROVE  NamedNext(c)
  <2>1. /\ UNCHANGED <<pub, thr, asker>> /\ job'.by = job.by /\ job'.names = job.names
    BY <1>1, StaleHolds DEF RotationHold
  <2> QED BY <2>1 DEF NamedNext, NamesHold, ThreadsNamed, AskersNamed, RowNamed
<1>2. NamedNext(c)
  BY <1>1, AskNamed, SaveNamed, WorkNamed, CrashNamed, SettleNamed
     DEF RotationMoves, NameFacts, Rotations!Steady
<1> QED BY <1>2, PubsNamedNext DEF NamedNext, NamesHold

LEMMA NamesSay ==
    ASSUME NEW c, NamesHold(c)
    PROVE  Rotations(c)!NameKept
<1>1. ASSUME NEW x \in 1..c.maxPub
      PROVE  pub[x].name # "default"
  BY DEF NamesHold, PubsNamed
<1> QED BY <1>1 DEF Rotations!NameKept, Rotations!PubId

------------------------------------------------------------------------------
(* What all this comes to *)

\* What the constants of the parts give the lemmas.
LEMMA FactsOfParts ==
    /\ Allowance(Growing)!FreeQuotaAssumption /\ OpsFit(Growing)
    /\ Walls(Editing)!FirewallAssumption /\ WallsOf(Editing)
    /\ RotationFacts(Rotating) /\ RotationFacts(Overlapping) /\ NameFacts(Dying)
    /\ RotationFacts(Dying) /\ \A b, d \in Rotating.askers : b = d
    /\ Rotations(Rotating)!Steady /\ "kill" \notin Recording.faults
<1>1. ASSUME NEW c, Rotations(c)!IpRotationAssumption
      PROVE  RotationFacts(c)
  BY <1>1 DEF RotationFacts, Rotations!IpRotationAssumption
<1>2. RotationFacts(Rotating) /\ RotationFacts(Overlapping) /\ RotationFacts(Dying)
  BY <1>1, PartsAssumption
<1>3. NameFacts(Dying)
  BY <1>2, RotationParts DEF NameFacts
<1>4. OpsFit(Growing)
  BY QuotaParts DEF OpsFit
<1> QED BY <1>2, <1>3, <1>4, PartsAssumption, FirewallParts, RotationParts, GuestParts

LEMMA FreshInit ==
    ASSUME NEW c, Walls(c)!Init
    PROVE  FreshRead(c)
BY Zenon DEF FreshRead, Walls!Init

\* What is written is what was read and what was asked for.
WritesHold ==
    /\ part = "lists" => WallsTyped(Editing) /\ FreshRead(Editing)
    /\ part = "tags" => TagsHold
    /\ part = "publish" => PublishHold(Publishing)
    /\ part = "by hand" => HandsOff(Handling)
    /\ part = "rotations overlap" => RotationHold(Overlapping) /\ Consents(Overlapping)
    /\ part = "volumes" => Held(Growing)

LEMMA WritesInit ==
    ASSUME PartInit
    PROVE  WritesHold
<1>1. part = "lists" => WallsTyped(Editing) /\ FreshRead(Editing)
  BY FactsOfParts, InitWalls, FreshInit DEF PartInit
<1>2. part = "tags" => TagsHold
  BY TagsInit DEF PartInit
<1>3. part = "publish" => PublishHold(Publishing)
  BY PublishInit DEF PartInit
<1>4. part = "by hand" => HandsOff(Handling)
  BY GuestInit, Zenon DEF PartInit
<1>5. part = "rotations overlap" => RotationHold(Overlapping) /\ Consents(Overlapping)
  BY FactsOfParts, RotationHoldInit, ConsentsInit, Zenon DEF PartInit
<1>6. part = "volumes" => Held(Growing)
  BY HeldInit DEF PartInit
<1> QED BY <1>1, <1>2, <1>3, <1>4, <1>5, <1>6, Zenon DEF WritesHold

LEMMA WritesNext ==
    ASSUME WritesHold, PartNext
    PROVE  /\ WritesHold'
           /\ part = "lists" => Walls(Editing)!NoLostUpdate
           /\ part = "tags" => Tags!OthersKept
           /\ part = "publish" => Guests(Publishing)!OthersKept
           /\ part = "by hand" => Guests(Handling)!ByHandKept
           /\ part = "rotations overlap" => Rotations(Overlapping)!DeletesAgreed
           /\ part = "volumes" => Allowance(Growing)!NothingBilled
<1>0. part' = part
  BY StepsOfParts, Zenon
<1>1. part = "lists" => /\ WallsTyped(Editing)' /\ FreshRead(Editing)'
                        /\ Walls(Editing)!NoLostUpdate
  BY FactsOfParts, StepsOfParts, WallsTypeStep, FreshStep, NothingLost DEF WritesHold
<1>2. part = "tags" => TagsHold' /\ Tags!OthersKept
  BY StepsOfParts, TagsNext, TagsSay DEF WritesHold
<1>3. part = "publish" => PublishHold(Publishing)' /\ Guests(Publishing)!OthersKept
  BY StepsOfParts, PublishNext DEF WritesHold
<1>4. part = "by hand" => HandsOff(Handling)' /\ Guests(Handling)!ByHandKept
  BY StepsOfParts, HandsNext, Zenon DEF WritesHold
<1>5. part = "rotations overlap" =>
        /\ RotationHold(Overlapping)' /\ Consents(Overlapping)'
        /\ Rotations(Overlapping)!DeletesAgreed
  BY FactsOfParts, StepsOfParts, RotationHoldNext, ConsentsNext, DeletesConsented, Zenon DEF WritesHold
<1>6. part = "volumes" => Held(Growing)' /\ Allowance(Growing)!NothingBilled
  BY FactsOfParts, StepsOfParts, HeldNext, NothingIsBilled DEF WritesHold
<1> QED BY <1>0, <1>1, <1>2, <1>3, <1>4, <1>5, <1>6, Zenon DEF WritesHold

LEMMA WritesStay ==
    ASSUME WritesHold, UNCHANGED all
    PROVE  WritesHold'
<1>1. /\ UNCHANGED part /\ UNCHANGED quota /\ UNCHANGED firewall /\ UNCHANGED instance
      /\ UNCHANGED addresses /\ UNCHANGED guest
  BY DEF all
<1>2. WallsTyped(Editing)' = WallsTyped(Editing) /\ FreshRead(Editing)' = FreshRead(Editing)
  BY <1>1 DEF firewall, WallsTyped, NetTyped, MemTyped, Fit, FreshRead, Walls!Target, Walls!MyLists
<1>3. TagsHold' = TagsHold
  BY <1>1 DEF instance, TagsHold, Tags!Busy
<1>4. PublishHold(Publishing)' = PublishHold(Publishing)
  BY <1>1 DEF guest, PublishHold
<1>5. HandsOff(Handling)' = HandsOff(Handling)
  BY <1>1 DEF guest, HandsOff, RunsTyped
<1>6. /\ RotationHold(Overlapping)' = RotationHold(Overlapping)
      /\ Consents(Overlapping)' = Consents(Overlapping)
  BY <1>1 DEF addresses, RotationHold, RotationTyped, Tied, Ties, Planning, Consents
<1>7. Held(Growing)' = Held(Growing)
  BY <1>1 DEF quota, Held
<1> QED BY <1>1, <1>2, <1>3, <1>4, <1>5, <1>6, <1>7, Zenon DEF WritesHold

\* Whatever overlaps, a write to Oracle takes away what was asked for and nothing else: rules
\* of a list, tags, metadata, addresses on the card, public addresses; and a tenant who wants
\* none gets nothing that is billed (update_security_list and its etag, the tags of
\* update_instance, guest_ip_sync, rotate_public_ips, quota_guard.py).
THEOREM OthersStay == PartSpec => NothingElseGoes
<1>1. ASSUME WritesHold, [PartNext]_all
      PROVE  WritesHold'
  BY <1>1, WritesNext, WritesStay, Zenon
<1>2. WritesHold /\ [PartNext]_all =>
        [/\ part = "lists" => Walls(Editing)!NoLostUpdate
         /\ part = "tags" => Tags!OthersKept
         /\ part = "publish" => Guests(Publishing)!OthersKept
         /\ part = "by hand" => Guests(Handling)!ByHandKept
         /\ part = "rotations overlap" => Rotations(Overlapping)!DeletesAgreed
         /\ part = "volumes" => Allowance(Growing)!NothingBilled]_all
  BY WritesNext, Zenon
<1> QED BY <1>1, <1>2, WritesInit, PTL DEF PartSpec, NothingElseGoes

\* What is known of addresses, of the record of them in a guest and of the groups.
PlacesHold ==
    /\ part = "rotation" => /\ RotationHold(Rotating) /\ Replaced(Rotating)
                            /\ ReportHolds(Rotating)
    /\ part = "rotations die" => RotationHold(Dying) /\ NamesHold(Dying)
    /\ part = "record" => OnRecord(Recording)
    /\ part = "repairs" => RepairsHold(Repairing)

LEMMA PlacesStay ==
    ASSUME PlacesHold, UNCHANGED all
    PROVE  PlacesHold'
<1>1. /\ UNCHANGED part /\ UNCHANGED firewall /\ UNCHANGED addresses /\ UNCHANGED guest
  BY DEF all
<1>2. ASSUME NEW c
      PROVE  RotationHold(c)' = RotationHold(c)
  BY <1>1 DEF addresses, RotationHold, RotationTyped, Tied, Ties, Planning
<1>3. Replaced(Rotating)' = Replaced(Rotating)
  BY <1>1 DEF addresses, Replaced, NoRoom
<1>4. ReportHolds(Rotating)' = ReportHolds(Rotating)
  BY <1>1 DEF addresses, ReportHolds, OneJob, Phases, Phased, DoneIsSo, Reported
<1>5. NamesHold(Dying)' = NamesHold(Dying)
  BY <1>1 DEF addresses, NamesHold, PubsNamed, ThreadsNamed, AskersNamed, RowNamed, OwnItems,
     OwnNames
<1>6. OnRecord(Recording)' = OnRecord(Recording)
  BY <1>1 DEF guest, OnRecord, RunsTyped, Knows
<1>7. RepairsHold(Repairing)' = RepairsHold(Repairing)
  BY <1>1 DEF firewall, RepairsHold, WallsTyped, NetTyped, MemTyped, Fit, FreshRead, Alone,
     Cards, Carries, Spares, Walls!Target, Walls!MyLists, Walls!Busy
<1>8. RotationHold(Rotating)' = RotationHold(Rotating) /\ RotationHold(Dying)' = RotationHold(Dying)
  BY <1>2
<1> QED BY <1>1, <1>3, <1>4, <1>5, <1>6, <1>7, <1>8, Zenon DEF PlacesHold

LEMMA PlacesNext ==
    ASSUME PlacesHold, PartNext
    PROVE  PlacesHold'
<1>a. /\ RepairOnly(Repairing) /\ Walls(Repairing)!FirewallAssumption /\ WallsOf(Repairing)
      /\ Repairing.apart /\ Repairing.console = {}
      /\ \A f \in Repairing.initGroups : \A g \in Groups : f[g] # None =>
            \A x \in f[g] : x # Walls(Repairing)!Baseline /\ ~x.source
  BY PartsAssumption, FirewallParts DEF RepairOnly
<1>0. part' = part
  BY StepsOfParts, Zenon
<1>1. part = "rotation" => /\ RotationHold(Rotating)' /\ Replaced(Rotating)'
                           /\ ReportHolds(Rotating)'
  BY FactsOfParts, StepsOfParts, RotationHoldNext, ReplacedKept, ReportNext DEF PlacesHold
<1>2. part = "rotations die" => RotationHold(Dying)' /\ NamesHold(Dying)'
  BY FactsOfParts, StepsOfParts, RotationHoldNext, NamesNext, Zenon DEF PlacesHold
<1>3. part = "record" => OnRecord(Recording)'
  BY FactsOfParts, StepsOfParts, RecordNext DEF PlacesHold
<1>4. part = "repairs" => RepairsHold(Repairing)'
  BY <1>a, StepsOfParts, RepairsNext DEF PlacesHold
<1> QED BY <1>0, <1>1, <1>2, <1>3, <1>4, Zenon DEF PlacesHold

\* However requests, timeouts and crashes interleave: a new public address has taken the room
\* of the old one and is what the job reports, and keeps its name when rotations die, provided
\* one page asks for them; what the script has configured is on its record unless a run of it
\* is killed; and no group of a repair is left behind (rotate_public_ips, finish_ip_rotation,
\* ip_sync.py, auto_repair_network).
THEOREM AddressesDoHold == PartSpec => []AddressesHold
<1>1. PartInit => PlacesHold
  <2>1. /\ Walls(Repairing)!FirewallAssumption /\ WallsOf(Repairing)
        /\ RepairOnly(Repairing)
        /\ Repairing.apart /\ Repairing.console = {}
        /\ \A f \in Repairing.initGroups : \A g \in Groups : f[g] # None =>
              \A x \in f[g] : x # Walls(Repairing)!Baseline /\ ~x.source
    BY PartsAssumption, FirewallParts DEF RepairOnly
  <2>2. PartInit /\ part = "rotation" => /\ RotationHold(Rotating) /\ Replaced(Rotating)
                                         /\ ReportHolds(Rotating)
    BY FactsOfParts, RotationHoldInit, ReplacedInit, ReportInit DEF PartInit
  <2>3. PartInit /\ part = "rotations die" => RotationHold(Dying) /\ NamesHold(Dying)
    BY FactsOfParts, RotationHoldInit, NamesInit, Zenon DEF PartInit
  <2>4. PartInit /\ part = "record" => OnRecord(Recording)
    BY GuestInit DEF PartInit
  <2>5. PartInit /\ part = "repairs" => RepairsHold(Repairing)
    BY <2>1, RepairsInit DEF PartInit
  <2> QED BY <2>2, <2>3, <2>4, <2>5, Zenon DEF PlacesHold
<1>2. ASSUME PlacesHold, [PartNext]_all
      PROVE  PlacesHold'
  BY <1>2, PlacesNext, PlacesStay
<1>3. ASSUME PlacesHold
      PROVE  AddressesHold
  <2>1. part = "rotation" => Rotations(Rotating)!OneForOne /\ Rotations(Rotating)!ReportIsTrue
    BY <1>3, FactsOfParts, ReplacedIs, ReportSays DEF PlacesHold
  <2>2. part = "rotations die" => Rotations(Dying)!NameKept
    BY <1>3, NamesSay, Zenon DEF PlacesHold
  <2>3. part = "record" => Guests(Recording)!RecordComplete
    BY <1>3, RecordSays DEF PlacesHold
  <2>4. part = "repairs" => Walls(Repairing)!NoOrphans
    BY <1>3, FirewallParts, RepairsLeaveNone DEF PlacesHold
  <2> QED BY <2>1, <2>2, <2>3, <2>4, Zenon DEF AddressesHold
<1> QED BY <1>1, <1>2, <1>3, PTL DEF PartSpec

==============================================================================
