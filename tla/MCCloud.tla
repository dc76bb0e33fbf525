------------------------------- MODULE MCCloud -------------------------------
(***************************************************************************)
(* What is done to Oracle: the allowance of a free tenant, the firewall of *)
(* its instances, their tags, the rotation of public addresses and their   *)
(* synchronisation with the guest, and what is told of all this.  The      *)
(* components share no state: a behaviour is of one part.                  *)
(***************************************************************************)
EXTENDS Integers, Sequences, TLC

CONSTANTS
    None,
    x1, x2, x3, \* requests, threads, pages or addresses: what of one kind may be exchanged
    FreeA1, PaidA1, FreeE2, FreeDisk, MaxDisk, Settings,    \* the allowance, and the tenants
    Subnets, Lists, Groups, ListsOf, Mine,                  \* the network
    TagRequests,
    \* What the constants of a component are in each of its parts: a record of them.
    Launching, Growing, Judging,                \* the allowance
    Repairing, Editing, Reporting,              \* the firewall
    Rotating, Overlapping, Dying,               \* public addresses
    Recording, Handling, Publishing,            \* addresses in the guest
    SeveralPages, OnePage                       \* launch metadata

VARIABLES
    part,  \* the part this behaviour is of
    t, vm, disk, at, op, cur, known, left, lock, begun,
    lists, out, rules, nic, firewallAt, firewallOp, seen, read, fresh, todo, move, new,
    told, edits,
    state, tags, shots, instanceAt, instanceOp, had, shot, polls, shield, under,
    pub, job, thr, asker, agreed, asks, faults,
    priv, meta, imds, req, card, hand, record, sync, guestLock, reqs, guestEdits,
    guestFaults,
    mem, shared, status, run, made, page, done, clicks, metadataFaults,
    rows, notifyEdits, now, notifyAt, why, queue, snap, notifyCur, waits, limit, drips, began,
    deadline, posts, tls, verdicts, results, tested

Interchangeable == Permutations({x1, x2, x3})

\* Launches of one to three machines, A1 machines of several sizes, with these boot volumes.
Launches(shapes, sizes) ==
    [kind: {"launch"}, shape: shapes \ {"a1"}, size: {0}, n: 1..3, boot: {1}, fallbacks: {{}}]
    \cup [kind: {"launch"}, shape: shapes \cap {"a1"}, size: sizes, n: 1..2, boot: {1}, fallbacks: {{}}]
Resizes(sizes) == [kind: {"resize"}, on: {1}, size: sizes]
Grows(vs) == [kind: {"grow"}, on: vs, size: {2, 4}]

LaunchOps == Launches({"a1", "e2", "other"}, {1, 3}) \cup Resizes({2, 3})
VolumeOps == Launches({"a1"}, {1, 2}) \cup Grows({1, 11}) \cup [kind: {"create"}, size: {1, 2}]
RuleOps == Launches({"a1", "e2", "other"}, {1, 3}) \cup Resizes({4}) \cup Grows({1})

Everyone == [tier: {"", "paid"}, freeOnly: BOOLEAN, home: BOOLEAN, child: BOOLEAN]

\* Ingress rules.
Rule(from, proto, port) == [from |-> from, proto |-> proto, port |-> port, source |-> FALSE]
web == Rule("any", "tcp", "80")
ssh == Rule("any", "tcp", "22")
lan == Rule("lan", "tcp", "22")
every == Rule("any", "all", "none")

\* Two instances in two subnets of a network, a list of the panel that both subnets use and
\* one that Oracle made.
Here == "a" :> "one" @@ "b" :> "two"
Shared == "one" :> {1, 2} @@ "two" :> {1}

Op(kind, inst, list, xs, force, preview) ==
    [kind |-> kind, inst |-> inst, list |-> list, rules |-> xs, force |-> force,
     foreign |-> TRUE, preview |-> preview]
Plain(kind, inst) == Op(kind, inst, None, {}, FALSE, FALSE)

RepairOps ==
    {Plain("repair", i): i \in {"a", "b"}} \cup
    {Op("repair", "a", None, {}, TRUE, FALSE), Op("repair", "a", None, {}, FALSE, TRUE),
     [Plain("repair", "b") EXCEPT !.foreign = FALSE], Plain("tighten", "b"),
     Op("tighten", "a", None, {}, TRUE, FALSE), Op("delete", "b", 1, {web}, FALSE, FALSE)}
EditOps ==
    {Op("add", "a", 1, {web}, FALSE, FALSE), Op("add", "a", 2, {web, ssh}, FALSE, FALSE),
     Op("delete", "a", 1, {ssh}, FALSE, FALSE), Op("clear", "a", 1, {}, FALSE, FALSE),
     Op("open", "a", 1, {}, FALSE, FALSE), Op("cdn", "b", None, {}, FALSE, FALSE),
     Plain("tighten", "a"), Op("tighten", "b", None, {}, FALSE, TRUE)}
VerdictOps ==
    {Op("delete", "a", l, {web}, FALSE, FALSE): l \in {1, 2}} \cup
    {Op("clear", "a", l, {}, FALSE, FALSE): l \in {1, 2}} \cup
    {Op("cdn", "a", 1, {}, FALSE, FALSE), Plain("wipe", "a"), Plain("openall", "a"),
     Plain("cdn", "a")}

\* The lists, cards and groups there may be at first.
SomeLists == {<<xs, ys>> : xs, ys \in {{}, {web}, {web, ssh}}}
EditLists == {<<{}, {web}>>, <<{web, ssh}, {lan}>>, <<{ssh, lan}, {}>>}
AnyLists == {<<xs, ys>> : xs, ys \in SUBSET {web, ssh, every}}
NoneOrOwn == {"a" :> {} @@ "b" :> {}, "a" :> {11} @@ "b" :> {}, "a" :> {11} @@ "b" :> {12}}
OwnNics == {"a" :> {11} @@ "b" :> {12}}
AnyNics == {"a" :> gs : gs \in {{}, {11}, {11, 12}}}
WithTwo == {11 :> xs @@ 12 :> ys @@ 13 :> None: xs, ys \in {{}, {lan}, None}}
OwnTwo == {11 :> {} @@ 12 :> {web} @@ 13 :> None}
TwoAny == {11 :> xs @@ 12 :> ys @@ 13 :> None: xs, ys \in {{}, {web}, {lan}, {every}, None}}

\* The components, for what the record c says of their constants.
Allowance(c) == INSTANCE FreeQuota WITH
    Slots <- c.slots, Blocks <- c.blocks, Requests <- c.requests, Ops <- c.ops,
    RegionReads <- c.regionReads, Alone <- c.alone, MaxBegun <- c.maxBegun

Walls(c) == INSTANCE Firewall WITH
    Insts <- c.insts, SubnetOf <- c.subnetOf, Requests <- c.requests, Rules <- c.rules,
    Ops <- c.ops, InitLists <- c.initLists, InitNics <- c.initNics,
    InitGroups <- c.initGroups, Limit <- c.limit, Lossy <- FALSE, Apart <- c.apart,
    Console <- c.console, MaxEdits <- c.maxEdits, at <- firewallAt, op <- firewallOp

Rotations(c) == INSTANCE IpRotation WITH
    Private <- c.private, Thread <- c.threads, Asker <- c.askers, Checked <- c.checked,
    Selections <- c.selections, MaxPub <- c.maxPub, Quota <- c.quota, Bound <- c.bound,
    MaxAsks <- c.maxAsks, MaxFaults <- c.maxFaults, Faults <- c.faults, Many <- c.many

Guests(c) == INSTANCE IpSync WITH
    Addr <- c.addrs, Request <- c.requests, Sync <- c.syncs, Room <- c.room,
    Apart <- c.apart, MaxReqs <- c.maxReqs, MaxEdits <- c.maxEdits,
    MaxFaults <- c.maxFaults, Faults <- c.faults, lock <- guestLock, edits <- guestEdits,
    faults <- guestFaults

Loads(c) == INSTANCE LaunchMeta WITH
    Process <- c.processes, Page <- c.pages, Key <- c.keys, TTL <- c.ttl,
    MaxEntries <- c.maxEntries, MaxClicks <- c.maxClicks, MaxFaults <- c.maxFaults,
    Forced <- c.forced, Faults <- c.faults, faults <- metadataFaults

\* Launches overlap, of every kind of tenant whose home region can be read.
FreeLaunches ==
    [slots |-> {1, 2, 3}, blocks |-> {}, requests |-> {x1, x2}, ops |-> LaunchOps,
     regionReads |-> {TRUE}, alone |-> {"resize"}, maxBegun |-> 2]

\* Volumes are grown and made while machines are launched; the region may be unreadable.
FreeVolumes ==
    [slots |-> {1, 2}, blocks |-> {11}, requests |-> {x1, x2}, ops |-> VolumeOps,
     regionReads |-> BOOLEAN, alone |-> {"resize", "grow", "create"}, maxBegun |-> 2]

\* The verdicts about every request in every usage one request can lead to.
FreeRules ==
    [slots |-> {1, 2}, blocks |-> {11}, requests |-> {x1}, ops |-> RuleOps,
     regionReads |-> BOOLEAN, alone |-> {}, maxBegun |-> 1]

\* Repairs and tightenings of two instances that share a list.
TwoRepairs ==
    [insts |-> {"a", "b"}, subnetOf |-> Here, requests |-> {x1, x2}, rules |-> {web, ssh, lan},
     ops |-> RepairOps, initLists |-> SomeLists, initNics |-> NoneOrOwn,
     initGroups |-> WithTwo, limit |-> 3, apart |-> TRUE, console |-> {}, maxEdits |-> 0]

\* Two requests write the same lists, which are also changed from outside.
TwoEdits ==
    [insts |-> {"a", "b"}, subnetOf |-> Here, requests |-> {x1, x2}, rules |-> {web, ssh, lan},
     ops |-> EditOps, initLists |-> EditLists, initNics |-> OwnNics, initGroups |-> OwnTwo,
     limit |-> 3, apart |-> FALSE, console |-> {"list", "group"}, maxEdits |-> 1]

\* One request, whatever the lists, the card and the groups hold.
OneVerdict ==
    [insts |-> {"a"}, subnetOf |-> [i \in {"a"} |-> "one"], requests |-> {x1},
     rules |-> {web, ssh, lan, every}, ops |-> VerdictOps, initLists |-> AnyLists,
     initNics |-> AnyNics, initGroups |-> TwoAny, limit |-> 5, apart |-> TRUE,
     console |-> {}, maxEdits |-> 0]

\* One tag change at a time, terminations meanwhile, and answers that are lost.
Tags == INSTANCE InstanceOps WITH
    Requests <- TagRequests, Captures <- {},
    Ops <- {"protect", "release", "note", "clear note", "terminate"},
    Apart <- {"protect", "release", "note", "clear note"}, Answers <- BOOLEAN, Polls <- 1,
    at <- instanceAt, op <- instanceOp

\* Two addresses, all the room taken; every fault but those of others.
TwoAddresses ==
    [private |-> {"a", "b"}, threads |-> {x1}, askers |-> {"page"},
     checked |-> [q \in {"page"} |-> TRUE], selections |-> {{"a", "b"}}, maxPub |-> 4,
     quota |-> 2, bound |-> [p \in {"a", "b"} |-> IF p = "a" THEN 1 ELSE 2], maxAsks |-> 1,
     maxFaults |-> 2, faults |-> {"refuse", "error", "lost", "unbound", "slow"}, many |-> 4]

\* One address, a page and a script that both rotate it, and somebody else who binds
\* addresses; one binding asked for again stands for so many that the row goes stale.
TwoAskers ==
    [private |-> {"a"}, threads |-> {x1, x2, x3}, askers |-> {"page", "script"},
     checked |-> [q \in {"page", "script"} |-> q = "page"], selections |-> {{"a"}},
     maxPub |-> 4, quota |-> 4, bound |-> [p \in {"a"} |-> 1], maxAsks |-> 3, maxFaults |-> 1,
     faults |-> {"error", "lost", "unbound", "slow", "crash", "take", "move"}, many |-> 1]

\* One address, a rotation that dies and the next one.
OneAfterOther ==
    [private |-> {"a"}, threads |-> {x1, x2, x3}, askers |-> {"page"},
     checked |-> [q \in {"page"} |-> TRUE], selections |-> {{"a"}}, maxPub |-> 4, quota |-> 4,
     bound |-> [p \in {"a"} |-> 1], maxAsks |-> 3, maxFaults |-> 2,
     faults |-> {"lost", "crash", "save", "unbound"}, many |-> 4]

\* Two runs of the script; reboots, failures and addresses configured by hand.
TwoRuns ==
    [addrs |-> {x1, x2}, requests |-> {"r"}, syncs |-> {"timer", "install"}, room |-> 2,
     apart |-> TRUE, maxReqs |-> 2, maxEdits |-> 0, maxFaults |-> 2,
     faults |-> {"ip", "reboot", "admin"}]

\* The same with runs that are killed.
KilledRuns ==
    [addrs |-> {x1, x2}, requests |-> {"r"}, syncs |-> {"timer", "install"}, room |-> 2,
     apart |-> TRUE, maxReqs |-> 2, maxEdits |-> 0, maxFaults |-> 3,
     faults |-> {"ip", "reboot", "kill", "admin"}]

\* Two requests and somebody else who changes the metadata.
TwoWriters ==
    [addrs |-> {"a", "b"}, requests |-> {x1, x2}, syncs |-> {"timer"}, room |-> 1,
     apart |-> FALSE, maxReqs |-> 2, maxEdits |-> 2, maxFaults |-> 1, faults |-> {"oracle"}]

\* Two pages of the launch view over two processes; Oracle may fail, time passes.
TwoPages ==
    [processes |-> {"p1", "p2"}, pages |-> {x1, x2}, keys |-> {"key"}, ttl |-> 1,
     maxEntries |-> 1, maxClicks |-> 2, maxFaults |-> 1, forced |-> BOOLEAN,
     faults |-> {"fetch"}]

\* One page whose every call may reach another process; processes die.
SinglePage ==
    [processes |-> {"p1", "p2"}, pages |-> {"page"}, keys |-> {"key"}, ttl |-> 2,
     maxEntries |-> 1, maxClicks |-> 3, maxFaults |-> 2, forced |-> {TRUE},
     faults |-> {"fetch", "share", "crash"}]

\* Channels that are made and changed, and room for one send in a fan-out; no time.
Notices == INSTANCE Notify WITH
    Channels <- {1, 2}, Tests <- {1, 2}, Kinds <- {"telegram", "serverchan"},
    MaxSends <- 1, Budget <- 0, ConnectWait <- 0, WriteWait <- 0, ReadWait <- 0,
    TotalDeadline <- 0, SmtpWait <- 0, SmtpDeadline <- 0, QuitWait <- 0, Longest <- 0,
    MaxEdits <- 1, MaxDrips <- 0, edits <- notifyEdits, at <- notifyAt, cur <- notifyCur

\* The times of the code in units of twenty seconds, every limit rounded up.
Budgeted == INSTANCE Notify WITH
    Channels <- {1, 2}, Tests <- {}, Kinds <- {"telegram", "smtp"},
    MaxSends <- 20, Budget <- 3, ConnectWait <- 1, WriteWait <- 1, ReadWait <- 1,
    TotalDeadline <- 1, SmtpWait <- 1, SmtpDeadline <- 3, QuitWait <- 1, Longest <- 7,
    MaxEdits <- 0, MaxDrips <- 1, edits <- notifyEdits, at <- notifyAt, cur <- notifyCur

\* The variables of a part that the behaviour is not of.
Off(v) == v = "off"
QuotaOff ==
    /\ Off(t) /\ Off(vm) /\ Off(disk) /\ Off(at) /\ Off(op) /\ Off(cur) /\ Off(known)
    /\ Off(left) /\ Off(lock) /\ Off(begun)
FirewallOff ==
    /\ Off(lists) /\ Off(out) /\ Off(rules) /\ Off(nic) /\ Off(firewallAt)
    /\ Off(firewallOp) /\ Off(seen) /\ Off(read) /\ Off(fresh) /\ Off(todo) /\ Off(move)
    /\ Off(new) /\ Off(told) /\ Off(edits)
InstanceOff ==
    /\ Off(state) /\ Off(tags) /\ Off(shots) /\ Off(instanceAt) /\ Off(instanceOp)
    /\ Off(had) /\ Off(shot) /\ Off(polls) /\ Off(shield) /\ Off(under)
AddressesOff ==
    /\ Off(pub) /\ Off(job) /\ Off(thr) /\ Off(asker) /\ Off(agreed)
    /\ Off(asks) /\ Off(faults)
GuestOff ==
    /\ Off(priv) /\ Off(meta) /\ Off(imds) /\ Off(req) /\ Off(card) /\ Off(hand)
    /\ Off(record) /\ Off(sync) /\ Off(guestLock) /\ Off(reqs) /\ Off(guestEdits)
    /\ Off(guestFaults)
MetadataOff ==
    /\ Off(mem) /\ Off(shared) /\ Off(status) /\ Off(run) /\ Off(made) /\ Off(page)
    /\ Off(done) /\ Off(clicks) /\ Off(metadataFaults)
NotifyOff ==
    /\ Off(rows) /\ Off(notifyEdits) /\ Off(now) /\ Off(notifyAt) /\ Off(why)
    /\ Off(queue) /\ Off(snap) /\ Off(notifyCur) /\ Off(waits) /\ Off(limit) /\ Off(drips)
    /\ Off(began) /\ Off(deadline) /\ Off(posts) /\ Off(tls) /\ Off(verdicts)
    /\ Off(results) /\ Off(tested)

quota == <<t, vm, disk, at, op, cur, known, left, lock, begun>>
firewall == <<lists, out, rules, nic, firewallAt, firewallOp, seen, read, fresh, todo, move,
                new, told, edits>>
instance == <<state, tags, shots, instanceAt, instanceOp, had, shot, polls, shield, under>>
addresses == <<pub, job, thr, asker, agreed, asks, faults>>
guest == <<priv, meta, imds, req, card, hand, record, sync, guestLock, reqs, guestEdits,
             guestFaults>>
metadata == <<mem, shared, status, run, made, page, done, clicks, metadataFaults>>
notify == <<rows, notifyEdits, now, notifyAt, why, queue, snap, notifyCur, waits, limit,
              drips, began, deadline, posts, tls, verdicts, results, tested>>

all == <<part, quota, firewall, instance, addresses, guest, metadata, notify>>

PartInit ==
    \/ /\ part = "launches" /\ Allowance(Launching)!Init
       /\ FirewallOff /\ InstanceOff /\ AddressesOff /\ GuestOff /\ MetadataOff /\ NotifyOff
    \/ /\ part = "volumes" /\ Allowance(Growing)!Init
       /\ FirewallOff /\ InstanceOff /\ AddressesOff /\ GuestOff /\ MetadataOff /\ NotifyOff
    \/ /\ part = "verdicts" /\ Allowance(Judging)!Init
       /\ FirewallOff /\ InstanceOff /\ AddressesOff /\ GuestOff /\ MetadataOff /\ NotifyOff
    \/ /\ part = "repairs" /\ Walls(Repairing)!Init
       /\ QuotaOff /\ InstanceOff /\ AddressesOff /\ GuestOff /\ MetadataOff /\ NotifyOff
    \/ /\ part = "lists" /\ Walls(Editing)!Init
       /\ QuotaOff /\ InstanceOff /\ AddressesOff /\ GuestOff /\ MetadataOff /\ NotifyOff
    \/ /\ part = "told" /\ Walls(Reporting)!Init
       /\ QuotaOff /\ InstanceOff /\ AddressesOff /\ GuestOff /\ MetadataOff /\ NotifyOff
    \/ /\ part = "tags" /\ Tags!Init
       /\ QuotaOff /\ FirewallOff /\ AddressesOff /\ GuestOff /\ MetadataOff /\ NotifyOff
    \/ /\ part = "rotation" /\ Rotations(Rotating)!Init
       /\ QuotaOff /\ FirewallOff /\ InstanceOff /\ GuestOff /\ MetadataOff /\ NotifyOff
    \/ /\ part = "rotations overlap" /\ Rotations(Overlapping)!Init
       /\ QuotaOff /\ FirewallOff /\ InstanceOff /\ GuestOff /\ MetadataOff /\ NotifyOff
    \/ /\ part = "rotations die" /\ Rotations(Dying)!Init
       /\ QuotaOff /\ FirewallOff /\ InstanceOff /\ GuestOff /\ MetadataOff /\ NotifyOff
    \/ /\ part = "record" /\ Guests(Recording)!Init
       /\ QuotaOff /\ FirewallOff /\ InstanceOff /\ AddressesOff /\ MetadataOff /\ NotifyOff
    \/ /\ part = "by hand" /\ Guests(Handling)!Init
       /\ QuotaOff /\ FirewallOff /\ InstanceOff /\ AddressesOff /\ MetadataOff /\ NotifyOff
    \/ /\ part = "publish" /\ Guests(Publishing)!Init
       /\ QuotaOff /\ FirewallOff /\ InstanceOff /\ AddressesOff /\ MetadataOff /\ NotifyOff
    \/ /\ part = "pages" /\ Loads(SeveralPages)!Init
       /\ QuotaOff /\ FirewallOff /\ InstanceOff /\ AddressesOff /\ GuestOff /\ NotifyOff
    \/ /\ part = "page" /\ Loads(OnePage)!Init
       /\ QuotaOff /\ FirewallOff /\ InstanceOff /\ AddressesOff /\ GuestOff /\ NotifyOff
    \/ /\ part = "notices" /\ Notices!Init
       /\ QuotaOff /\ FirewallOff /\ InstanceOff /\ AddressesOff /\ GuestOff /\ MetadataOff
    \/ /\ part = "budget" /\ Budgeted!Init
       /\ QuotaOff /\ FirewallOff /\ InstanceOff /\ AddressesOff /\ GuestOff /\ MetadataOff

PartNext ==
    \/ /\ part = "launches" /\ Allowance(Launching)!Next
       /\ UNCHANGED <<part, firewall, instance, addresses, guest, metadata, notify>>
    \/ /\ part = "volumes" /\ Allowance(Growing)!Next
       /\ UNCHANGED <<part, firewall, instance, addresses, guest, metadata, notify>>
    \/ /\ part = "verdicts" /\ Allowance(Judging)!Next
       /\ UNCHANGED <<part, firewall, instance, addresses, guest, metadata, notify>>
    \/ /\ part = "repairs" /\ Walls(Repairing)!Next
       /\ UNCHANGED <<part, quota, instance, addresses, guest, metadata, notify>>
    \/ /\ part = "lists" /\ Walls(Editing)!Next
       /\ UNCHANGED <<part, quota, instance, addresses, guest, metadata, notify>>
    \/ /\ part = "told" /\ Walls(Reporting)!Next
       /\ UNCHANGED <<part, quota, instance, addresses, guest, metadata, notify>>
    \/ /\ part = "tags" /\ Tags!Next
       /\ UNCHANGED <<part, quota, firewall, addresses, guest, metadata, notify>>
    \/ /\ part = "rotation" /\ Rotations(Rotating)!Next
       /\ UNCHANGED <<part, quota, firewall, instance, guest, metadata, notify>>
    \/ /\ part = "rotations overlap" /\ Rotations(Overlapping)!Next
       /\ UNCHANGED <<part, quota, firewall, instance, guest, metadata, notify>>
    \/ /\ part = "rotations die" /\ Rotations(Dying)!Next
       /\ UNCHANGED <<part, quota, firewall, instance, guest, metadata, notify>>
    \/ /\ part = "record" /\ Guests(Recording)!Next
       /\ UNCHANGED <<part, quota, firewall, instance, addresses, metadata, notify>>
    \/ /\ part = "by hand" /\ Guests(Handling)!Next
       /\ UNCHANGED <<part, quota, firewall, instance, addresses, metadata, notify>>
    \/ /\ part = "publish" /\ Guests(Publishing)!Next
       /\ UNCHANGED <<part, quota, firewall, instance, addresses, metadata, notify>>
    \/ /\ part = "pages" /\ Loads(SeveralPages)!Next
       /\ UNCHANGED <<part, quota, firewall, instance, addresses, guest, notify>>
    \/ /\ part = "page" /\ Loads(OnePage)!Next
       /\ UNCHANGED <<part, quota, firewall, instance, addresses, guest, notify>>
    \/ /\ part = "notices" /\ Notices!Next
       /\ UNCHANGED <<part, quota, firewall, instance, addresses, guest, metadata>>
    \/ /\ part = "budget" /\ Budgeted!Next
       /\ UNCHANGED <<part, quota, firewall, instance, addresses, guest, metadata>>

PartSpec == PartInit /\ [][PartNext]_all

-----------------------------------------------------------------------------
ASSUME PartsAssumption ==
    /\ Allowance(Launching)!FreeQuotaAssumption /\ Allowance(Growing)!FreeQuotaAssumption
    /\ Allowance(Judging)!FreeQuotaAssumption /\ Walls(Repairing)!FirewallAssumption
    /\ Walls(Editing)!FirewallAssumption /\ Walls(Reporting)!FirewallAssumption
    /\ Tags!InstanceOpsAssumption /\ Rotations(Rotating)!IpRotationAssumption
    /\ Rotations(Overlapping)!IpRotationAssumption /\ Rotations(Dying)!IpRotationAssumption
    /\ Guests(Recording)!IpSyncAssumption /\ Guests(Handling)!IpSyncAssumption /\ Guests(Publishing)!IpSyncAssumption
    /\ Loads(SeveralPages)!LaunchMetaAssumption /\ Loads(OnePage)!LaunchMetaAssumption
    /\ Notices!NotifyAssumption /\ Budgeted!NotifyAssumption

\* The kinds of requests that the allowance is asked about, and what they ask for.
ASSUME QuotaParts ==
    /\ \A o \in Judging.ops : o.kind \in {"launch", "resize", "grow", "create"}
    /\ \A o \in Growing.ops :
          /\ o.size \in Nat
          /\ o.kind = "launch" => o.boot \in Nat /\ o.shape \in {"a1", "e2", "other"}

\* What the parts about launch metadata fix: in the one Oracle may fail and nothing else; in
\* the other there is one page, and no state goes unwritten.
ASSUME MetadataParts ==
    /\ SeveralPages.faults \subseteq {"fetch"}
    /\ OnePage.faults \subseteq {"fetch", "share", "crash"}
    /\ \A b, c \in OnePage.pages : b = c

\* What the parts of the firewall fix: what there is at first and what is asked for is made
\* of the rules and the instances of the part; a list of rules is not a missing group.
WallsOf(c) ==
    /\ c.initLists \subseteq [Lists -> SUBSET c.rules]
    /\ c.initNics \subseteq [c.insts -> SUBSET Groups]
    /\ c.initGroups \subseteq [Groups -> {None} \cup SUBSET c.rules]
    /\ None \notin Groups
    /\ \A xs \in SUBSET (c.rules \cup {Walls(c)!Baseline, Walls(c)!Cdn, Walls(c)!Everything}) :
          xs # None
    /\ \A o \in c.ops :
          /\ o.kind \in Walls(c)!ListKinds \cup Walls(c)!SubnetKinds \cup Walls(c)!GroupKinds
          /\ o.inst \in c.insts /\ o.rules \subseteq c.rules

\* Repairs are of one instance at a time, nothing is changed from outside and no group has a
\* rule for a port of origin, or lets in just what the panel leaves in its lists; a verdict is
\* told of a firewall that nobody else changes, with rules for whatever port of origin.
ASSUME FirewallParts ==
    /\ WallsOf(Repairing) /\ WallsOf(Editing) /\ WallsOf(Reporting)
    /\ Repairing.apart /\ Repairing.console = {}
    /\ Repairing.ops \subseteq [kind: {"repair", "tighten", "delete"}, inst: Repairing.insts,
                                 list: Lists \cup {None}, rules: SUBSET Repairing.rules,
                                 force: BOOLEAN, foreign: BOOLEAN, preview: BOOLEAN]
    /\ \A f \in Repairing.initGroups : \A g \in Groups : f[g] # None =>
          \A x \in f[g] : x # Walls(Repairing)!Baseline /\ ~x.source
    /\ Reporting.console = {} /\ \A r, q \in Reporting.requests : r = q
    /\ \A x \in Reporting.rules : ~x.source

\* Where the report and the names are looked at there is one page, and too few addresses for
\* a round to go stale, which nobody binds elsewhere; the names, of an instance whose
\* addresses are all there at first and are rotated together.
ASSUME RotationParts ==
    /\ Rotations(Rotating)!Steady /\ Rotations(Dying)!Steady
    /\ \A b, d \in Rotating.askers : b = d
    /\ \A b, d \in Dying.askers : b = d
    /\ Dying.selections \subseteq {Dying.private} /\ "none" \notin Dying.threads
    /\ \A p \in Dying.private : Dying.bound[p] # 0
    /\ \A p, q \in Dying.private : Dying.bound[p] = Dying.bound[q] => p = q

\* Where the record is looked at, no run of the script is killed.
ASSUME GuestParts == "kill" \notin Recording.faults

\* Every variable has its type.
TypesHold ==
    /\ part = "launches" => Allowance(Launching)!TypeOK
    /\ part = "volumes" => Allowance(Growing)!TypeOK
    /\ part = "verdicts" => Allowance(Judging)!TypeOK
    /\ part = "repairs" => Walls(Repairing)!TypeOK
    /\ part = "lists" => Walls(Editing)!TypeOK
    /\ part = "told" => Walls(Reporting)!TypeOK
    /\ part = "tags" => Tags!TypeOK
    /\ part = "rotation" => Rotations(Rotating)!TypeOK
    /\ part = "rotations overlap" => Rotations(Overlapping)!TypeOK
    /\ part = "rotations die" => Rotations(Dying)!TypeOK
    /\ part = "record" => Guests(Recording)!TypeOK
    /\ part = "by hand" => Guests(Handling)!TypeOK
    /\ part = "publish" => Guests(Publishing)!TypeOK
    /\ part = "pages" => Loads(SeveralPages)!TypeOK
    /\ part = "page" => Loads(OnePage)!TypeOK
    /\ part = "notices" => Notices!TypeOK
    /\ part = "budget" => Budgeted!TypeOK

\* An account that must not pay stays within the allowance, by whatever overlaps, in
\* batches and with parts of the usage unread (free_quota.py, launch_service.py).
WithinFree ==
    /\ TypesHold
    /\ part = "launches" => Allowance(Launching)!WithinFree /\ Allowance(Launching)!HomeChildToo
    /\ part = "volumes" => Allowance(Growing)!WithinFree

\* A usage that was read in part lets nothing through that the whole refuses, and the dry
\* run, the launch and the worker come to one verdict.
VerdictsAgree == part = "verdicts" => Allowance(Judging)!LossIsStricter /\ Allowance(Judging)!VerdictsAgree

\* A write to Oracle takes away what was asked for and nothing else, though others write the
\* same thing between the read and the write: rules of a list, metadata, addresses on the
\* card; public addresses, which a user who looked first has seen; tags, of which one is
\* changed at a time. Nothing that is billed comes to a tenant who wants none.
NothingElseGoes ==
    [][ /\ part = "lists" => Walls(Editing)!NoLostUpdate
        /\ part = "tags" => Tags!OthersKept
        /\ part = "publish" => Guests(Publishing)!OthersKept
        /\ part = "by hand" => Guests(Handling)!ByHandKept
        /\ part = "rotations overlap" => Rotations(Overlapping)!DeletesAgreed
        /\ part = "volumes" => Allowance(Growing)!NothingBilled
      ]_all

\* No repair of a firewall shuts anybody out that it was not told to, in whatever subnet,
\* and no termination passes a protection the user was told of.
NobodyIsHit ==
    [][ /\ part = "repairs" => Walls(Repairing)!SelfKept /\ Walls(Repairing)!NoneShutOut
        /\ part = "tags" => Tags!ShieldHolds
      ]_all

\* What the panel says a change of the firewall came to is so: shut, wide open, still
\* guarded behind the CDN, SSH reachable.
TruthIsTold ==
    [][part = "told" => Walls(Reporting)!ToldTrue /\ Walls(Reporting)!CdnTold /\ Walls(Reporting)!SshSure]_all

\* Addresses, NSGs and records of them: a new public address takes the room of an old one,
\* has its name and is what the job reports; what the script has configured is on record;
\* no NSG is left behind.
AddressesHold ==
    /\ part = "rotation" => Rotations(Rotating)!OneForOne /\ Rotations(Rotating)!ReportIsTrue
    /\ part = "rotations die" => Rotations(Dying)!NameKept
    /\ part = "record" => Guests(Recording)!RecordComplete
    /\ part = "repairs" => Walls(Repairing)!NoOrphans

\* A notification that is called sent was taken, once; the oldest channels come first, a
\* test tells what events will do, no password goes in clear, and a fan-out overruns its
\* budget by one send only, as long as that one takes (notify.py).
NoticesAreTrue ==
    /\ part = "notices" => /\ Notices!SentIsTaken /\ Notices!NotAgain
                           /\ Notices!TestTellsTruth /\ Notices!LastDropped
    /\ part = "budget" => Budgeted!FanOutBounded /\ Budgeted!NoPasswordInClear

\* The launch view shows no load as unfinished that runs or has ended well, whichever process
\* it asks; what one process has read of Oracle the other finds; a second click of a page
\* starts no second refresh (launch_service.py).
MetadataRight ==
    /\ part = "pages" => Loads(SeveralPages)!NeverUnfinished /\ Loads(SeveralPages)!WarmEverywhere
    /\ part = "page" => Loads(OnePage)!OneRefresh
==============================================================================
