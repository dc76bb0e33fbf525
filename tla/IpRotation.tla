----------------------------- MODULE IpRotation ------------------------------
(***************************************************************************)
(* Changing the public addresses of an instance's secondary private        *)
(* addresses (web/backend/ip_rotation.py, plan_multi_ip_rotation and       *)
(* rotate_multi_ips in app/oci_client.py).  A request makes a plan, saves  *)
(* the job and starts a thread, which has Oracle delete the old addresses  *)
(* and, for each that is gone, asks for a new one on the same private      *)
(* address.  The job is one row that every API process reads.              *)
(*                                                                         *)
(* Oracle deletes and binds after it has answered.  A list call shows what *)
(* is there; a list that fails leaves the round without effect.            *)
(***************************************************************************)
EXTENDS Integers, FiniteSets

CONSTANTS
    Private,    \* secondary private addresses of the instance
    Asker,      \* requests: the page, or a script
    Thread,     \* jobs that may be started
    Selections, \* which private addresses a request may name
    MaxPub,     \* bound: public addresses there ever are; 1..MaxPub are their names
    Quota,      \* Oracle's limit of reserved addresses in the region
    Bound,      \* private address -> its public address in the beginning, or 0
    Checked,    \* asker -> does it send what the user was shown
    MaxAsks,    \* bound: requests
    MaxFaults,  \* bound: faults
    Many,       \* bindings asked for again, one after the other, that may outlast STALE_SEC
    Faults      \* "refuse": 404 for what may not be deleted; "error"; "lost": no answer;
                \* "unbound": a binding fails; "slow"; "save"; "crash"; "take", "move":
                \* somebody binds elsewhere an address that is free, or that is bound

IpRotationAssumption ==
    /\ Bound \in [Private -> 0..MaxPub] /\ Checked \in [Asker -> BOOLEAN]
    /\ Selections \subseteq SUBSET Private /\ {} \notin Selections
    /\ MaxPub \in Nat /\ Quota \in Nat /\ MaxAsks \in Nat /\ MaxFaults \in Nat
    /\ Many \in Nat \ {0}
    /\ {"nowhere", "elsewhere"} \cap Private = {}

\* No round is long enough to go stale, and nobody binds an address elsewhere that is bound.
Steady == IsFiniteSet(Private) /\ Cardinality(Private) < Many /\ "move" \notin Faults

VARIABLES
    pub,    \* the public addresses: state, where they are bound, whose name they have
    job,    \* the row: state, is it stale, the thread it was saved for, names of the
            \* addresses, and which private addresses are done or failed
    thr,    \* the threads: where they are and their items
    asker,  \* the requests
    agreed, \* history: which addresses the user of a thread agreed to lose, by private address
    asks, faults

vars == <<pub, job, thr, asker, agreed, asks, faults>>

PubId == 1..MaxPub
Nowhere == "nowhere"
Elsewhere == "elsewhere"
Names == {"", "own", "default"}
PubState == {"none", "assigned", "assigning", "available", "terminating", "gone"}
ItemState == {"out", "pending", "releasing", "released", "assigning", "rebind", "create_failed",
              "done", "failed", "skipped"}
Pc == {"none", "release", "look", "rebind", "create", "end"}

Item == [st: ItemState, old: 0..MaxPub, new: 0..MaxPub, name: Names, flag: BOOLEAN, rounds: 0..1]
Out == [st |-> "out", old |-> 0, new |-> 0, name |-> "", flag |-> FALSE, rounds |-> 0]
NoItems == [p \in Private |-> Out]

TypeOK ==
    /\ pub \in [PubId -> [st: PubState, at: Private \cup {Nowhere, Elsewhere}, name: Names]]
    /\ job \in [state: {"none", "running", "done", "failed"}, stale: BOOLEAN, by: Thread \cup {"none"},
                names: [Private -> Names], done: SUBSET Private, failed: SUBSET Private]
    /\ thr \in [Thread -> [pc: Pc, items: [Private -> Item]]]
    /\ asker \in [Asker -> [pc: {"idle", "shown", "plan", "save"}, ids: SUBSET Private,
                            shown: [Private -> 0..MaxPub], names: [Private -> Names],
                            items: [Private -> Item]]]
    /\ agreed \in [Thread -> [Private -> SUBSET (0..MaxPub)]]
    /\ asks \in 0..MaxAsks /\ faults \in 0..MaxFaults

NoAsk == [pc |-> "idle", ids |-> {}, shown |-> [p \in Private |-> 0],
          names |-> [p \in Private |-> ""], items |-> NoItems]

Init ==
    /\ pub = [x \in PubId |-> IF \E p \in Private : Bound[p] = x
                 THEN [st |-> "assigned", at |-> CHOOSE p \in Private : Bound[p] = x, name |-> "own"]
                 ELSE [st |-> "none", at |-> Nowhere, name |-> ""]]
    /\ job = [state |-> "none", stale |-> FALSE, by |-> "none", names |-> [p \in Private |-> ""],
              done |-> {}, failed |-> {}]
    /\ thr = [t \in Thread |-> [pc |-> "none", items |-> NoItems]]
    /\ asker = [a \in Asker |-> NoAsk] /\ agreed = [t \in Thread |-> [p \in Private |-> {}]]
    /\ asks = 0 /\ faults = 0

Fault(kind) == kind \in Faults /\ faults < MaxFaults /\ faults' = faults + 1
NoFault == UNCHANGED faults

Exists(x) == pub[x].st \notin {"none", "gone"}
\* get_public_ip_by_private_ip_id and the list, by private address
PublicOf(p) == IF \E x \in PubId : Exists(x) /\ pub[x].at = p
               THEN CHOOSE x \in PubId : Exists(x) /\ pub[x].at = p ELSE 0
Live(t) == thr[t].pc # "none"

\* is_running
Running == job.state = "running" /\ ~job.stale

----------------------------------------------------------------------------
(* Requests *)

\* The page shows the addresses, or a script begins.
Show(a) ==
    /\ asker[a].pc = "idle" /\ asks < MaxAsks /\ asks' = asks + 1
    /\ asker' = [asker EXCEPT ![a] = [NoAsk EXCEPT !.pc = "shown", !.shown = [p \in Private |-> PublicOf(p)]]]
    /\ UNCHANGED <<pub, job, thr, agreed, faults>>

\* start_rotation, first part: another rotation, or the names of the last one
Ask(a) ==
    /\ asker[a].pc = "shown"
    /\ \E ids \in Selections :
          asker' = [asker EXCEPT ![a] = IF Running THEN NoAsk
                       ELSE [@ EXCEPT !.pc = "plan", !.ids = ids, !.names = job.names]]
    /\ UNCHANGED <<pub, job, thr, agreed, asks, faults>>

Planned(p, hint) ==
    LET x == PublicOf(p) IN
    [Out EXCEPT !.st = IF x = 0 \/ pub[x].st = "assigned" THEN "pending" ELSE "skipped",
                !.old = x,
                !.name = IF x # 0 THEN pub[x].name ELSE IF hint # "" THEN hint ELSE "default"]

\* Mutant: what the user was shown is not compared with what there is.
PlanUnseen(a) ==
    LET q == asker[a]
        items == [p \in Private |-> IF p \in q.ids THEN Planned(p, q.names[p]) ELSE Out] IN
    /\ q.pc = "plan"
    /\ asker' = [asker EXCEPT ![a] =
                    IF \E p \in Private : items[p].st = "pending"
                    THEN [q EXCEPT !.pc = "save", !.items = items] ELSE NoAsk]
    /\ UNCHANGED <<pub, job, thr, agreed, asks, faults>>

\* plan_multi_ip_rotation
Plan(a) ==
    LET q == asker[a]
        items == [p \in Private |-> IF p \in q.ids THEN Planned(p, q.names[p]) ELSE Out]
        fits == Checked[a] => \A p \in q.ids : items[p].old = q.shown[p] IN
    /\ q.pc = "plan"
    /\ asker' = [asker EXCEPT ![a] =
                    IF fits /\ \E p \in Private : items[p].st = "pending"
                    THEN [q EXCEPT !.pc = "save", !.items = items] ELSE NoAsk]
    /\ UNCHANGED <<pub, job, thr, agreed, asks, faults>>

\* start_rotation, last part: the row is written, then the thread begins
Save(a) ==
    LET items == asker[a].items IN
    /\ asker[a].pc = "save" /\ asker' = [asker EXCEPT ![a] = NoAsk]
    /\ \/ /\ NoFault
          /\ \E t \in Thread :
                /\ ~Live(t) /\ thr[t].items = NoItems
                /\ thr' = [thr EXCEPT ![t] = [pc |-> "release", items |-> [p \in Private |->
                              IF items[p].st = "pending" /\ items[p].old = 0
                              THEN [items[p] EXCEPT !.st = "released"] ELSE items[p]]]]
                /\ job' = [state |-> "running", stale |-> FALSE, by |-> t,
                           names |-> [p \in Private |-> items[p].name], done |-> {}, failed |-> {}]
                /\ agreed' = [agreed EXCEPT ![t] = [p \in Private |->
                                 IF Checked[a] THEN {asker[a].shown[p]} ELSE 0..MaxPub]]
       \/ Fault("save") /\ UNCHANGED <<job, thr, agreed>>
    /\ UNCHANGED <<pub, asks>>

----------------------------------------------------------------------------
(* The thread: rotate_multi_ips *)

Some(items, st) == \E p \in Private : items[p].st = st
Waits(i) == i.st \in {"releasing", "assigning", "rebind"} \/ (i.st = "create_failed" /\ ~i.flag)

\* Where a thread is after a step: all deletions first, then rounds of a list, new
\* bindings for those that came loose, and new addresses for those released.
After(pc, items) ==
    IF pc = "release" THEN IF Some(items, "pending") THEN "release" ELSE "look"
    ELSE IF Some(items, "rebind") THEN "rebind"
    ELSE IF Some(items, "released") THEN "create"
    ELSE IF \E p \in Private : Waits(items[p]) THEN "look" ELSE "end"

\* The items of a thread change and the row is saved, so that it is fresh again; but a round
\* that asks for bindings again says nothing until it has done so.
Steps(t, items) ==
    /\ thr' = [thr EXCEPT ![t] = [pc |-> After(@.pc, items), items |-> items]]
    /\ job' = IF After(thr[t].pc, items) = "rebind" THEN job
              ELSE [job EXCEPT !.state = "running", !.stale = FALSE, !.by = t,
                               !.names = [p \in Private |-> items[p].name], !.done = {}, !.failed = {}]
    /\ UNCHANGED <<asker, agreed, asks>>
Put(t, p, item) == Steps(t, [thr[t].items EXCEPT ![p] = item])

Releasing(i, refused) == [i EXCEPT !.st = "releasing", !.flag = refused, !.rounds = 0]
Fails(i) == [i EXCEPT !.st = "failed"]
Terminate(x) == pub' = [pub EXCEPT ![x].st = "terminating"]

Delete(t, p) ==
    LET i == thr[t].items[p]  x == i.old IN
    /\ thr[t].pc = "release" /\ i.st = "pending"
    /\ \/ /\ pub[x].st \in {"assigned", "assigning", "available"} /\ Terminate(x) /\ NoFault
          /\ Put(t, p, Releasing(i, FALSE))
       \/ /\ pub[x].st \in {"terminating", "gone"} /\ UNCHANGED pub /\ NoFault
          /\ Put(t, p, Releasing(i, TRUE)) \/ (pub[x].st = "terminating" /\ Put(t, p, Fails(i)))
       \/ Fault("refuse") /\ UNCHANGED pub /\ Put(t, p, Releasing(i, TRUE))
       \/ Fault("error") /\ UNCHANGED pub /\ Put(t, p, Fails(i))
       \/ /\ Fault("lost") /\ Put(t, p, Releasing(i, FALSE))
          /\ UNCHANGED pub \/ (pub[x].st \in {"assigned", "assigning", "available"} /\ Terminate(x))

\* With all of them skipped or without an address there is nothing to delete.
NoDeletes(t) ==
    /\ thr[t].pc = "release" /\ ~Some(thr[t].items, "pending") /\ Steps(t, thr[t].items)
    /\ UNCHANGED <<pub, faults>>

\* Mutant: an address that is not bound any more counts as gone.
CheckReleasedUnbound(i) ==
    IF i.st # "releasing" THEN i
    ELSE IF ~Exists(i.old) \/ pub[i.old].st = "terminating"
         THEN [i EXCEPT !.st = "released", !.flag = FALSE, !.rounds = 0] ELSE i

\* _rotation_check_released: gone from the list, not only unbound.  One whose
\* deletion was refused and that is bound in two rounds was not deleted.
CheckReleased(i) ==
    IF i.st # "releasing" THEN i
    ELSE IF ~Exists(i.old) THEN [i EXCEPT !.st = "released", !.flag = FALSE, !.rounds = 0]
    ELSE IF ~i.flag \/ pub[i.old].st # "assigned" THEN i
    ELSE IF i.rounds = 1 THEN Fails(i) ELSE [i EXCEPT !.rounds = 1]

\* _rotation_check_created: one that was made although the call failed is found again.
CheckCreated(i, p) ==
    LET x == PublicOf(p) IN
    IF i.st # "create_failed" \/ i.flag THEN i
    ELSE IF x \in {0, i.old} THEN [i EXCEPT !.flag = TRUE]
    ELSE [i EXCEPT !.st = "assigning", !.new = x, !.flag = FALSE, !.rounds = 0]

\* _rotation_check_assigned: only a binding that is seen counts.
CheckAssigned(i, p) ==
    LET x == pub[i.new] IN
    IF i.st # "assigning" THEN i
    ELSE IF x.st \in {"assigning", "assigned"} /\ x.at # p THEN Fails(i)
    ELSE IF x.st = "assigned" THEN [i EXCEPT !.st = "done"]
    ELSE IF x.st # "available" THEN [i EXCEPT !.rounds = 0]
    ELSE IF ~i.flag THEN [i EXCEPT !.st = "rebind", !.flag = TRUE, !.rounds = 0]
    ELSE IF i.rounds = 1 THEN Fails(i) ELSE [i EXCEPT !.rounds = 1]

Look(t) ==
    /\ thr[t].pc = "look"
    /\ Steps(t, [p \in Private |-> CheckAssigned(CheckCreated(CheckReleased(thr[t].items[p]), p), p)])
    /\ UNCHANGED <<pub, faults>>

\* Oracle does nothing more for this item.
Hopeless(i) ==
    \/ i.st = "releasing" /\ pub[i.old].st \in {"assigned", "assigning", "available"}
    \/ i.st = "assigning" /\ pub[i.new].st \in {"terminating", "gone"}

\* The deadlines of three minutes: what Oracle has not finished by then has failed.
TimesOut(t) ==
    /\ thr[t].pc = "look"
    /\ \E p \in Private :
          LET i == thr[t].items[p] IN
          /\ i.st \in {"releasing", "assigning"}
          /\ (NoFault /\ Hopeless(i)) \/ Fault("slow")
          /\ Put(t, p, Fails(i))
    /\ UNCHANGED pub

\* A binding that came loose is asked for once more.
Rebind(t, p) ==
    LET i == thr[t].items[p]  again == [i EXCEPT !.st = "assigning"] IN
    /\ thr[t].pc = "rebind" /\ i.st = "rebind"
    /\ \/ /\ PublicOf(p) \in {0, i.new} /\ Exists(i.new) /\ pub[i.new].st # "terminating" /\ NoFault
          /\ pub' = [pub EXCEPT ![i.new].st = "assigning", ![i.new].at = p]
          /\ Put(t, p, again)
       \/ /\ PublicOf(p) \notin {0, i.new} \/ ~Exists(i.new) \/ pub[i.new].st = "terminating"
          /\ NoFault /\ UNCHANGED pub /\ Put(t, p, Fails(i))
       \/ Fault("error") /\ UNCHANGED pub /\ Put(t, p, Fails(i))

Fresh == {x \in PubId : pub[x].st = "none"}
Least(S) == CHOOSE x \in S : \A y \in S : x <= y
Full == Cardinality({x \in PubId : Exists(x)}) >= Quota
Creates(p, name) ==
    /\ PublicOf(p) = 0 /\ ~Full /\ Fresh # {}
    /\ pub' = [pub EXCEPT ![Least(Fresh)] = [st |-> "assigning", at |-> p, name |-> name]]

\* _rotation_create: a new address in the same call as its binding.  Oracle refuses
\* when the limit is reached or the private address has one.
Create(t, p) ==
    LET i == thr[t].items[p]  failed == [i EXCEPT !.st = "create_failed", !.flag = FALSE] IN
    /\ thr[t].pc = "create" /\ i.st = "released"
    /\ \/ /\ Creates(p, i.name) /\ NoFault
          /\ Put(t, p, [i EXCEPT !.st = "assigning", !.new = Least(Fresh), !.flag = FALSE, !.rounds = 0])
       \/ (PublicOf(p) # 0 \/ Full) /\ UNCHANGED pub /\ NoFault /\ Put(t, p, failed)
       \/ Fault("error") /\ UNCHANGED pub /\ Put(t, p, failed)
       \/ Fault("lost") /\ Creates(p, i.name) /\ Put(t, p, failed)

\* _run, last part; what could not be made has failed
Finish(t) ==
    LET items == [p \in Private |-> IF thr[t].items[p].st = "create_failed"
                                    THEN Fails(thr[t].items[p]) ELSE thr[t].items[p]]
        In(st) == {p \in Private : items[p].st = st} IN
    /\ thr[t].pc = "end" /\ thr' = [thr EXCEPT ![t] = [pc |-> "none", items |-> items]]
    /\ \/ /\ NoFault
          /\ job' = [job EXCEPT !.state = IF In("failed") = {} THEN "done" ELSE "failed", !.stale = FALSE,
                        !.by = t, !.names = [p \in Private |-> items[p].name],
                        !.done = In("done"), !.failed = In("failed") \cup In("skipped")]
       \/ Fault("save") /\ UNCHANGED job
    /\ UNCHANGED <<pub, asker, agreed, asks>>

----------------------------------------------------------------------------
(* Oracle, time and others *)

Settle(x) ==
    /\ \/ pub[x].st = "assigning" /\ NoFault /\ pub' = [pub EXCEPT ![x].st = "assigned"]
       \/ /\ pub[x].st = "assigning" /\ Fault("unbound")
          /\ pub' = [pub EXCEPT ![x].st = "available", ![x].at = Nowhere]
       \/ /\ pub[x].st = "terminating" /\ NoFault
          /\ pub' = [pub EXCEPT ![x].st = IF @ = "terminating" /\ pub[x].at # Nowhere THEN @ ELSE "gone",
                                ![x].at = Nowhere]
    /\ UNCHANGED <<job, thr, asker, agreed, asks>>

\* Somebody binds an address elsewhere: to another instance, or as the primary one.
Take(x) ==
    /\ \/ pub[x].st = "available" /\ Fault("take")
       \/ pub[x].st = "assigned" /\ pub[x].at \in Private /\ Fault("move")
    /\ pub' = [pub EXCEPT ![x].st = "assigned", ![x].at = Elsewhere]
    /\ UNCHANGED <<job, thr, asker, agreed, asks>>

\* The process of a thread, and the requests it serves, are gone.
Crash(t) ==
    /\ Live(t) /\ Fault("crash") /\ thr' = [thr EXCEPT ![t].pc = "none"]
    /\ asker' = [a \in Asker |-> IF asker[a].pc \in {"plan", "save"} THEN NoAsk ELSE asker[a]]
    /\ UNCHANGED <<pub, job, agreed, asks>>

\* Each binding asked for again may take ROTATE_RETRY_SEC, and gives no sign.
Silent(t) ==
    thr[t].pc = "rebind" /\ Cardinality({p \in Private : thr[t].items[p].st = "rebind"}) >= Many

\* STALE_SEC without a sign: the thread is gone, or it is at many bindings in one round.
GoStale ==
    /\ job.state = "running" /\ ~job.stale /\ \A t \in Thread : Live(t) => Silent(t)
    /\ job' = [job EXCEPT !.stale = TRUE]
    /\ UNCHANGED <<pub, thr, asker, agreed, asks, faults>>

Work(t) ==
    \/ NoDeletes(t) \/ Look(t) \/ Finish(t)
    \/ \E p \in Private : Delete(t, p) \/ Rebind(t, p) \/ Create(t, p)
Next ==
    \/ \E a \in Asker : Show(a) \/ Ask(a) \/ Plan(a) \/ Save(a)
    \/ \E t \in Thread : Work(t) \/ TimesOut(t) \/ Crash(t)
    \/ \E x \in PubId : Settle(x) \/ Take(x)
    \/ GoStale

Spec == Init /\ [][Next]_vars

\* Threads go on, Oracle finishes what it began, and five minutes pass.
FairSpec == Spec /\ (\A t \in Thread : WF_vars(Work(t)) /\ WF_vars(TimesOut(t))) /\ (\A x \in PubId : WF_vars(Settle(x)))
                 /\ WF_vars(GoStale)

----------------------------------------------------------------------------
(* Properties *)

\* "Every new address is requested only when its own old one takes no room any
\* more": with all room taken a rotation works, and never has more than before.
OneForOne ==
    \A t \in Thread, p \in Private :
        LET i == thr[t].items[p] IN i.old # 0 /\ i.new # 0 => ~Exists(i.old)

\* "What is deleted must be the address the user has confirmed" (plan_multi_ip_rotation):
\* a request that says what its user was shown takes away no address that has come to the
\* private address since, by another rotation or by hand, however long it waits.
DeletesAgreed ==
    \A x \in PubId : pub[x].st # "terminating" /\ pub'[x].st = "terminating" =>
          \E t \in Thread, p \in Private :
             thr'[t] # thr[t] /\ thr[t].items[p].old = x /\ x \in agreed[t][p]

\* What is deleted is not in use elsewhere.
\* TLC refutes it: it is deleted by its name, wherever it is bound by then.
DeletesNoOthers ==
    \A x \in PubId : pub[x].st # "terminating" /\ pub'[x].st = "terminating" => pub[x].at # Elsewhere

\* A rotation takes away no address that another one, still at work, has made.
\* TLC refutes it for a request that does not say what its user was shown.
DeletesNoNew ==
    \A x \in PubId, t \in Thread, p \in Private :
        Live(t) /\ thr[t].items[p].new = x /\ pub[x].st # "terminating" => pub'[x].st # "terminating"

\* When a job has ended, the private addresses it calls changed have an address, and
\* those that have none are called failed.
ReportIsTrue ==
    job.state \in {"done", "failed"} /\ (\A t \in Thread : ~Live(t)) =>
        \A p \in Private :
            /\ p \in job.done => \E x \in PubId : pub[x].st = "assigned" /\ pub[x].at = p
            /\ PublicOf(p) = 0 /\ thr[job.by].items[p].st # "out" => p \in job.failed

\* A new address has the name of the one it replaces, even after a rotation that
\* died between the deletion and the new address.
NameKept == \A x \in PubId : pub[x].name # "default"

\* "An instance is changed by one task at a time" (open_api.py).
\* TLC refutes it for requests that overlap, and where a round is long enough to go stale.
OneRotation == Cardinality({t \in Thread : Live(t)}) <= 1

\* A rotation that died does not keep the next one out for ever. (NobodyWaits of MCEnds.)
KeptOut == Running /\ \A t \in Thread : ~Live(t)
NotKeptOut == KeptOut ~> ~KeptOut

\* A rotation comes to its end.
Ends == \A t \in Thread : Live(t) ~> ~Live(t)

\* What somebody has bound elsewhere is not snatched back.
\* TLC refutes it: it may be bound between the list and the call.
NotSnatched == \A x \in PubId : pub[x].at = Elsewhere => pub'[x].at = Elsewhere
==============================================================================
