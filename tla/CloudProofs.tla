----------------------------- MODULE CloudProofs -----------------------------
(***************************************************************************)
(* Theorems about launch metadata, the allowance of a free tenant, the     *)
(* firewall of an instance and its tags.  A lemma is about a component     *)
(* with whatever constants c; a theorem takes the constants of its part.   *)
(***************************************************************************)
EXTENDS MCCloud, FiniteSetTheorems, WellFoundedInduction, TLAPS

\* A step is of the part that the behaviour is of.
LEMMA StepsOfParts ==
    ASSUME PartNext
    PROVE  /\ part' = part
           /\ part = "launches" => Allowance(Launching)!Next
           /\ part = "volumes" => Allowance(Growing)!Next
           /\ part = "verdicts" => Allowance(Judging)!Next
           /\ part = "repairs" => Walls(Repairing)!Next
           /\ part = "lists" => Walls(Editing)!Next
           /\ part = "told" => Walls(Reporting)!Next
           /\ part = "tags" => Tags!Next
           /\ part = "rotation" => Rotations(Rotating)!Next
           /\ part = "rotations overlap" => Rotations(Overlapping)!Next
           /\ part = "rotations die" => Rotations(Dying)!Next
           /\ part = "record" => Guests(Recording)!Next
           /\ part = "by hand" => Guests(Handling)!Next
           /\ part = "publish" => Guests(Publishing)!Next
           /\ part = "pages" => Loads(SeveralPages)!Next
           /\ part = "page" => Loads(OnePage)!Next
           /\ part = "notices" => Notices!Next
           /\ part = "budget" => Budgeted!Next
BY Zenon DEF PartNext

------------------------------------------------------------------------------
(* Launch metadata *)

Docs(c) == [n: Nat, age: 0..c.ttl]
RunStates == {"none", "mark", "fetch", "evict", "share", "clear", "fail", "leave"}
PageStates == {"idle", "cached", "look", "join", "posted", "poll", "peek", "ready", "error",
               "unfinished"}
StoredStates == {"absent", "running", "error"}

PagesOf(c) == [pc: PageStates, key: c.keys, proc: c.processes, force: BOOLEAN, since: Nat,
               st: StoredStates, idles: {0, 1, 2}, polled: BOOLEAN,
               age: {0, 1}, got: Nat]

LoadsTyped(c) ==
    /\ mem \in [c.processes -> [c.keys -> Docs(c)]] /\ shared \in [c.keys -> Docs(c)]
    /\ status \in [c.keys -> [state: StoredStates, age: 0..c.ttl]]
    /\ run \in [c.processes -> [c.keys -> RunStates]]
    /\ made \in [c.processes -> [c.keys -> Nat]]
    /\ page \in [c.pages -> PagesOf(c)]
    /\ done \in Nat

\* What one process has is in the database, no older, or is about to be.
Warm(c) ==
    \A p \in c.processes, k \in c.keys :
       mem[p][k].age < c.ttl => \/ \E q \in c.processes : run[q][k] = "share"
                                \/ shared[k].age <= mem[p][k].age

\* A refresh that runs is known as such, unless one that ended meanwhile has taken its
\* state away; then the document of that one lives as long as its state would.
Vouched(c) ==
    \A q \in c.processes, k \in c.keys :
       /\ run[q][k] \notin {"none", "mark"} =>
             /\ status[k].age < c.ttl
             /\ status[k].state # "absent" \/ shared[k].age <= status[k].age
       /\ run[q][k] = "clear" => shared[k].age = 0

\* A poll finds a state or a document.
Answered(c, k) ==
    \/ status[k].age < c.ttl /\ status[k].state # "absent"
    \/ shared[k].age < c.ttl

Waiting(c, b) ==
    /\ page[b].age = 0 =>
          /\ page[b].idles = 0
          /\ page[b].pc = "posted" =>
                \/ Answered(c, page[b].key)
                \/ \E q \in c.processes : run[q][page[b].key] = "mark"
          /\ page[b].pc \in {"poll", "peek"} => Answered(c, page[b].key)
          /\ page[b].pc = "peek" /\ page[b].st = "absent" => shared[page[b].key].age < c.ttl
    /\ page[b].age = 1 =>
          /\ page[b].pc \in {"posted", "poll", "peek"} /\ page[b].idles <= 1
          /\ page[b].pc \in {"poll", "peek"} => page[b].polled /\ page[b].idles = 0
          /\ ~page[b].polled => page[b].idles = 0
    /\ page[b].pc # "unfinished"

LoadsRight(c) ==
    /\ LoadsTyped(c) /\ Warm(c) /\ Vouched(c)
    /\ \A b \in c.pages : Waiting(c, b)

\* With a single page a key has one refresh at most, which the page waits for.
Refreshing == {"mark", "fetch", "evict", "share", "clear", "fail"}

OneAtATime(c) ==
    \A p \in c.processes, k \in c.keys : run[p][k] \in Refreshing =>
       /\ \A q \in c.processes : run[q][k] \in Refreshing => p = q
       /\ run[p][k] # "mark" => status[k].state = "running" /\ status[k].age < c.ttl
       /\ run[p][k] = "mark" =>
             \E b \in c.pages : page[b].pc = "posted" /\ page[b].age = 0 /\ page[b].key = k
       /\ \A b \in c.pages : page[b].pc = "join" => page[b].key # k

OneLoad(c) == LoadsTyped(c) /\ OneAtATime(c)
    /\ \A b \in c.pages : page[b].age = 1 => page[b].pc \in {"posted", "poll", "peek"}

LEMMA InitLoads ==
    ASSUME NEW c, Loads(c)!LaunchMetaAssumption, Loads(c)!Init
    PROVE  LoadsRight(c) /\ OneLoad(c)
<1>1. c.ttl \in Nat \ {0}
  BY DEF Loads!LaunchMetaAssumption
<1>2. [n |-> 0, age |-> c.ttl] \in Docs(c)
  BY <1>1 DEF Docs
<1>3. PICK p \in c.processes, k \in c.keys :
         page = [b \in c.pages |-> [pc |-> "idle", key |-> k, proc |-> p, force |-> FALSE,
                    since |-> 0, st |-> "absent", idles |-> 0, polled |-> TRUE, age |-> 0,
                    got |-> 0]]
  BY Zenon DEF Loads!Init
<1>4. page \in [c.pages -> PagesOf(c)]
  BY <1>3 DEF PagesOf, PageStates, StoredStates
<1>5. LoadsTyped(c)
  <2>1. 0 \in 0..c.ttl
    BY <1>1
  <2>2. status \in [c.keys -> [state: StoredStates, age: 0..c.ttl]]
    BY <2>1 DEF Loads!Init, StoredStates
  <2> QED BY <1>2, <1>4, <2>2, Zenon DEF LoadsTyped, Loads!Init, Loads!NoDoc, RunStates
<1>6. /\ \A q \in c.processes, l \in c.keys : run[q][l] = "none" /\ mem[q][l].age = c.ttl
      /\ \A b \in c.pages : page[b].pc = "idle" /\ page[b].age = 0 /\ page[b].idles = 0
  BY <1>3 DEF Loads!Init, Loads!NoDoc
<1> QED BY <1>1, <1>5, <1>6
        DEF LoadsRight, OneLoad, Warm, Vouched, Waiting, OneAtATime, Refreshing

LEMMA LoadsTypeStep ==
    ASSUME NEW c, Loads(c)!LaunchMetaAssumption, LoadsTyped(c), Loads(c)!Next
    PROVE  LoadsTyped(c)'
<1>1. c.ttl \in Nat \ {0} /\ [n |-> 0, age |-> c.ttl] \in Docs(c)
  BY DEF Loads!LaunchMetaAssumption, Docs
<1>2. ASSUME NEW p \in c.processes, NEW k \in c.keys, Loads(c)!Work(p, k)
      PROVE  LoadsTyped(c)'
  <2>a. ASSUME NEW pc \in RunStates, run' = [run EXCEPT ![p][k] = pc]
        PROVE  run' \in [c.processes -> [c.keys -> RunStates]]
    BY <2>a DEF LoadsTyped
  <2>b. ASSUME NEW stored \in StoredStates, Loads(c)!Writes(k, stored)
        PROVE  status' \in [c.keys -> [state: StoredStates, age: 0..c.ttl]]
    <3>1. [state |-> stored, age |-> 0] \in [state: StoredStates, age: 0..c.ttl]
      BY <1>1
    <3> QED BY <2>b, <3>1, Zenon DEF LoadsTyped, Loads!Writes
  <2>c. RunStates = {"none", "mark", "fetch", "evict", "share", "clear", "fail", "leave"}
        /\ StoredStates = {"absent", "running", "error"}
    BY DEF RunStates, StoredStates
  <2>1. CASE Loads(c)!MarkRunning(p, k)
    <3>1. "fetch" \in RunStates /\ "running" \in StoredStates
      BY <2>c
    <3> QED BY <2>1, <2>a, <2>b, <3>1 DEF LoadsTyped, Loads!MarkRunning
  <2>2. CASE Loads(c)!Fetch(p, k)
    <3>1. "evict" \in RunStates /\ "fail" \in RunStates
      BY <2>c
    <3> QED BY <2>2, <2>a, <3>1 DEF LoadsTyped, Loads!Fetch
  <2>3. CASE Loads(c)!Insert(p, k)
    <3>1. PICK gone \in Loads(c)!Evicted(p) :
             mem' = [mem EXCEPT ![p] = [l \in c.keys |->
                       IF l = k THEN [n |-> done + 1, age |-> 0]
                       ELSE IF l \in gone \/ ~Loads(c)!Fresh(mem[p][l]) THEN Loads(c)!NoDoc
                       ELSE mem[p][l]]]
      BY <2>3 DEF Loads!Insert
    <3>2. [n |-> done + 1, age |-> 0] \in Docs(c) /\ Loads(c)!NoDoc \in Docs(c)
      BY <1>1 DEF LoadsTyped, Docs, Loads!NoDoc
    <3>3. mem' \in [c.processes -> [c.keys -> Docs(c)]]
      BY <3>1, <3>2 DEF LoadsTyped
    <3> QED BY <2>3, <3>3 DEF LoadsTyped, Loads!Insert, RunStates
  <2>4. CASE Loads(c)!Share(p, k)
    <3>1. [n |-> made[p][k], age |-> 0] \in Docs(c)
      BY <1>1 DEF LoadsTyped, Docs
    <3> QED BY <2>4, <3>1, Zenon DEF LoadsTyped, Loads!Share, Loads!NoFault, Loads!Fault, RunStates
  <2>5. CASE Loads(c)!Report(p, k)
    <3>1. "leave" \in RunStates /\ "absent" \in StoredStates /\ "error" \in StoredStates
      BY <2>c
    <3>2. PICK stored \in StoredStates : Loads(c)!Writes(k, stored)
      BY <2>5, <3>1 DEF Loads!Report
    <3> QED BY <2>5, <2>a, <2>b, <3>1, <3>2 DEF LoadsTyped, Loads!Report
  <2>6. CASE Loads(c)!Leave(p, k)
    BY <2>6, <2>a, <2>c DEF LoadsTyped, Loads!Leave
  <2> QED BY <1>2, <2>1, <2>2, <2>3, <2>4, <2>5, <2>6 DEF Loads!Work
<1>3. ASSUME NEW p \in c.processes, NEW k \in c.keys, Loads(c)!Clear(p, k)
      PROVE  LoadsTyped(c)'
  BY <1>1, <1>3 DEF LoadsTyped, Loads!Clear, Loads!Fault, Loads!NoDoc, StoredStates
<1>4. ASSUME NEW p \in c.processes, NEW k \in c.keys
      PROVE  Loads(c)!Peek(p, k) \in Docs(c)
  BY <1>4 DEF LoadsTyped, Loads!Peek
<1>5. ASSUME NEW b \in c.pages, Loads(c)!Asks(b)
      PROVE  LoadsTyped(c)'
  <2>1. page[b].proc \in c.processes /\ page[b].key \in c.keys /\ page[b] \in PagesOf(c)
    BY DEF LoadsTyped, PagesOf
  <2>2. Loads(c)!Peek(page[b].proc, page[b].key).n \in Nat
    BY <1>4, <2>1 DEF Docs
  <2>3. ASSUME NEW pc \in PageStates, NEW m \in Nat, Loads(c)!Ends(b, pc, m)
        PROVE  page' \in [c.pages -> PagesOf(c)]
    BY <2>1, <2>3, Zenon DEF LoadsTyped, PagesOf, Loads!Ends, StoredStates
  <2>4. ASSUME NEW pc \in PageStates, Loads(c)!Go(b, pc)
        PROVE  page' \in [c.pages -> PagesOf(c)]
    BY <2>1, <2>4, Zenon DEF LoadsTyped, PagesOf, Loads!Go
  <2>5. ASSUME Loads(c)!Promote(page[b].proc, page[b].key)
        PROVE  mem' \in [c.processes -> [c.keys -> Docs(c)]]
    BY <1>4, <2>1, <2>5 DEF LoadsTyped, Loads!Promote
  <2>6. CASE Loads(c)!PostPeeks(b)
    <3>1. "ready" \in PageStates /\ "look" \in PageStates
      BY DEF PageStates
    <3>2. page' \in [c.pages -> PagesOf(c)]
      BY <2>2, <2>3, <2>4, <2>6, <3>1 DEF Loads!PostPeeks
    <3> QED BY <2>5, <2>6, <3>2 DEF LoadsTyped, Loads!PostPeeks
  <2>7. CASE Loads(c)!PostLooks(b)
    BY <2>1, <2>7, Zenon DEF LoadsTyped, PagesOf, PageStates, Loads!PostLooks, Loads!Go
  <2>8. CASE Loads(c)!PostJoins(b)
    <3>1. run' \in [c.processes -> [c.keys -> RunStates]]
      BY <2>1, <2>8 DEF LoadsTyped, Loads!PostJoins, RunStates
    <3> QED BY <2>1, <2>8, <3>1, Zenon
               DEF LoadsTyped, PagesOf, PageStates, Loads!PostJoins, Loads!Go
  <2>9. CASE Loads(c)!PollReads(b)
    <3>1. Loads(c)!Read(page[b].key) \in StoredStates
      BY <2>1 DEF LoadsTyped, Loads!Read, StoredStates
    <3>2. "error" \in PageStates /\ "peek" \in PageStates /\ 0 \in Nat
      BY DEF PageStates
    <3>3. CASE Loads(c)!Ends(b, "error", 0)
      BY <2>3, <2>9, <3>2, <3>3 DEF LoadsTyped, Loads!PollReads
    <3>4. CASE page' = [page EXCEPT ![b].st = Loads(c)!Read(page[b].key), ![b].pc = "peek"]
      <4>1. page' \in [c.pages -> PagesOf(c)]
        BY <2>1, <3>1, <3>2, <3>4, Zenon DEF LoadsTyped, PagesOf
      <4> QED BY <2>9, <4>1 DEF LoadsTyped, Loads!PollReads
    <3> QED BY <2>9, <3>3, <3>4 DEF Loads!PollReads
  <2>10. CASE Loads(c)!PollPeeks(b)
    <3>1. {"ready", "unfinished", "posted"} \subseteq PageStates /\ 0 \in Nat
      BY DEF PageStates
    <3>2. CASE \/ Loads(c)!Ends(b, "ready", Loads(c)!Peek(page[b].proc, page[b].key).n)
               \/ Loads(c)!Ends(b, "unfinished", 0)
      BY <2>2, <2>3, <2>5, <2>10, <3>1, <3>2, Zenon DEF LoadsTyped, Loads!PollPeeks
    <3>3. CASE \/ page' = [page EXCEPT ![b].pc = "posted", ![b].idles = 0, ![b].st = "absent"]
               \/ /\ page[b].idles # 2
                  /\ page' = [page EXCEPT ![b].pc = "posted", ![b].idles = @ + 1]
      <4>1. [page[b] EXCEPT !.pc = "posted", !.idles = 0, !.st = "absent"] \in PagesOf(c)
        BY <2>1, Zenon DEF PagesOf, PageStates, StoredStates
      <4>a. page[b].idles # 2 => page[b].idles + 1 \in {0, 1, 2}
        BY <2>1 DEF PagesOf
      <4>b. page[b].idles # 2 =>
               [page[b] EXCEPT !.pc = "posted", !.idles = page[b].idles + 1] \in PagesOf(c)
        BY <2>1, <4>a, Zenon DEF PagesOf, PageStates
      <4>2. page' \in [c.pages -> PagesOf(c)]
        BY <3>3, <4>1, <4>b, Zenon DEF LoadsTyped
      <4> QED BY <2>5, <2>10, <4>2 DEF LoadsTyped, Loads!PollPeeks
    <3> QED BY <2>10, <3>2, <3>3 DEF Loads!PollPeeks
  <2>11. CASE Loads(c)!GiveUp(b)
    <3>1. "error" \in PageStates /\ 0 \in Nat
      BY DEF PageStates
    <3> QED BY <2>3, <2>11, <3>1 DEF LoadsTyped, Loads!GiveUp
  <2>12. CASE \E p \in c.processes : Loads(c)!Poll(b, p)
    <3>1. ASSUME NEW p \in c.processes
          PROVE  [page[b] EXCEPT !.pc = "poll", !.proc = p, !.polled = TRUE] \in PagesOf(c)
      BY <2>1, Zenon DEF PagesOf, PageStates
    <3> QED BY <2>12, <3>1, Zenon DEF LoadsTyped, Loads!Poll
  <2> QED BY <1>5, <2>6, <2>7, <2>8, <2>9, <2>10, <2>11, <2>12 DEF Loads!Asks
<1>6. ASSUME NEW b \in c.pages, NEW p \in c.processes, NEW k \in c.keys, NEW f \in c.forced,
             Loads(c)!Click(b, p, k, f)
      PROVE  LoadsTyped(c)'
  <2>1. f \in BOOLEAN /\ page[b] \in PagesOf(c) /\ done \in Nat
    BY DEF Loads!LaunchMetaAssumption, LoadsTyped
  <2>2. page' \in [c.pages -> PagesOf(c)]
    BY <1>6, <2>1, Zenon DEF LoadsTyped, Loads!Click, PagesOf, PageStates, StoredStates
  <2> QED BY <1>6, <2>2 DEF LoadsTyped, Loads!Click
<1>7. ASSUME NEW p \in c.processes, Loads(c)!Crash(p)
      PROVE  LoadsTyped(c)'
  <2>1. page' \in [c.pages -> PagesOf(c)]
    <3>1. ASSUME NEW b \in c.pages
          PROVE  /\ page[b] \in PagesOf(c)
                 /\ [page[b] EXCEPT !.pc = "error", !.polled = TRUE, !.age = 0] \in PagesOf(c)
      <4>1. page[b] \in PagesOf(c)
        BY DEF LoadsTyped
      <4> QED BY <4>1, Zenon DEF PagesOf, PageStates
    <3> QED BY <1>7, <3>1, Zenon DEF Loads!Crash
  <2>2. /\ mem' \in [c.processes -> [c.keys -> Docs(c)]]
        /\ run' \in [c.processes -> [c.keys -> RunStates]]
        /\ made' \in [c.processes -> [c.keys -> Nat]]
    BY <1>1, <1>7, Zenon DEF LoadsTyped, Loads!Crash, Loads!NoDoc, RunStates
  <2> QED BY <1>7, <2>1, <2>2, Zenon DEF LoadsTyped, Loads!Crash
<1>8. ASSUME Loads(c)!Tick
      PROVE  LoadsTyped(c)'
  <2>1. ASSUME NEW d \in Docs(c)
        PROVE  Loads(c)!Aged(d) \in Docs(c)
    BY <1>1 DEF Docs, Loads!Aged, Loads!Older, Loads!NoDoc
  <2>2. mem' \in [c.processes -> [c.keys -> Docs(c)]] /\ shared' \in [c.keys -> Docs(c)]
    <3>1. /\ \A p \in c.processes, k \in c.keys : Loads(c)!Aged(mem[p][k]) \in Docs(c)
          /\ \A k \in c.keys : Loads(c)!Aged(shared[k]) \in Docs(c)
      BY <2>1 DEF LoadsTyped
    <3> QED BY <1>8, <3>1, Zenon DEF Loads!Tick
  <2>3. status' \in [c.keys -> [state: StoredStates, age: 0..c.ttl]]
    <3>1. ASSUME NEW d \in [state: StoredStates, age: 0..c.ttl]
          PROVE  Loads(c)!Older(d) \in [state: StoredStates, age: 0..c.ttl]
      BY <1>1 DEF Loads!Older
    <3> QED BY <1>8, <3>1, Zenon DEF LoadsTyped, Loads!Tick
  <2>4. page' \in [c.pages -> PagesOf(c)]
    <3>1. ASSUME NEW b \in c.pages
          PROVE  /\ page[b] \in PagesOf(c)
                 /\ [page[b] EXCEPT !.polled = FALSE, !.age = 1] \in PagesOf(c)
      <4>1. page[b] \in PagesOf(c)
        BY DEF LoadsTyped
      <4> QED BY <4>1, Zenon DEF PagesOf
    <3> QED BY <1>8, <3>1, Zenon DEF Loads!Tick
  <2> QED BY <1>8, <2>2, <2>3, <2>4, Zenon DEF LoadsTyped, Loads!Tick
<1> QED BY <1>2, <1>3, <1>5, <1>6, <1>7, <1>8 DEF Loads!Next

LEMMA WorkKeepsRight ==
    ASSUME NEW c, Loads(c)!LaunchMetaAssumption, c.faults \subseteq {"fetch"}, LoadsRight(c),
           NEW p \in c.processes, NEW k \in c.keys, Loads(c)!Work(p, k)
    PROVE  Warm(c)' /\ Vouched(c)' /\ \A b \in c.pages : Waiting(c, b)'
<1>1. /\ LoadsTyped(c) /\ Warm(c) /\ Vouched(c)
      /\ \A b \in c.pages : Waiting(c, b)
      /\ c.ttl \in Nat \ {0}
  BY DEF LoadsRight, Loads!LaunchMetaAssumption
<1>2. /\ \A q \in c.processes, l \in c.keys : /\ mem[q][l].age \in 0..c.ttl
                                              /\ run[q][l] \in RunStates
      /\ \A l \in c.keys : shared[l].age \in 0..c.ttl /\ status[l].age \in 0..c.ttl
      /\ \A b \in c.pages : page[b].key \in c.keys
  BY <1>1 DEF LoadsTyped, Docs, PagesOf
<1>3. ASSUME NEW stored, Loads(c)!Writes(k, stored)
      PROVE  \A l \in c.keys : status'[l] = IF l = k THEN [state |-> stored, age |-> 0] ELSE status[l]
  BY <1>1, <1>3 DEF LoadsTyped, Loads!Writes, Loads!Fault
<1>4. ASSUME NEW pc, run' = [run EXCEPT ![p][k] = pc]
      PROVE  \A q \in c.processes, l \in c.keys :
                run'[q][l] = IF q = p /\ l = k THEN pc ELSE run[q][l]
  BY <1>1, <1>4 DEF LoadsTyped
<1>5. CASE Loads(c)!MarkRunning(p, k)
  <2>1. /\ run[p][k] = "mark" /\ UNCHANGED <<mem, shared, page>>
        /\ \A q \in c.processes, l \in c.keys :
              run'[q][l] = IF q = p /\ l = k THEN "fetch" ELSE run[q][l]
        /\ \A l \in c.keys :
              status'[l] = IF l = k THEN [state |-> "running", age |-> 0] ELSE status[l]
    BY <1>3, <1>4, <1>5, Zenon DEF Loads!MarkRunning
  <2>2. Warm(c)'
    BY <1>1, <2>1 DEF Warm
  <2>3. Vouched(c)'
    BY <1>1, <1>2, <2>1 DEF Vouched
  <2>4. \A b \in c.pages : Waiting(c, b)'
    BY <1>1, <1>2, <2>1 DEF Waiting, Answered
  <2> QED BY <2>2, <2>3, <2>4
<1>6. CASE Loads(c)!Fetch(p, k)
  <2>1. PICK pc \in {"evict", "fail"} :
           \A q \in c.processes, l \in c.keys :
              run'[q][l] = IF q = p /\ l = k THEN pc ELSE run[q][l]
    BY <1>4, <1>6, Zenon DEF Loads!Fetch
  <2>2. run[p][k] = "fetch" /\ UNCHANGED <<mem, shared, status, page>>
    BY <1>6 DEF Loads!Fetch
  <2>3. Warm(c)'
    BY <1>1, <2>1, <2>2 DEF Warm
  <2>4. Vouched(c)'
    BY <1>1, <1>2, <2>1, <2>2 DEF Vouched
  <2>5. \A b \in c.pages : Waiting(c, b)'
    BY <1>1, <1>2, <2>1, <2>2 DEF Waiting, Answered
  <2> QED BY <2>3, <2>4, <2>5
<1>7. CASE Loads(c)!Insert(p, k)
  <2>1. /\ run[p][k] = "evict" /\ UNCHANGED <<shared, status, page>>
        /\ \A q \in c.processes, l \in c.keys :
              run'[q][l] = IF q = p /\ l = k THEN "share" ELSE run[q][l]
    BY <1>4, <1>7, Zenon DEF Loads!Insert
  <2>2. \A q \in c.processes, l \in c.keys :
           \/ q = p /\ l = k
           \/ mem'[q][l] = mem[q][l]
           \/ mem'[q][l].age = c.ttl
    BY <1>1, <1>7 DEF LoadsTyped, Loads!Insert, Loads!NoDoc
  <2>3. Warm(c)'
    BY <1>1, <1>2, <2>1, <2>2 DEF Warm
  <2>4. Vouched(c)'
    BY <1>1, <1>2, <2>1 DEF Vouched
  <2>5. \A b \in c.pages : Waiting(c, b)'
    BY <1>1, <1>2, <2>1 DEF Waiting, Answered
  <2> QED BY <2>3, <2>4, <2>5
<1>8. CASE Loads(c)!Share(p, k)
  <2>1. /\ run[p][k] = "share" /\ UNCHANGED <<mem, status, page>>
        /\ \A q \in c.processes, l \in c.keys :
              run'[q][l] = IF q = p /\ l = k THEN "clear" ELSE run[q][l]
    BY <1>4, <1>8, Zenon DEF Loads!Share
  <2>2. \A l \in c.keys : shared'[l] = IF l = k THEN [n |-> made[p][k], age |-> 0] ELSE shared[l]
    BY <1>1, <1>8 DEF LoadsTyped, Loads!Share, Loads!Fault
  <2>3. Warm(c)'
    BY <1>1, <1>2, <2>1, <2>2 DEF Warm
  <2>4. Vouched(c)'
    BY <1>1, <1>2, <2>1, <2>2 DEF Vouched
  <2>5. \A b \in c.pages : Waiting(c, b)'
    BY <1>1, <1>2, <2>1, <2>2 DEF Waiting, Answered
  <2> QED BY <2>3, <2>4, <2>5
<1>9. CASE Loads(c)!Report(p, k)
  <2>1. PICK stored \in {"absent", "error"} :
           Loads(c)!Writes(k, stored) /\ (stored = "absent" => run[p][k] = "clear")
    <3>1. CASE run[p][k] = "clear"
      <4>1. Loads(c)!Writes(k, "absent")
        BY <1>9, <3>1 DEF Loads!Report
      <4> QED BY <3>1, <4>1
    <3>2. CASE run[p][k] # "clear"
      <4>1. Loads(c)!Writes(k, "error")
        BY <1>9, <3>2 DEF Loads!Report
      <4> QED BY <3>2, <4>1
    <3> QED BY <3>1, <3>2
  <2>a. /\ run[p][k] \in {"clear", "fail"} /\ UNCHANGED <<mem, shared, page>>
        /\ \A q \in c.processes, l \in c.keys :
              run'[q][l] = IF q = p /\ l = k THEN "leave" ELSE run[q][l]
        /\ \A l \in c.keys :
              status'[l] = IF l = k THEN [state |-> stored, age |-> 0] ELSE status[l]
    <3>1. /\ run[p][k] \in {"clear", "fail"} /\ run' = [run EXCEPT ![p][k] = "leave"]
          /\ UNCHANGED <<mem, shared, page>>
      BY <1>9 DEF Loads!Report
    <3>2. \A q \in c.processes, l \in c.keys :
             run'[q][l] = IF q = p /\ l = k THEN "leave" ELSE run[q][l]
      BY <1>4, <3>1, Zenon
    <3>3. \A l \in c.keys : status'[l] = IF l = k THEN [state |-> stored, age |-> 0] ELSE status[l]
      BY <1>3, <2>1
    <3> QED BY <3>1, <3>2, <3>3
  <2>b. stored # "absent" \/ shared[k].age = 0
    BY <1>1, <2>1 DEF Vouched
  <2>2. Warm(c)'
    BY <1>1, <2>a DEF Warm
  <2>3. Vouched(c)'
    BY <1>1, <1>2, <2>a, <2>b DEF Vouched
  <2>4. \A b \in c.pages : Waiting(c, b)'
    BY <1>1, <1>2, <2>a, <2>b DEF Waiting, Answered
  <2> QED BY <2>2, <2>3, <2>4
<1>10. CASE Loads(c)!Leave(p, k)
  <2>1. /\ run[p][k] = "leave" /\ UNCHANGED <<mem, shared, status, page>>
        /\ \A q \in c.processes, l \in c.keys :
              run'[q][l] = IF q = p /\ l = k THEN "none" ELSE run[q][l]
    BY <1>4, <1>10, Zenon DEF Loads!Leave
  <2>2. Warm(c)' /\ Vouched(c)'
    BY <1>1, <2>1 DEF Warm, Vouched
  <2>3. \A b \in c.pages : Waiting(c, b)'
    BY <1>1, <1>2, <2>1 DEF Waiting, Answered
  <2> QED BY <2>2, <2>3
<1> QED BY <1>5, <1>6, <1>7, <1>8, <1>9, <1>10 DEF Loads!Work

LEMMA PagesKeepRight ==
    ASSUME NEW c, Loads(c)!LaunchMetaAssumption, LoadsRight(c), NEW b \in c.pages,
           \/ Loads(c)!Asks(b)
           \/ \E p \in c.processes, k \in c.keys, f \in c.forced : Loads(c)!Click(b, p, k, f)
    PROVE  Warm(c)' /\ Vouched(c)' /\ \A d \in c.pages : Waiting(c, d)'
<1>1. /\ LoadsTyped(c) /\ Warm(c) /\ Vouched(c)
      /\ \A d \in c.pages : Waiting(c, d)
      /\ c.ttl \in Nat \ {0}
  BY DEF LoadsRight, Loads!LaunchMetaAssumption
<1>2. /\ \A q \in c.processes, l \in c.keys : /\ mem[q][l].age \in 0..c.ttl
                                              /\ run[q][l] \in RunStates
      /\ \A l \in c.keys : shared[l].age \in 0..c.ttl /\ status[l].age \in 0..c.ttl
      /\ \A d \in c.pages : page[d] \in PagesOf(c)
      /\ page[b].key \in c.keys /\ page[b].proc \in c.processes
      /\ page[b].age \in {0, 1} /\ page[b].idles \in {0, 1, 2}
  BY <1>1 DEF LoadsTyped, Docs, PagesOf
<1>3. UNCHANGED <<shared, status>>
  BY Zenon DEF Loads!Asks, Loads!PostPeeks, Loads!PostLooks, Loads!PostJoins, Loads!PollReads,
     Loads!PollPeeks, Loads!GiveUp, Loads!Poll, Loads!Click
\* A promotion takes nothing that the database has not.
<1>4. Warm(c)' /\ Vouched(c)' /\ \A q \in c.processes, l \in c.keys :
                                    run[q][l] = "mark" => run'[q][l] = "mark"
  <2>1. CASE UNCHANGED <<mem, run>>
    BY <1>1, <1>3, <2>1 DEF Warm, Vouched
  <2>2. CASE Loads(c)!Promote(page[b].proc, page[b].key) /\ UNCHANGED run
    <3>1. \A q \in c.processes, l \in c.keys :
             \/ mem'[q][l] = mem[q][l]
             \/ mem'[q][l] = shared[l]
      BY <1>1, <1>2, <2>2 DEF LoadsTyped, Loads!Promote, Loads!Peek
    <3>2. Warm(c)'
      BY <1>1, <1>2, <1>3, <2>2, <3>1 DEF Warm
    <3> QED BY <1>1, <1>3, <2>2, <3>2 DEF Vouched
  <2>3. CASE Loads(c)!PostJoins(b)
    <3>1. UNCHANGED mem /\ \A q \in c.processes, l \in c.keys :
             \/ run'[q][l] = run[q][l]
             \/ run[q][l] = "none" /\ run'[q][l] = "mark"
      BY <1>1, <1>2, <2>3 DEF LoadsTyped, Loads!PostJoins
    <3>2. Warm(c)'
      BY <1>1, <1>3, <3>1 DEF Warm
    <3>3. Vouched(c)'
      BY <1>1, <1>3, <3>1 DEF Vouched
    <3> QED BY <3>1, <3>2, <3>3
  <2> QED BY <2>1, <2>2, <2>3, Zenon
          DEF Loads!Asks, Loads!PostPeeks, Loads!PostLooks, Loads!PollReads, Loads!PollPeeks,
              Loads!GiveUp, Loads!Poll, Loads!Click
<1>5. ASSUME NEW d \in c.pages, page'[d] = page[d]
      PROVE  Waiting(c, d)'
  BY <1>1, <1>2, <1>3, <1>4, <1>5 DEF Waiting, Answered, PagesOf
<1>6. ASSUME page'[b].pc \notin {"posted", "poll", "peek", "unfinished"},
             page'[b].age = 0, page'[b].idles = 0
      PROVE  Waiting(c, b)'
  BY <1>6 DEF Waiting
<1>7. \A d \in c.pages : d # b => page'[d] = page[d]
  BY <1>1, Zenon DEF LoadsTyped, Loads!Asks, Loads!PostPeeks, Loads!PostLooks, Loads!PostJoins,
     Loads!PollReads, Loads!PollPeeks, Loads!GiveUp, Loads!Poll, Loads!Click, Loads!Ends, Loads!Go
<1>8. ASSUME NEW pc, NEW m, pc \notin {"posted", "poll", "peek", "unfinished"},
             Loads(c)!Ends(b, pc, m)
      PROVE  Waiting(c, b)'
  <2>1. page'[b].pc = pc /\ page'[b].age = 0 /\ page'[b].idles = 0
    BY <1>1, <1>2, <1>8 DEF LoadsTyped, Loads!Ends, PagesOf
  <2> QED BY <1>6, <1>8, <2>1
<1>9. ASSUME NEW pc, Loads(c)!Go(b, pc)
      PROVE  page'[b] = [page[b] EXCEPT !.pc = pc]
  BY <1>1, <1>2, <1>9, Zenon DEF LoadsTyped, Loads!Go
<1>10. Waiting(c, b)'
  <2>1. CASE Loads(c)!PostPeeks(b)
    <3>1. page[b].age = 0 /\ page[b].idles = 0
      BY <1>1, <1>2, <2>1 DEF Waiting, Loads!PostPeeks, Loads!At
    <3>2. CASE Loads(c)!Go(b, "look")
      <4>1. page'[b] = [page[b] EXCEPT !.pc = "look"]
        BY <1>9, <3>2
      <4>2. page'[b].pc = "look" /\ page'[b].age = 0 /\ page'[b].idles = 0
        BY <1>2, <3>1, <4>1 DEF PagesOf
      <4> QED BY <1>6, <4>2
    <3> QED BY <1>8, <2>1, <3>2 DEF Loads!PostPeeks
  <2>2. CASE Loads(c)!PostLooks(b)
    <3>1. page[b].age = 0 /\ page[b].idles = 0
      BY <1>1, <1>2, <2>2 DEF Waiting, Loads!PostLooks, Loads!At
    <3>2. CASE Loads(c)!Read(page[b].key) = "running"
      <4>1. Answered(c, page[b].key)
        BY <3>2 DEF Answered, Loads!Read, Loads!Fresh
      <4>2. page'[b] = [page[b] EXCEPT !.pc = "posted"]
        BY <1>9, <2>2, <3>2 DEF Loads!PostLooks
      <4> QED BY <1>2, <1>3, <3>1, <4>1, <4>2 DEF Waiting, Answered, PagesOf
    <3>3. CASE Loads(c)!Read(page[b].key) # "running"
      <4>1. page'[b] = [page[b] EXCEPT !.pc = "join"]
        BY <1>9, <2>2, <3>3 DEF Loads!PostLooks
      <4>2. page'[b].pc = "join" /\ page'[b].age = 0 /\ page'[b].idles = 0
        BY <1>2, <3>1, <4>1 DEF PagesOf
      <4> QED BY <1>6, <4>2
    <3> QED BY <3>2, <3>3
  <2>3. CASE Loads(c)!PostJoins(b)
    <3>1. page[b].age = 0 /\ page[b].idles = 0
      BY <1>1, <1>2, <2>3 DEF Waiting, Loads!PostJoins, Loads!At
    <3>2. page'[b] = [page[b] EXCEPT !.pc = "posted"]
      BY <1>9, <2>3 DEF Loads!PostJoins
    <3>3. page'[b].pc = "posted" /\ page'[b].age = 0 /\ page'[b].idles = 0
          /\ page'[b].key = page[b].key
      BY <1>2, <3>1, <3>2 DEF PagesOf
    <3>4. CASE run[page[b].proc][page[b].key] \in {"none", "mark"}
      <4>1. run'[page[b].proc][page[b].key] = "mark"
        BY <1>1, <1>2, <2>3, <3>4 DEF LoadsTyped, Loads!PostJoins
      <4> QED BY <1>2, <3>3, <4>1 DEF Waiting
    <3>5. CASE run[page[b].proc][page[b].key] \notin {"none", "mark"}
      <4>1. Answered(c, page[b].key)
        BY <1>1, <1>2, <3>5 DEF Vouched, Answered
      <4> QED BY <1>3, <3>3, <4>1 DEF Waiting, Answered
    <3> QED BY <3>4, <3>5
  <2>4. CASE \E p \in c.processes : Loads(c)!Poll(b, p)
    <3>1. PICK p \in c.processes : Loads(c)!Poll(b, p)
      BY <2>4
    <3>2. /\ page[b].pc = "posted" /\ (page[b].age = 1 => ~page[b].polled)
          /\ \A q \in c.processes : run[q][page[b].key] # "mark"
          /\ page' = [page EXCEPT ![b].pc = "poll", ![b].proc = p, ![b].polled = TRUE]
      BY <3>1 DEF Loads!Poll, Loads!At
    <3>3. /\ page'[b].pc = "poll" /\ page'[b].age = page[b].age /\ page'[b].polled
          /\ page'[b].idles = page[b].idles /\ page'[b].key = page[b].key
      BY <1>1, <1>2, <3>2 DEF LoadsTyped, PagesOf
    <3> QED BY <1>1, <1>2, <1>3, <3>2, <3>3 DEF Waiting, Answered
  <2>5. CASE Loads(c)!PollReads(b)
    <3>1. CASE Loads(c)!Read(page[b].key) = "error"
      BY <1>8, <2>5, <3>1 DEF Loads!PollReads
    <3>2. CASE Loads(c)!Read(page[b].key) # "error"
      <4>1. /\ page[b].pc = "poll"
            /\ page' = [page EXCEPT ![b].st = Loads(c)!Read(page[b].key), ![b].pc = "peek"]
        BY <2>5, <3>2 DEF Loads!PollReads, Loads!At
      <4>2. /\ page'[b].pc = "peek" /\ page'[b].age = page[b].age
            /\ page'[b].polled = page[b].polled /\ page'[b].idles = page[b].idles
            /\ page'[b].key = page[b].key /\ page'[b].st = Loads(c)!Read(page[b].key)
        BY <1>1, <1>2, <4>1 DEF LoadsTyped, PagesOf
      <4>3. Answered(c, page[b].key) /\ Loads(c)!Read(page[b].key) = "absent"
               => shared[page[b].key].age < c.ttl
        BY DEF Answered, Loads!Read, Loads!Fresh
      <4> QED BY <1>1, <1>2, <1>3, <4>1, <4>2, <4>3 DEF Waiting, Answered
    <3> QED BY <3>1, <3>2
  <2>6. CASE Loads(c)!PollPeeks(b)
    <3>1. page[b].pc = "peek" /\ page[b].idles = 0
      BY <1>1, <1>2, <2>6 DEF Waiting, Loads!PollPeeks, Loads!At
    <3>2. CASE Loads(c)!Ends(b, "ready", Loads(c)!Peek(page[b].proc, page[b].key).n)
      BY <1>8, <3>2
    <3>3. CASE page[b].age = 1
               /\ ~Loads(c)!Ends(b, "ready", Loads(c)!Peek(page[b].proc, page[b].key).n)
      <4>1. \/ page' = [page EXCEPT ![b].pc = "posted", ![b].idles = 0, ![b].st = "absent"]
            \/ page' = [page EXCEPT ![b].pc = "posted", ![b].idles = @ + 1]
        BY <2>6, <3>1, <3>3 DEF Loads!PollPeeks
      <4>2. /\ page'[b].pc = "posted" /\ page'[b].age = 1 /\ page'[b].idles \in {0, 1}
            /\ page'[b].polled = page[b].polled
        BY <1>1, <1>2, <3>1, <3>3, <4>1 DEF LoadsTyped, PagesOf
      <4> QED BY <1>1, <3>1, <3>3, <4>2 DEF Waiting
    <3>4. CASE page[b].age = 0
               /\ ~Loads(c)!Ends(b, "ready", Loads(c)!Peek(page[b].proc, page[b].key).n)
      <4>1. ~Loads(c)!Fresh(Loads(c)!Peek(page[b].proc, page[b].key))
               => ~(shared[page[b].key].age < c.ttl)
        BY DEF Loads!Peek, Loads!Fresh
      <4>2. page' = [page EXCEPT ![b].pc = "posted", ![b].idles = 0, ![b].st = "absent"]
        BY <1>1, <2>6, <3>1, <3>4, <4>1 DEF Loads!PollPeeks, Waiting
      <4>3. /\ page'[b].pc = "posted" /\ page'[b].age = 0 /\ page'[b].idles = 0
            /\ page'[b].key = page[b].key
        BY <1>1, <1>2, <3>4, <4>2 DEF LoadsTyped, PagesOf
      <4>4. Answered(c, page[b].key)
        BY <1>1, <3>1, <3>4 DEF Waiting
      <4> QED BY <1>3, <4>3, <4>4 DEF Waiting, Answered
    <3> QED BY <1>2, <3>2, <3>3, <3>4
  <2>7. CASE Loads(c)!GiveUp(b)
    BY <1>8, <2>7 DEF Loads!GiveUp
  <2>8. ASSUME NEW p \in c.processes, NEW k \in c.keys, NEW f \in c.forced,
               Loads(c)!Click(b, p, k, f)
        PROVE  Waiting(c, b)'
    <3>1. /\ page'[b].pc \in {"look", "cached"} /\ page'[b].age = 0 /\ page'[b].idles = 0
      <4>1. PICK pc \in {"look", "cached"} :
               page' = [page EXCEPT ![b] = [@ EXCEPT !.pc = pc, !.key = k, !.proc = p, !.force = f,
                          !.since = done, !.st = "absent", !.idles = 0, !.polled = FALSE,
                          !.age = 0, !.got = 0]]
        BY <2>8, Zenon DEF Loads!Click
      <4> QED BY <1>1, <1>2, <4>1 DEF LoadsTyped, PagesOf
    <3> QED BY <1>6, <3>1
  <2> QED BY <2>1, <2>2, <2>3, <2>4, <2>5, <2>6, <2>7, <2>8 DEF Loads!Asks
<1> QED BY <1>4, <1>5, <1>7, <1>10

LEMMA TickKeepsRight ==
    ASSUME NEW c, Loads(c)!LaunchMetaAssumption, c.faults \subseteq {"fetch"}, LoadsRight(c),
           Loads(c)!Tick
    PROVE  Warm(c)' /\ Vouched(c)' /\ \A b \in c.pages : Waiting(c, b)'
<1>1. /\ LoadsTyped(c) /\ Warm(c) /\ Vouched(c)
      /\ \A b \in c.pages : Waiting(c, b)
      /\ c.ttl \in Nat \ {0} /\ "slow" \notin c.faults
  BY DEF LoadsRight, Loads!LaunchMetaAssumption
<1>2. /\ \A q \in c.processes, l \in c.keys : mem[q][l].age \in 0..c.ttl
      /\ \A l \in c.keys : /\ shared[l] \in Docs(c) /\ shared[l].age \in 0..c.ttl
                           /\ status[l] \in [state: StoredStates, age: 0..c.ttl]
                           /\ status[l].age \in 0..c.ttl
      /\ \A b \in c.pages : page[b] \in PagesOf(c)
      /\ \A b \in c.pages : page[b].age \in {0, 1}
  BY <1>1 DEF LoadsTyped, Docs, PagesOf
<1>a. /\ \A q \in c.processes, l \in c.keys : mem[q][l].age \in Nat
      /\ \A l \in c.keys : shared[l].age \in Nat /\ status[l].age \in Nat
      /\ c.ttl \in Nat
  BY <1>1, <1>2
<1>3. /\ \A q \in c.processes, l \in c.keys :
            /\ run'[q][l] = run[q][l] /\ run[q][l] \in {"none", "fetch"}
            /\ run[q][l] = "fetch" => status[l].age + 1 < c.ttl
      /\ \A b \in c.pages : page[b].pc \notin {"cached", "look", "join", "poll", "peek"}
      /\ \A b \in c.pages : page[b].pc = "posted" => page[b].polled /\ page[b].age = 0
      /\ \A b \in c.pages : page'[b] = IF page[b].pc = "posted"
                                        THEN [page[b] EXCEPT !.polled = FALSE, !.age = 1]
                                        ELSE page[b]
  BY <1>1, Zenon DEF Loads!Tick, Loads!At
<1>4. ASSUME NEW d \in Docs(c)
      PROVE  Loads(c)!Aged(d).age = IF d.age + 1 < c.ttl THEN d.age + 1 ELSE c.ttl
  BY <1>1, <1>4 DEF Loads!Aged, Loads!Older, Loads!NoDoc, Docs
<1>5. /\ \A q \in c.processes, l \in c.keys :
            mem'[q][l].age = IF mem[q][l].age + 1 < c.ttl THEN mem[q][l].age + 1 ELSE c.ttl
      /\ \A l \in c.keys :
            shared'[l].age = IF shared[l].age + 1 < c.ttl THEN shared[l].age + 1 ELSE c.ttl
  <2>1. ASSUME NEW q \in c.processes, NEW l \in c.keys
        PROVE  mem[q][l] \in Docs(c) /\ mem'[q][l] = Loads(c)!Aged(mem[q][l])
    <3>1. mem' = [p \in c.processes |-> [k \in c.keys |-> Loads(c)!Aged(mem[p][k])]]
      BY Zenon DEF Loads!Tick
    <3>2. mem[q][l] \in Docs(c)
      BY <1>1 DEF LoadsTyped
    <3> QED BY <3>1, <3>2
  <2>2. ASSUME NEW l \in c.keys
        PROVE  shared'[l] = Loads(c)!Aged(shared[l])
    BY Zenon DEF Loads!Tick
  <2> QED BY <1>2, <1>4, <2>1, <2>2
<1>6. \A l \in c.keys : /\ status'[l].state = status[l].state
                        /\ status[l].age < c.ttl => status'[l].age = status[l].age + 1
  <2>1. ASSUME NEW l \in c.keys
        PROVE  status'[l] = Loads(c)!Older(status[l])
    BY Zenon DEF Loads!Tick
  <2> QED BY <1>1, <1>2, <2>1, Zenon DEF Loads!Older
<1>7. Warm(c)'
  <2>1. ASSUME NEW p \in c.processes, NEW k \in c.keys, mem'[p][k].age < c.ttl
        PROVE  shared'[k].age <= mem'[p][k].age
    <3>1. mem[p][k].age < c.ttl /\ mem'[p][k].age = mem[p][k].age + 1
      BY <1>a, <1>5, <2>1
    <3>2. shared[k].age <= mem[p][k].age
      BY <1>1, <1>3, <3>1, Zenon DEF Warm
    <3>3. shared'[k].age = shared[k].age + 1
      BY <1>a, <1>5, <2>1, <3>1, <3>2
    <3> QED BY <1>a, <3>1, <3>2, <3>3
  <2> QED BY <2>1 DEF Warm
<1>8. Vouched(c)'
  <2>1. ASSUME NEW q \in c.processes, NEW k \in c.keys, run[q][k] = "fetch"
        PROVE  /\ status'[k].age < c.ttl
               /\ status'[k].state # "absent" \/ shared'[k].age <= status'[k].age
    <3>1. /\ status[k].age + 1 < c.ttl
          /\ status[k].state # "absent" \/ shared[k].age <= status[k].age
      BY <1>1, <1>3, <2>1, Zenon DEF Vouched
    <3>2. status'[k].state = status[k].state /\ status'[k].age = status[k].age + 1
      <4>1. status[k].age < c.ttl
        BY <1>a, <3>1
      <4> QED BY <1>6, <4>1
    <3>3. shared[k].age <= status[k].age => shared'[k].age = shared[k].age + 1
      BY <1>a, <1>5, <3>1
    <3> QED BY <1>a, <3>1, <3>2, <3>3
  <2>2. \A q \in c.processes, k \in c.keys :
           \/ run'[q][k] = "none"
           \/ run'[q][k] = "fetch" /\ run[q][k] = "fetch"
    BY <1>3, Zenon
  <2> QED BY <2>1, <2>2 DEF Vouched
<1>9. ASSUME NEW b \in c.pages
      PROVE  Waiting(c, b)'
  <2>1. CASE page[b].pc = "posted"
    <3>1. /\ page'[b].pc = "posted" /\ page'[b].age = 1 /\ page'[b].idles = page[b].idles
          /\ page[b].idles = 0
      <4>1. page'[b] = [page[b] EXCEPT !.polled = FALSE, !.age = 1] /\ page[b].age = 0
        BY <1>3, <2>1, Zenon
      <4>2. page[b].idles = 0
        BY <1>1, <4>1 DEF Waiting
      <4> QED BY <1>2, <2>1, <4>1, <4>2 DEF PagesOf
    <3> QED BY <3>1 DEF Waiting
  <2>2. CASE page[b].pc # "posted"
    <3>1. page'[b] = page[b] /\ page[b].pc \notin {"posted", "poll", "peek"}
      BY <1>3, <2>2, Zenon
    <3> QED BY <1>1, <3>1 DEF Waiting
  <2> QED BY <2>1, <2>2
<1> QED BY <1>7, <1>8, <1>9

LEMMA LoadsRightStep ==
    ASSUME NEW c, Loads(c)!LaunchMetaAssumption, c.faults \subseteq {"fetch"}, LoadsRight(c),
           Loads(c)!Next
    PROVE  LoadsRight(c)'
<1>1. LoadsTyped(c)'
  BY LoadsTypeStep DEF LoadsRight
<1>2. /\ \A p \in c.processes, k \in c.keys : ~Loads(c)!Clear(p, k)
      /\ \A p \in c.processes : ~Loads(c)!Crash(p)
  BY Zenon DEF Loads!Clear, Loads!Crash, Loads!Fault
<1> QED BY <1>1, <1>2, WorkKeepsRight, PagesKeepRight, TickKeepsRight DEF Loads!Next, LoadsRight

\* What LoadsRight says of the two properties.
LEMMA LoadsRightSays ==
    ASSUME NEW c, Loads(c)!LaunchMetaAssumption, LoadsRight(c)
    PROVE  Loads(c)!NeverUnfinished /\ Loads(c)!WarmEverywhere
<1>1. Loads(c)!NeverUnfinished
  BY DEF LoadsRight, Waiting, Loads!NeverUnfinished, Loads!At
<1>2. /\ c.ttl \in Nat /\ Warm(c)
      /\ \A p \in c.processes, k \in c.keys : mem[p][k].age \in 0..c.ttl
      /\ \A k \in c.keys : shared[k].age \in 0..c.ttl
  BY DEF LoadsRight, LoadsTyped, Docs, Loads!LaunchMetaAssumption
<1>3. Loads(c)!WarmEverywhere
  BY <1>2 DEF Warm, Loads!WarmEverywhere, Loads!Fresh, Loads!Peek
<1> QED BY <1>1, <1>3

LEMMA OneLoadStep ==
    ASSUME NEW c, Loads(c)!LaunchMetaAssumption, c.faults \subseteq {"fetch", "share", "crash"},
           \A b, d \in c.pages : b = d, OneLoad(c), Loads(c)!Next
    PROVE  OneLoad(c)'
<1>1. /\ LoadsTyped(c) /\ OneAtATime(c) /\ LoadsTyped(c)'
      /\ \A b \in c.pages : page[b].age = 1 => page[b].pc \in {"posted", "poll", "peek"}
  BY LoadsTypeStep DEF OneLoad
<1>2. \A b \in c.pages : /\ page[b] \in PagesOf(c) /\ page[b].age \in {0, 1}
                         /\ page[b].key \in c.keys /\ page[b].proc \in c.processes
  BY <1>1 DEF LoadsTyped, PagesOf
<1>3. SUFFICES /\ OneAtATime(c)'
               /\ \A b \in c.pages : page'[b].age = 1 => page'[b].pc \in {"posted", "poll", "peek"}
  BY <1>1 DEF OneLoad
<1>4. ASSUME NEW p \in c.processes, NEW k \in c.keys, Loads(c)!Work(p, k)
      PROVE  /\ OneAtATime(c)' /\ page' = page
  <2>1. page' = page
    BY <1>4 DEF Loads!Work, Loads!MarkRunning, Loads!Fetch, Loads!Insert, Loads!Share,
       Loads!Report, Loads!Leave
  <2>2. PICK pc : /\ run' = [run EXCEPT ![p][k] = pc]
                  /\ \/ pc \in {"leave", "none"}
                     \/ /\ run[p][k] \in Refreshing /\ pc \in Refreshing \ {"mark"}
                        /\ run[p][k] # "mark"
                     \/ /\ run[p][k] = "mark" /\ pc = "fetch" /\ Loads(c)!Writes(k, "running")
    BY <1>4 DEF Loads!Work, Loads!MarkRunning, Loads!Fetch, Loads!Insert, Loads!Share,
       Loads!Report, Loads!Leave, Refreshing
  <2>3. \A q \in c.processes, l \in c.keys :
           run'[q][l] = IF q = p /\ l = k THEN pc ELSE run[q][l]
    BY <1>1, <2>2 DEF LoadsTyped
  <2>4. ASSUME NEW stored, Loads(c)!Writes(k, stored)
        PROVE  \A l \in c.keys :
                  status'[l] = IF l = k THEN [state |-> stored, age |-> 0] ELSE status[l]
    BY <1>1, <2>4, Zenon DEF LoadsTyped, Loads!Writes, Loads!Fault
  <2>5. \/ status' = status
        \/ /\ run[p][k] \in Refreshing /\ \A l \in c.keys : l # k => status'[l] = status[l]
           /\ \/ pc = "leave"
              \/ pc = "fetch" /\ status'[k].state = "running" /\ status'[k].age = 0
    <3>1. CASE Loads(c)!MarkRunning(p, k)
      <4>1. run[p][k] = "mark" /\ Loads(c)!Writes(k, "running") /\ run'[p][k] = "fetch"
        BY <1>1, <3>1 DEF Loads!MarkRunning, LoadsTyped
      <4>2. \A l \in c.keys :
               status'[l] = IF l = k THEN [state |-> "running", age |-> 0] ELSE status[l]
        BY <2>4, <4>1
      <4> QED BY <2>3, <4>1, <4>2 DEF Refreshing
    <3>2. CASE Loads(c)!Report(p, k)
      <4>1. run[p][k] \in Refreshing /\ run'[p][k] = "leave"
        BY <1>1, <3>2 DEF Loads!Report, LoadsTyped, Refreshing
      <4>2. \A l \in c.keys : l # k => status'[l] = status[l]
        BY <1>1, <3>2 DEF Loads!Report, Loads!Writes, LoadsTyped
      <4> QED BY <2>3, <4>1, <4>2
    <3> QED BY <1>4, <3>1, <3>2 DEF Loads!Work, Loads!Fetch, Loads!Insert, Loads!Share, Loads!Leave
  <2>6. c.ttl \in Nat \ {0}
    BY DEF Loads!LaunchMetaAssumption
  <2>7. OneAtATime(c)'
    <3>1. ASSUME NEW q \in c.processes, NEW l \in c.keys, run'[q][l] \in Refreshing
          PROVE  /\ run[q][l] \in Refreshing
                 /\ run'[q][l] = "mark" => run[q][l] = "mark"
                 /\ q = p /\ l = k => pc \in Refreshing /\ pc # "mark" /\ pc # "leave"
      BY <2>2, <2>3, <3>1 DEF Refreshing
    <3>2. ASSUME NEW q \in c.processes, NEW l \in c.keys, run'[q][l] \in Refreshing
          PROVE  \A r \in c.processes : run'[r][l] \in Refreshing => q = r
      BY <1>1, <3>1, <3>2 DEF OneAtATime
    <3>3. ASSUME NEW q \in c.processes, NEW l \in c.keys, run'[q][l] \in Refreshing \ {"mark"}
          PROVE  status'[l].state = "running" /\ status'[l].age < c.ttl
      <4>1. CASE run[q][l] = "mark"
        <5>1. q = p /\ l = k
          BY <2>3, <3>3, <4>1
        <5>2. pc = "fetch" /\ Loads(c)!Writes(k, "running")
          BY <2>2, <3>1, <3>3, <4>1, <5>1 DEF Refreshing
        <5>3. status'[l] = [state |-> "running", age |-> 0]
          BY <2>4, <5>1, <5>2
        <5> QED BY <2>6, <5>3
      <4>2. CASE run[q][l] # "mark"
        <5>1. status[l].state = "running" /\ status[l].age < c.ttl
          BY <1>1, <3>1, <3>3, <4>2 DEF OneAtATime
        <5>2. CASE status' = status
          BY <5>1, <5>2
        <5>3. CASE l # k
          BY <2>5, <5>1, <5>3
        <5>4. CASE status' # status /\ l = k
          <6>1. q = p
            BY <1>1, <2>5, <3>1, <3>3, <5>4 DEF OneAtATime
          <6>2. pc # "leave"
            BY <3>1, <3>3, <5>4, <6>1
          <6> QED BY <2>5, <2>6, <5>4, <6>2
        <5> QED BY <5>2, <5>3, <5>4
      <4> QED BY <4>1, <4>2
    <3> QED BY <1>1, <2>1, <3>1, <3>2, <3>3 DEF OneAtATime
  <2> QED BY <2>1, <2>7
<1>5. ASSUME NEW p \in c.processes, NEW k \in c.keys
      PROVE  ~Loads(c)!Clear(p, k)
  BY DEF Loads!Clear, Loads!Fault
<1>6. ASSUME NEW b \in c.pages, page[b].pc # "posted",
             /\ UNCHANGED <<run, status>>
             /\ page'[b].pc = "join" => Loads(c)!Read(page[b].key) # "running"
                                       /\ page'[b].key = page[b].key
      PROVE  OneAtATime(c)'
  \* Nobody marks its run while the page is not there to wait for it.
  <2>1. \A q \in c.processes, l \in c.keys : run[q][l] # "mark"
    BY <1>1, <1>6 DEF OneAtATime, Refreshing
  <2>2. page'[b].pc = "join" => \A q \in c.processes : run[q][page[b].key] \notin Refreshing
    BY <1>1, <1>2, <1>6, <2>1 DEF OneAtATime, Loads!Read, Loads!Fresh
  <2> QED BY <1>1, <1>6, <2>1, <2>2 DEF OneAtATime
<1>7. ASSUME NEW b \in c.pages, NEW pc, NEW m, Loads(c)!Ends(b, pc, m)
      PROVE  page'[b].pc = pc /\ page'[b].age = 0
  BY <1>1, <1>2, <1>7 DEF LoadsTyped, PagesOf, Loads!Ends
<1>8. ASSUME NEW b \in c.pages, NEW pc, Loads(c)!Go(b, pc)
      PROVE  page'[b].pc = pc /\ page'[b].age = page[b].age /\ page'[b].key = page[b].key
  BY <1>1, <1>2, <1>8 DEF LoadsTyped, PagesOf, Loads!Go
<1>9. ASSUME NEW b \in c.pages, Loads(c)!Asks(b)
      PROVE  OneAtATime(c)' /\ (page'[b].age = 1 => page'[b].pc \in {"posted", "poll", "peek"})
  <2>1. CASE Loads(c)!PostPeeks(b)
    <3>1. /\ page[b].pc = "cached" /\ UNCHANGED <<run, status>>
          /\ \/ Loads(c)!Ends(b, "ready", Loads(c)!Peek(page[b].proc, page[b].key).n)
             \/ Loads(c)!Go(b, "look")
      BY <2>1 DEF Loads!PostPeeks, Loads!At
    <3>2. page'[b].pc \in {"ready", "look"} /\ page'[b].age = 0
      BY <1>1, <1>2, <1>7, <1>8, <3>1
    <3> QED BY <1>6, <3>1, <3>2
  <2>2. CASE Loads(c)!PostLooks(b)
    <3>1. /\ page[b].pc = "look" /\ UNCHANGED <<run, status>>
          /\ \/ Loads(c)!Read(page[b].key) = "running" /\ Loads(c)!Go(b, "posted")
             \/ Loads(c)!Read(page[b].key) # "running" /\ Loads(c)!Go(b, "join")
      BY <2>2 DEF Loads!PostLooks, Loads!At
    <3>2. /\ page'[b].age = 0 /\ page'[b].key = page[b].key
          /\ page'[b].pc = "join" => Loads(c)!Read(page[b].key) # "running"
      BY <1>1, <1>2, <1>8, <3>1
    <3> QED BY <1>6, <3>1, <3>2
  <2>3. CASE Loads(c)!PostJoins(b)
    <3>1. /\ page[b].pc = "join" /\ page[b].age = 0 /\ UNCHANGED status
          /\ page'[b].pc = "posted" /\ page'[b].age = 0 /\ page'[b].key = page[b].key
      BY <1>1, <1>2, <1>8, <2>3 DEF Loads!PostJoins, Loads!At
    <3>2. /\ \A q \in c.processes, l \in c.keys : run[q][l] # "mark"
          /\ \A q \in c.processes : run[q][page[b].key] \notin Refreshing
      BY <1>1, <1>2, <3>1 DEF OneAtATime, Refreshing
    <3>3. \A q \in c.processes, l \in c.keys :
             \/ run'[q][l] = run[q][l]
             \/ q = page[b].proc /\ l = page[b].key /\ run'[q][l] = "mark"
      BY <1>1, <1>2, <2>3 DEF LoadsTyped, Loads!PostJoins
    <3>4. ASSUME NEW q \in c.processes, NEW l \in c.keys, run'[q][l] \in Refreshing
          PROVE  \/ /\ l = page[b].key /\ q = page[b].proc /\ run'[q][l] = "mark"
                    /\ \A r \in c.processes : run'[r][l] \in Refreshing => q = r
                 \/ /\ l # page[b].key /\ run'[q][l] = run[q][l] /\ run[q][l] # "mark"
                    /\ \A r \in c.processes : run'[r][l] = run[r][l]
      BY <3>2, <3>3, <3>4
    <3>5. \A d \in c.pages : page'[d].pc = "posted" /\ page'[d].age = 0
      BY <3>1
    <3> QED BY <1>1, <3>1, <3>4, <3>5 DEF OneAtATime
  <2>4. CASE Loads(c)!PollReads(b)
    <3>1. /\ page[b].pc = "poll" /\ UNCHANGED <<run, status>>
          /\ \/ Loads(c)!Ends(b, "error", 0)
             \/ page' = [page EXCEPT ![b].st = Loads(c)!Read(page[b].key), ![b].pc = "peek"]
      BY <2>4 DEF Loads!PollReads, Loads!At
    <3>2. page'[b].pc \in {"error", "peek"} /\ (page'[b].pc = "error" => page'[b].age = 0)
      <4>1. CASE Loads(c)!Ends(b, "error", 0)
        BY <1>7, <4>1
      <4>2. CASE page' = [page EXCEPT ![b].st = Loads(c)!Read(page[b].key), ![b].pc = "peek"]
        BY <1>1, <1>2, <4>2 DEF LoadsTyped, PagesOf
      <4> QED BY <3>1, <4>1, <4>2
    <3> QED BY <1>6, <3>1, <3>2
  <2>5. CASE Loads(c)!PollPeeks(b)
    <3>1. page[b].pc = "peek" /\ UNCHANGED <<run, status>>
      BY <2>5 DEF Loads!PollPeeks, Loads!At
    <3>2. \/ Loads(c)!Ends(b, "ready", Loads(c)!Peek(page[b].proc, page[b].key).n)
          \/ Loads(c)!Ends(b, "unfinished", 0)
          \/ page' = [page EXCEPT ![b].pc = "posted", ![b].idles = 0, ![b].st = "absent"]
          \/ page' = [page EXCEPT ![b].pc = "posted", ![b].idles = @ + 1]
      BY <2>5 DEF Loads!PollPeeks
    <3>3. \/ page'[b].pc \in {"ready", "unfinished"} /\ page'[b].age = 0
          \/ page'[b].pc = "posted"
      <4>1. CASE \/ page' = [page EXCEPT ![b].pc = "posted", ![b].idles = 0, ![b].st = "absent"]
                 \/ page' = [page EXCEPT ![b].pc = "posted", ![b].idles = @ + 1]
        BY <1>1, <1>2, <4>1 DEF LoadsTyped, PagesOf
      <4> QED BY <1>7, <3>2, <4>1
    <3> QED BY <1>6, <3>1, <3>3
  <2>6. CASE Loads(c)!GiveUp(b)
    <3>1. /\ page[b].pc = "posted" /\ page[b].age = 1 /\ UNCHANGED <<run, status>>
          /\ page'[b].pc = "error" /\ page'[b].age = 0
      BY <1>7, <2>6 DEF Loads!GiveUp, Loads!At
    <3>2. \A q \in c.processes, l \in c.keys : run[q][l] # "mark"
      BY <1>1, <3>1 DEF OneAtATime, Refreshing
    <3> QED BY <1>1, <3>1, <3>2 DEF OneAtATime
  <2>7. ASSUME NEW p \in c.processes, Loads(c)!Poll(b, p)
        PROVE  OneAtATime(c)' /\ page'[b].pc = "poll"
    <3>1. /\ page[b].pc = "posted" /\ UNCHANGED <<run, status>>
          /\ \A q \in c.processes : run[q][page[b].key] # "mark"
          /\ page' = [page EXCEPT ![b].pc = "poll", ![b].proc = p, ![b].polled = TRUE]
      BY <2>7 DEF Loads!Poll, Loads!At
    <3>2. page'[b].pc = "poll"
      BY <1>1, <1>2, <3>1 DEF LoadsTyped, PagesOf
    <3>3. \A q \in c.processes, l \in c.keys : run[q][l] # "mark"
      BY <1>1, <3>1 DEF OneAtATime, Refreshing
    <3>4. \A d \in c.pages : page'[d].pc # "join"
      BY <3>2
    <3>5. OneAtATime(c)'
      <4>1. run' = run /\ status' = status
        BY <3>1
      <4>2. ASSUME NEW q \in c.processes, NEW l \in c.keys, run'[q][l] \in Refreshing
            PROVE  /\ \A r \in c.processes : run'[r][l] \in Refreshing => q = r
                   /\ status'[l].state = "running" /\ status'[l].age < c.ttl
                   /\ run'[q][l] # "mark"
        BY <1>1, <3>3, <4>1, <4>2 DEF OneAtATime
      <4> QED BY <3>4, <4>2 DEF OneAtATime
    <3> QED BY <3>2, <3>5
  <2> QED BY <1>9, <2>1, <2>2, <2>3, <2>4, <2>5, <2>6, <2>7 DEF Loads!Asks
<1>10. ASSUME NEW b \in c.pages, NEW p \in c.processes, NEW k \in c.keys, NEW f \in c.forced,
              Loads(c)!Click(b, p, k, f)
       PROVE  OneAtATime(c)' /\ page'[b].age = 0
  <2>1. PICK pc \in {"look", "cached"} :
           page' = [page EXCEPT ![b] = [@ EXCEPT !.pc = pc, !.key = k, !.proc = p, !.force = f,
                      !.since = done, !.st = "absent", !.idles = 0, !.polled = FALSE,
                      !.age = 0, !.got = 0]]
    BY <1>10, Zenon DEF Loads!Click
  <2>2. page'[b].pc = pc /\ page'[b].age = 0
    BY <1>1, <1>2, <2>1, Zenon DEF LoadsTyped, PagesOf
  <2>3. page[b].pc # "posted" /\ UNCHANGED <<run, status>>
    BY <1>10 DEF Loads!Click
  <2> QED BY <1>6, <2>2, <2>3
<1>11. ASSUME NEW p \in c.processes, Loads(c)!Crash(p)
       PROVE  /\ OneAtATime(c)'
              /\ \A b \in c.pages : page'[b].age = 1 => page'[b].pc \in {"posted", "poll", "peek"}
  <2>1. \A q \in c.processes, l \in c.keys : run'[q][l] \in {run[q][l], "none"}
    BY <1>1, <1>11, Zenon DEF LoadsTyped, Loads!Crash
  <2>2. \A b \in c.pages : \/ page'[b] = page[b]
                           \/ /\ page[b].pc # "posted" /\ page'[b].pc = "error"
                              /\ page'[b].age = 0
    <3>1. ASSUME NEW b \in c.pages
          PROVE  \/ page'[b] = page[b]
                 \/ /\ page[b].pc \in {"cached", "look", "join", "poll", "peek"}
                    /\ page'[b] = [page[b] EXCEPT !.pc = "error", !.polled = TRUE, !.age = 0]
      BY <1>11, Zenon DEF Loads!Crash
    <3> QED BY <1>2, <3>1, Zenon DEF PagesOf
  <2>3. UNCHANGED status
    BY <1>11, Zenon DEF Loads!Crash
  <2>4. OneAtATime(c)'
    <3>1. ASSUME NEW q \in c.processes, NEW l \in c.keys, run'[q][l] \in Refreshing
          PROVE  run[q][l] \in Refreshing /\ run'[q][l] = run[q][l]
      BY <2>1, <3>1 DEF Refreshing
    <3> QED BY <1>1, <2>2, <2>3, <3>1 DEF OneAtATime
  <2> QED BY <1>1, <2>2, <2>4
<1>12. ASSUME Loads(c)!Tick
       PROVE  /\ OneAtATime(c)'
              /\ \A b \in c.pages : page'[b].age = 1 => page'[b].pc \in {"posted", "poll", "peek"}
  <2>1. /\ UNCHANGED run
        /\ \A q \in c.processes, l \in c.keys :
              /\ run[q][l] \in {"none", "fetch"}
              /\ run[q][l] = "fetch" => status[l].age + 1 < c.ttl
    BY <1>12, Zenon DEF Loads!Tick
  <2>2. \A b \in c.pages : \/ page'[b] = page[b] /\ page[b].pc # "join"
                           \/ page'[b].pc = "posted"
    <3>1. ASSUME NEW b \in c.pages
          PROVE  \/ page'[b] = page[b] /\ page[b].pc # "join"
                 \/ /\ page[b].pc = "posted"
                    /\ page'[b] = [page[b] EXCEPT !.polled = FALSE, !.age = 1]
      BY <1>12, Zenon DEF Loads!Tick, Loads!At
    <3> QED BY <1>2, <3>1, Zenon DEF PagesOf
  <2>3. c.ttl \in Nat /\ \A l \in c.keys : status[l] \in [state: StoredStates, age: 0..c.ttl]
    BY <1>1 DEF Loads!LaunchMetaAssumption, LoadsTyped
  <2>4. \A l \in c.keys : status[l].age \in Nat
    BY <2>3
  <2>5. ASSUME NEW l \in c.keys, status[l].age + 1 < c.ttl
        PROVE  status'[l].state = status[l].state /\ status'[l].age < c.ttl
    <3>1. status'[l] = Loads(c)!Older(status[l])
      BY <1>12, Zenon DEF Loads!Tick
    <3>2. status'[l].state = status[l].state /\ status'[l].age = status[l].age + 1
      BY <2>3, <2>4, <2>5, <3>1 DEF Loads!Older
    <3> QED BY <2>5, <3>2
  <2>6. OneAtATime(c)'
    <3>1. ASSUME NEW q \in c.processes, NEW l \in c.keys, run'[q][l] \in Refreshing
          PROVE  run[q][l] = "fetch" /\ run'[q][l] = "fetch"
      BY <2>1, <3>1 DEF Refreshing
    <3>2. ASSUME NEW q \in c.processes, NEW l \in c.keys, run'[q][l] \in Refreshing
          PROVE  status'[l].state = "running" /\ status'[l].age < c.ttl
      <4>1. status[l].state = "running"
        BY <1>1, <3>1, <3>2 DEF OneAtATime, Refreshing
      <4> QED BY <2>1, <2>5, <3>1, <3>2, <4>1
    <3> QED BY <1>1, <2>1, <2>2, <3>1, <3>2 DEF OneAtATime
  <2> QED BY <1>1, <2>2, <2>6
<1> QED BY <1>1, <1>4, <1>5, <1>9, <1>10, <1>11, <1>12 DEF Loads!Next

LEMMA OneLoadSays ==
    ASSUME NEW c, Loads(c)!LaunchMetaAssumption, OneLoad(c)
    PROVE  Loads(c)!OneRefresh
<1> SUFFICES ASSUME NEW k \in c.keys
             PROVE  Loads(c)!Cardinality({p \in c.processes :
                       run[p][k] \in {"fetch", "evict", "share"}}) <= 1
  BY DEF Loads!OneRefresh
<1> DEFINE R == {p \in c.processes : run[p][k] \in {"fetch", "evict", "share"}}
<1>1. \A p, q \in R : p = q
  BY DEF OneLoad, OneAtATime, Refreshing
<1>2. Cardinality(R) <= 1
  <2>1. CASE R = {}
    BY <2>1, FS_EmptySet
  <2>2. CASE R # {}
    <3>1. PICK p \in R : TRUE
      BY <2>2
    <3>2. R = {p}
      BY <1>1, <3>1
    <3>3. Cardinality({p}) = 1
      BY FS_Singleton
    <3> HIDE DEF R
    <3> QED BY <3>2, <3>3
  <2> QED BY <2>1, <2>2
<1>3. Loads(c)!Cardinality(R) = Cardinality(R)
  BY DEF Loads!Cardinality, Cardinality
<1> QED BY <1>2, <1>3

MetadataHolds ==
    /\ part = "pages" => LoadsRight(SeveralPages)
    /\ part = "page" => OneLoad(OnePage)

\* What the launch view shows of the metadata is right in every behaviour: no load is called
\* unfinished that runs or has ended well, what one process has read the other finds
\* (launch_meta_state, peek_launch_meta), and a second click starts no second refresh
\* (start_meta_refresh).
THEOREM MetadataIsRight == PartSpec => []MetadataRight
<1>1. PartInit => MetadataHolds
  BY InitLoads, PartsAssumption, Zenon DEF PartInit, MetadataHolds
<1>2. ASSUME MetadataHolds, [PartNext]_all
      PROVE  MetadataHolds'
  <2>1. CASE PartNext
    <3>1. part = "pages" => LoadsRight(SeveralPages)'
      BY <1>2, <2>1, StepsOfParts, LoadsRightStep, PartsAssumption, MetadataParts
         DEF MetadataHolds
    <3>2. part = "page" => OneLoad(OnePage)'
      BY <1>2, <2>1, StepsOfParts, OneLoadStep, PartsAssumption, MetadataParts
         DEF MetadataHolds
    <3> QED BY <2>1, <3>1, <3>2, StepsOfParts, Zenon DEF MetadataHolds
  <2>2. CASE UNCHANGED all
    <3>1. UNCHANGED part /\ UNCHANGED metadata
      BY <2>2 DEF all
    <3>2. LoadsRight(SeveralPages)' = LoadsRight(SeveralPages) /\ OneLoad(OnePage)' = OneLoad(OnePage)
      BY <3>1 DEF metadata, LoadsRight, OneLoad, LoadsTyped, Warm, Vouched, Waiting, Answered,
         OneAtATime
    <3> QED BY <1>2, <3>1, <3>2 DEF MetadataHolds
  <2> QED BY <1>2, <2>1, <2>2
<1>3. MetadataHolds => MetadataRight
  BY LoadsRightSays, OneLoadSays, PartsAssumption DEF MetadataHolds, MetadataRight
<1> QED BY <1>1, <1>2, <1>3, PTL DEF PartSpec

------------------------------------------------------------------------------
(* The allowance *)

LEMMA TenantStays ==
    ASSUME NEW c, Allowance(c)!Next
    PROVE  t' = t
BY Zenon DEF Allowance!Next, Allowance!Ask, Allowance!Region, Allowance!Look, Allowance!Launch,
   Allowance!Resize, Allowance!Grow, Allowance!Create, Allowance!Fails, Allowance!Terminate,
   Allowance!DeleteVolume

\* A tenant that may pay is refused nothing, one that may not is refused what was not read.
LEMMA LossJudged ==
    ASSUME NEW c, Allowance(c)!FreeQuotaAssumption, t \in Settings,
           \A o \in c.ops : o.kind \in {"launch", "resize", "grow", "create"}
    PROVE  Allowance(c)!LossIsStricter
<1> SUFFICES ASSUME NEW o \in c.ops, NEW lost \in SUBSET Allowance(c)!Parts,
                    NEW size \in Allowance(c)!Present(o),
                    Allowance(c)!Enforce(o, size, Allowance(c)!Usage(lost))
             PROVE  Allowance(c)!Enforce(o, size, Allowance(c)!Usage({}))
  BY DEF Allowance!LossIsStricter, Allowance!All
<1>1. CASE lost = {}
  BY <1>1
<1>2. CASE lost # {}
  <2>1. Allowance(c)!Usage(lost).incomplete /\ ~Allowance(c)!Usage({}).incomplete
    BY <1>2, Zenon DEF Allowance!Usage
  <2>2. ~Allowance(c)!Hard
    BY <2>1 DEF Allowance!Enforce, Allowance!BlockedByIncomplete
  <2>3. ~t.freeOnly
    BY <2>2, Zenon DEF Allowance!Hard
  <2>4. \A n : Allowance(c)!LaunchOk(o, n, Allowance(c)!Usage({}))
    BY <2>2, <2>3 DEF Allowance!LaunchOk
  <2>5. Allowance(c)!ResizeOk(o, size, Allowance(c)!Usage({}))
    BY <2>2, <2>3 DEF Allowance!ResizeOk
  <2>6. Allowance(c)!GrowOk(o, size, Allowance(c)!Usage({}))
    BY <2>2 DEF Allowance!GrowOk
  <2>7. ~Allowance(c)!BlockedByIncomplete(Allowance(c)!Usage({}))
    BY <2>1 DEF Allowance!BlockedByIncomplete
  <2> QED BY <2>4, <2>5, <2>6, <2>7, Zenon DEF Allowance!Enforce
<1> QED BY <1>1, <1>2

LEMMA VerdictsJudged ==
    ASSUME NEW c, Allowance(c)!FreeQuotaAssumption, t \in Settings
    PROVE  Allowance(c)!VerdictsAgree
<1> SUFFICES ASSUME NEW o \in c.ops, o.kind = "launch", o.fallbacks = {},
                    NEW k \in c.regionReads, NEW lost \in SUBSET Allowance(c)!Parts
             PROVE  /\ Allowance(c)!Preflight(o, k, lost) = Allowance(c)!Answer(o, k, lost)
                    /\ Allowance(c)!Attempts(o, k, lost) = Allowance(c)!Answer(o, k, lost)
  BY DEF Allowance!VerdictsAgree
<1> DEFINE u == Allowance(c)!Usage(lost)
           ok == Allowance(c)!LaunchOk(o, o.size, u)
<1>1. /\ k \in BOOLEAN /\ t.freeOnly \in BOOLEAN /\ t.home \in BOOLEAN /\ t.child \in BOOLEAN
      /\ u.incomplete \in BOOLEAN
  BY Zenon DEF Allowance!FreeQuotaAssumption, Allowance!Usage
<1>2. ok \in BOOLEAN
  BY DEF Allowance!LaunchOk
<1>3. CASE Allowance(c)!Secondary(k)
  <2>1. /\ Allowance(c)!Gate(k, t.child) = IF t.freeOnly THEN "refuse" ELSE "bill"
        /\ Allowance(c)!Gate(k, TRUE) = IF t.freeOnly THEN "refuse" ELSE "bill"
    BY <1>1, <1>3 DEF Allowance!Gate, Allowance!Secondary
  <2> QED BY <1>1, <1>3, <2>1, Zenon DEF Allowance!Preflight, Allowance!Attempts, Allowance!Answer
<1>4. CASE ~Allowance(c)!Secondary(k)
  <2>1. Allowance(c)!Gate(k, t.child) = "judge"
    BY <1>1, <1>4 DEF Allowance!Gate, Allowance!Secondary
  <2>2. Allowance(c)!Answer(o, k, lost) = Allowance(c)!Enforce(o, 0, u)
    BY <2>1 DEF Allowance!Answer
  <2>3. Allowance(c)!Enforce(o, 0, u) = (ok /\ ~(u.incomplete /\ Allowance(c)!Hard))
    BY Zenon DEF Allowance!Enforce, Allowance!BlockedByIncomplete
  <2>4. Allowance(c)!Preflight(o, k, lost) = (ok /\ ~(u.incomplete /\ Allowance(c)!Hard))
    BY <1>4 DEF Allowance!Preflight
  <2>5. Allowance(c)!Attempts(o, k, lost) = (ok /\ ~(u.incomplete /\ Allowance(c)!Hard))
    BY <1>4, Zenon DEF Allowance!Attempts
  <2> QED BY <2>2, <2>3, <2>4, <2>5
<1> QED BY <1>3, <1>4

\* In whatever usage, a read that lost a part lets nothing through that the whole refuses
\* (_blocked_by_incomplete), and the dry run, the launch and the worker's attempt come to one
\* verdict, whatever could be read of the region (quota_guard.py).
THEOREM VerdictsDoAgree == PartSpec => []VerdictsAgree
<1> DEFINE Known == part = "verdicts" => t \in Settings
<1>1. PartInit => Known
  BY DEF PartInit, Allowance!Init
<1>2. ASSUME Known, [PartNext]_all
      PROVE  Known'
  <2>1. CASE PartNext
    BY <1>2, <2>1, StepsOfParts, TenantStays, Zenon
  <2>2. CASE UNCHANGED all
    BY <1>2, <2>2 DEF all, quota
  <2> QED BY <1>2, <2>1, <2>2
<1>3. Known => VerdictsAgree
  BY LossJudged, VerdictsJudged, PartsAssumption, QuotaParts DEF VerdictsAgree
<1> QED BY <1>1, <1>2, <1>3, PTL DEF PartSpec

\* What is asked for has a size, and a launch a shape and a boot volume.
OpsFit(c) ==
    \A o \in c.ops : /\ o.size \in Nat
                     /\ o.kind = "launch" => o.boot \in Nat /\ o.shape \in {"a1", "e2", "other"}

\* A request that goes on for a tenant that only wants what is free has passed the gate
\* of the region, and a launch that is made has passed the check of its shape.
Held(c) ==
    /\ t \in Settings
    /\ vm \in [c.slots -> {None} \cup [shape: {"a1", "e2", "other"}, size: Nat]]
    /\ disk \in [c.slots \cup c.blocks -> Nat]
    /\ at \in [c.requests -> {"idle", "gate", "look", "act"}]
    /\ op \in [c.requests -> c.ops \cup {None}]
    /\ known \in [c.requests -> {TRUE, FALSE}]
    /\ \A r \in c.requests : at[r] # "idle" => op[r] \in c.ops
    /\ \A r \in c.requests : at[r] \in {"look", "act"} /\ t.freeOnly /\ ~t.home =>
          ~known[r] /\ ~t.child
    /\ \A r \in c.requests : at[r] = "act" /\ t.freeOnly /\ op[r].kind = "launch" =>
          Allowance(c)!Free(op[r].shape)

LEMMA HeldInit ==
    ASSUME NEW c, Allowance(c)!Init
    PROVE  Held(c)
<1>1. PICK n \in 0..1, s \in {"a1", "e2"} :
         vm = [i \in c.slots |-> IF i <= n THEN [shape |-> s, size |-> IF s = "a1" THEN 1 ELSE 0]
                                 ELSE None]
  BY Zenon DEF Allowance!Init
<1>2. vm \in [c.slots -> {None} \cup [shape: {"a1", "e2", "other"}, size: Nat]]
  BY <1>1
<1>3. /\ t \in Settings
      /\ disk \in [c.slots \cup c.blocks -> Nat]
      /\ at = [r \in c.requests |-> "idle"] /\ op = [r \in c.requests |-> None]
      /\ known = [r \in c.requests |-> FALSE]
  BY Zenon DEF Allowance!Init
<1> QED BY <1>2, <1>3 DEF Held

\* A request ends, and the others do not.
LEMMA QuotaEnds ==
    ASSUME NEW c, Held(c), NEW r \in c.requests, Allowance(c)!End(r)
    PROVE  /\ at' \in [c.requests -> {"idle", "gate", "look", "act"}]
           /\ op' \in [c.requests -> c.ops \cup {None}]
           /\ known' \in [c.requests -> {TRUE, FALSE}]
           /\ at'[r] = "idle"
           /\ \A q \in c.requests \ {r} : at'[q] = at[q] /\ op'[q] = op[q] /\ known'[q] = known[q]
BY Zenon DEF Held, Allowance!End

\* What holds if one request has moved and the tenant is the same.
LEMMA HeldMoves ==
    ASSUME NEW c, Held(c), NEW r \in c.requests, t' = t,
           vm' \in [c.slots -> {None} \cup [shape: {"a1", "e2", "other"}, size: Nat]],
           disk' \in [c.slots \cup c.blocks -> Nat],
           at' \in [c.requests -> {"idle", "gate", "look", "act"}],
           op' \in [c.requests -> c.ops \cup {None}],
           known' \in [c.requests -> {TRUE, FALSE}],
           \A q \in c.requests \ {r} : at'[q] = at[q] /\ op'[q] = op[q] /\ known'[q] = known[q],
           at'[r] # "idle" => op'[r] \in c.ops,
           at'[r] \in {"look", "act"} /\ t.freeOnly /\ ~t.home => ~known'[r] /\ ~t.child,
           at'[r] = "act" /\ t.freeOnly /\ op'[r].kind = "launch" =>
              Allowance(c)!Free(op'[r].shape)
    PROVE  Held(c)'
BY Zenon DEF Held, Allowance!Free

LEMMA HeldNext ==
    ASSUME NEW c, OpsFit(c), Allowance(c)!FreeQuotaAssumption, Held(c), Allowance(c)!Next
    PROVE  Held(c)'
<1>0. /\ t.freeOnly \in {TRUE, FALSE} /\ t.home \in {TRUE, FALSE} /\ t.child \in {TRUE, FALSE}
      /\ c.regionReads \subseteq {TRUE, FALSE} /\ c.slots \cup c.blocks \subseteq Nat
  BY Zenon DEF Held, Allowance!FreeQuotaAssumption
<1>1. ASSUME NEW r \in c.requests, NEW o \in c.ops, Allowance(c)!Ask(r, o)
      PROVE  Held(c)'
  <2>1. /\ t' = t /\ vm' = vm /\ disk' = disk /\ known' = known
        /\ op' = [op EXCEPT ![r] = o] /\ at' = [at EXCEPT ![r] = "gate"]
    BY <1>1 DEF Allowance!Ask
  <2>2. /\ at' \in [c.requests -> {"idle", "gate", "look", "act"}] /\ at'[r] = "gate"
        /\ op' \in [c.requests -> c.ops \cup {None}] /\ op'[r] = o
        /\ \A q \in c.requests \ {r} : at'[q] = at[q] /\ op'[q] = op[q]
    BY <2>1 DEF Held
  <2>3. /\ vm' \in [c.slots -> {None} \cup [shape: {"a1", "e2", "other"}, size: Nat]]
        /\ disk' \in [c.slots \cup c.blocks -> Nat] /\ known' \in [c.requests -> {TRUE, FALSE}]
    BY <2>1, Zenon DEF Held
  <2> QED BY <2>1, <2>2, <2>3, HeldMoves, Zenon
<1>2. ASSUME NEW r \in c.requests, Allowance(c)!Region(r)
      PROVE  Held(c)'
  <2>1. /\ t' = t /\ vm' = vm /\ disk' = disk /\ at[r] = "gate"
    BY <1>2 DEF Allowance!Region
  <2>2. CASE Allowance(c)!End(r)
    BY <2>1, <2>2, QuotaEnds, HeldMoves, Zenon DEF Held
  <2>3. CASE ~Allowance(c)!End(r)
    <3>1. PICK k \in c.regionReads :
             /\ Allowance(c)!Gate(k, t.child) # "refuse" /\ known' = [known EXCEPT ![r] = k]
             /\ at' = [at EXCEPT ![r] = IF Allowance(c)!Gate(k, t.child) = "bill"
                                        THEN "act" ELSE "look"]
             /\ op' = op
      BY <1>2, <2>3 DEF Allowance!Region
    <3>2. t.freeOnly => /\ Allowance(c)!Gate(k, t.child) = "judge"
                        /\ ~t.home => ~k /\ ~t.child
      BY <1>0, <3>1 DEF Allowance!Gate
    <3>3. k \in {TRUE, FALSE}
      BY <1>0, Zenon
    <3>4. /\ at' \in [c.requests -> {"idle", "gate", "look", "act"}]
          /\ known' \in [c.requests -> {TRUE, FALSE}] /\ known'[r] = k
          /\ at'[r] \in {"look", "act"} /\ (t.freeOnly => at'[r] = "look")
          /\ \A q \in c.requests \ {r} : at'[q] = at[q] /\ op'[q] = op[q] /\ known'[q] = known[q]
      BY <3>1, <3>2, <3>3, Zenon DEF Held
    <3>5. op[r] \in c.ops
      BY <2>1 DEF Held
    <3>6. /\ vm' \in [c.slots -> {None} \cup [shape: {"a1", "e2", "other"}, size: Nat]]
          /\ disk' \in [c.slots \cup c.blocks -> Nat] /\ op' \in [c.requests -> c.ops \cup {None}]
      BY <2>1, <3>1 DEF Held
    <3> QED BY <2>1, <3>1, <3>2, <3>4, <3>5, <3>6, HeldMoves, Zenon
  <2> QED BY <2>2, <2>3
<1>3. ASSUME NEW r \in c.requests, Allowance(c)!Look(r)
      PROVE  Held(c)'
  <2>1. /\ t' = t /\ vm' = vm /\ disk' = disk /\ at[r] = "look"
    BY <1>3 DEF Allowance!Look
  <2>2. CASE Allowance(c)!End(r)
    BY <2>1, <2>2, QuotaEnds, HeldMoves, Zenon DEF Held
  <2>3. CASE ~Allowance(c)!End(r)
    <3>1. PICK lost \in SUBSET Allowance(c)!Parts :
             /\ Allowance(c)!Enforce(op[r], cur[r], Allowance(c)!Usage(lost))
             /\ at' = [at EXCEPT ![r] = "act"] /\ op' = op /\ known' = known
      BY <1>3, <2>3 DEF Allowance!Look
    <3>2. t.freeOnly /\ op[r].kind = "launch" => Allowance(c)!Free(op[r].shape)
      BY <3>1 DEF Allowance!Enforce, Allowance!LaunchOk
    <3>3. /\ at' \in [c.requests -> {"idle", "gate", "look", "act"}] /\ at'[r] = "act"
          /\ \A q \in c.requests \ {r} : at'[q] = at[q]
          /\ op[r] \in c.ops
          /\ t.freeOnly /\ ~t.home => ~known[r] /\ ~t.child
      BY <2>1, <3>1 DEF Held
    <3>4. /\ vm' \in [c.slots -> {None} \cup [shape: {"a1", "e2", "other"}, size: Nat]]
          /\ disk' \in [c.slots \cup c.blocks -> Nat] /\ op' \in [c.requests -> c.ops \cup {None}]
          /\ known' \in [c.requests -> {TRUE, FALSE}]
      BY <2>1, <3>1, Zenon DEF Held
    <3> QED BY <2>1, <3>1, <3>2, <3>3, <3>4, HeldMoves, Zenon
  <2> QED BY <2>2, <2>3
\* A machine or a volume is made or changed, or the attempt fails.
<1>4. ASSUME NEW r \in c.requests, t' = t,
             vm' \in [c.slots -> {None} \cup [shape: {"a1", "e2", "other"}, size: Nat]],
             disk' \in [c.slots \cup c.blocks -> Nat],
             Allowance(c)!End(r) \/ UNCHANGED <<at, op, known>>
      PROVE  Held(c)'
  <2>1. CASE Allowance(c)!End(r)
    BY <1>4, <2>1, QuotaEnds, HeldMoves, Zenon
  <2>2. CASE UNCHANGED <<at, op, known>>
    BY <1>4, <2>2, Zenon DEF Held, Allowance!Free
  <2> QED BY <1>4, <2>1, <2>2
<1>5. ASSUME NEW r \in c.requests, Allowance(c)!Launch(r)
      PROVE  Held(c)'
  <2> DEFINE i == Allowance(c)!Min(Allowance(c)!Unused)
             v == [shape |-> op[r].shape, size |-> op[r].size]
  <2>1. op[r] \in c.ops /\ op[r].kind = "launch"
    BY <1>5 DEF Held, Allowance!Launch
  <2>2. v \in [shape: {"a1", "e2", "other"}, size: Nat] /\ op[r].boot \in Nat
    BY <2>1 DEF OpsFit
  <2>3. /\ t' = t /\ vm' = [vm EXCEPT ![i] = v] /\ disk' = [disk EXCEPT ![i] = op[r].boot]
        /\ Allowance(c)!End(r) \/ UNCHANGED <<at, op, known>>
    BY <1>5 DEF Allowance!Launch, Allowance!One
  <2> HIDE DEF i, v
  <2>4. /\ vm' \in [c.slots -> {None} \cup [shape: {"a1", "e2", "other"}, size: Nat]]
        /\ disk' \in [c.slots \cup c.blocks -> Nat]
    BY <2>2, <2>3, Zenon DEF Held
  <2> QED BY <1>4, <2>3, <2>4
<1>6. ASSUME NEW r \in c.requests, Allowance(c)!Resize(r)
      PROVE  Held(c)'
  <2>1. /\ t' = t /\ disk' = disk /\ vm[op[r].on] # None
        /\ vm' = [vm EXCEPT ![op[r].on] = [vm[op[r].on] EXCEPT !.size = op[r].size]]
        /\ Allowance(c)!End(r)
    BY <1>6 DEF Allowance!Resize, Held
  <2>2. op[r].size \in Nat
    BY <1>6 DEF Allowance!Resize, Held, OpsFit
  <2>3. vm' \in [c.slots -> {None} \cup [shape: {"a1", "e2", "other"}, size: Nat]]
    BY <2>1, <2>2, Zenon DEF Held
  <2>4. disk' \in [c.slots \cup c.blocks -> Nat]
    BY <2>1 DEF Held
  <2> QED BY <1>4, <2>1, <2>3, <2>4
<1>7. ASSUME NEW r \in c.requests,
             Allowance(c)!Grow(r) \/ Allowance(c)!Create(r) \/ Allowance(c)!Fails(r)
      PROVE  Held(c)'
  <2>1. op[r].size \in Nat
    BY <1>7 DEF Allowance!Grow, Allowance!Create, Allowance!Fails, Held, OpsFit
  <2>2. /\ t' = t /\ vm' = vm /\ Allowance(c)!End(r)
        /\ disk' = disk \/ \E j : disk' = [disk EXCEPT ![j] = op[r].size]
    BY <1>7 DEF Allowance!Grow, Allowance!Create, Allowance!Fails
  <2>3. disk' \in [c.slots \cup c.blocks -> Nat]
    BY <2>1, <2>2 DEF Held
  <2>4. vm' \in [c.slots -> {None} \cup [shape: {"a1", "e2", "other"}, size: Nat]]
    BY <2>2 DEF Held
  <2> QED BY <1>4, <2>2, <2>3, <2>4
<1>8. ASSUME NEW i \in c.slots, NEW keep \in BOOLEAN, Allowance(c)!Terminate(i, keep)
      PROVE  Held(c)'
  <2>1. /\ UNCHANGED <<t, at, op, known>> /\ vm' = [vm EXCEPT ![i] = None]
        /\ disk' = [disk EXCEPT ![i] = IF keep THEN disk[i] ELSE 0]
    BY <1>8 DEF Allowance!Terminate, Held
  <2>2. /\ vm' \in [c.slots -> {None} \cup [shape: {"a1", "e2", "other"}, size: Nat]]
        /\ disk' \in [c.slots \cup c.blocks -> Nat]
    BY <2>1 DEF Held
  <2> QED BY <2>1, <2>2, Zenon DEF Held, Allowance!Free
<1>9. ASSUME NEW v \in c.slots \cup c.blocks, Allowance(c)!DeleteVolume(v)
      PROVE  Held(c)'
  <2>1. UNCHANGED <<t, vm, at, op, known>> /\ disk' = [disk EXCEPT ![v] = 0]
    BY <1>9 DEF Allowance!DeleteVolume
  <2>2. disk' \in [c.slots \cup c.blocks -> Nat]
    BY <2>1 DEF Held
  <2> QED BY <2>1, <2>2, Zenon DEF Held, Allowance!Free
<1> QED BY <1>1, <1>2, <1>3, <1>5, <1>6, <1>7, <1>8, <1>9 DEF Allowance!Next

\* What becomes more is made by a request that acts.
LEMMA MoreIsMade ==
    ASSUME NEW c, Allowance(c)!FreeQuotaAssumption, Held(c), Allowance(c)!Next,
           Allowance(c)!More
    PROVE  \E r \in c.requests : at[r] = "act"
<1>0. c.slots \cup c.blocks \subseteq Nat
  BY Zenon DEF Allowance!FreeQuotaAssumption
<1>1. ASSUME vm' = vm, disk' = disk
      PROVE  FALSE
  BY <1>1 DEF Allowance!More, Held
<1>2. ASSUME NEW i \in c.slots, NEW keep \in BOOLEAN, Allowance(c)!Terminate(i, keep)
      PROVE  FALSE
  <2>1. /\ vm' = [vm EXCEPT ![i] = None]
        /\ disk' = [disk EXCEPT ![i] = IF keep THEN disk[i] ELSE 0]
    BY <1>2 DEF Allowance!Terminate, Held
  <2>2. \A v \in c.slots \cup c.blocks : ~(disk'[v] > disk[v])
    BY <2>1 DEF Held
  <2>3. \A j \in c.slots : vm'[j] = None \/ vm'[j] = vm[j]
    BY <2>1 DEF Held
  <2>4. \A j \in c.slots : vm[j] # None => vm[j].size \in Nat
    BY DEF Held
  <2> QED BY <2>2, <2>3, <2>4 DEF Allowance!More
<1>3. ASSUME NEW v \in c.slots \cup c.blocks, Allowance(c)!DeleteVolume(v)
      PROVE  FALSE
  <2>1. vm' = vm /\ disk' = [disk EXCEPT ![v] = 0]
    BY <1>3 DEF Allowance!DeleteVolume
  <2>2. \A y \in c.slots \cup c.blocks : ~(disk'[y] > disk[y])
    BY <2>1 DEF Held
  <2>3. \A j \in c.slots : vm[j] # None => vm[j].size \in Nat
    BY DEF Held
  <2> QED BY <2>1, <2>2, <2>3 DEF Allowance!More
<1>4. ASSUME NEW r \in c.requests, at[r] # "act",
             \/ \E o \in c.ops : Allowance(c)!Ask(r, o)
             \/ Allowance(c)!Region(r) \/ Allowance(c)!Look(r) \/ Allowance(c)!Launch(r)
             \/ Allowance(c)!Resize(r) \/ Allowance(c)!Grow(r) \/ Allowance(c)!Create(r)
             \/ Allowance(c)!Fails(r)
      PROVE  vm' = vm /\ disk' = disk
  BY <1>4 DEF Allowance!Ask, Allowance!Region, Allowance!Look, Allowance!Launch,
     Allowance!Resize, Allowance!Grow, Allowance!Create, Allowance!Fails
<1> QED BY <1>1, <1>2, <1>3, <1>4 DEF Allowance!Next

\* A machine is made by a launch.
LEMMA NewIsFree ==
    ASSUME NEW c, Held(c), Allowance(c)!Next, t.freeOnly, NEW i \in c.slots,
           vm[i] = None, vm'[i] # None
    PROVE  Allowance(c)!Free(vm'[i].shape)
<1>1. ASSUME NEW r \in c.requests, Allowance(c)!Launch(r)
      PROVE  Allowance(c)!Free(vm'[i].shape)
  <2> DEFINE j == Allowance(c)!Min(Allowance(c)!Unused)
  <2>1. /\ vm' = [vm EXCEPT ![j] = [shape |-> op[r].shape, size |-> op[r].size]]
        /\ Allowance(c)!Free(op[r].shape)
    BY <1>1 DEF Allowance!Launch, Held
  <2> HIDE DEF j
  <2>2. vm'[i].shape = op[r].shape
    BY <2>1 DEF Held
  <2> QED BY <2>1, <2>2
<1>2. ASSUME NEW r \in c.requests, Allowance(c)!Resize(r)
      PROVE  FALSE
  <2>1. /\ vm[op[r].on] # None
        /\ vm' = [vm EXCEPT ![op[r].on] = [vm[op[r].on] EXCEPT !.size = op[r].size]]
    BY <1>2 DEF Allowance!Resize, Held
  <2>2. vm'[i] = vm[i]
    BY <2>1 DEF Held
  <2> QED BY <2>2
<1>3. ASSUME NEW k \in c.slots, NEW keep \in BOOLEAN, Allowance(c)!Terminate(k, keep)
      PROVE  FALSE
  BY <1>3 DEF Allowance!Terminate, Held
<1>4. vm' # vm
  OBVIOUS
<1> QED BY <1>1, <1>2, <1>3, <1>4 DEF Allowance!Next, Allowance!Ask, Allowance!Region,
     Allowance!Look, Allowance!Grow, Allowance!Create, Allowance!Fails, Allowance!DeleteVolume

LEMMA NothingIsBilled ==
    ASSUME NEW c, Allowance(c)!FreeQuotaAssumption, Held(c), Allowance(c)!Next
    PROVE  Allowance(c)!NothingBilled
<1>1. ASSUME Allowance(c)!More, t.freeOnly, ~t.home
      PROVE  \E r \in c.requests : at[r] = "act" /\ ~known[r] /\ ~t.child
  <2>1. PICK r \in c.requests : at[r] = "act"
    BY <1>1, MoreIsMade
  <2>2. ~known[r] /\ ~t.child
    BY <1>1, <2>1 DEF Held
  <2> QED BY <2>1, <2>2
<1>2. ASSUME t.freeOnly, NEW i \in c.slots, vm'[i] # None, vm[i] = None
      PROVE  Allowance(c)!Free(vm'[i].shape)
  BY <1>2, NewIsFree
<1> QED BY <1>1, <1>2 DEF Allowance!NothingBilled

------------------------------------------------------------------------------
(* The firewall *)

AnyRule(c) == c.rules \cup {Walls(c)!Baseline, Walls(c)!Cdn, Walls(c)!Everything}

NetTyped(c) ==
    /\ lists \in [Lists -> SUBSET AnyRule(c)]
    /\ rules \in [Groups -> {None} \cup SUBSET AnyRule(c)]
    /\ nic \in [c.insts -> SUBSET Groups]

\* Where a request is says what kind it is of and what it has at hand.
Fit(c, r) ==
    /\ firewallAt[r] # "idle" => firewallOp[r] \in c.ops
    /\ firewallAt[r] = "idle" => firewallOp[r] = Walls(c)!Idle
    /\ firewallAt[r] \in {"scan", "list", "write"} =>
          firewallOp[r].kind \in Walls(c)!ListKinds /\ Walls(c)!Target(r) \in Walls(c)!MyLists(r)
    /\ firewallAt[r] \in {"lists", "check", "tighten"} => firewallOp[r].kind \in Walls(c)!SubnetKinds
    /\ firewallAt[r] \in {"make", "attach", "again"} => firewallOp[r].kind \in {"repair", "openall"}
    /\ firewallAt[r] = "move" => firewallOp[r].kind = "repair"
    /\ firewallAt[r] = "fill" => firewallOp[r].kind = "openall"
    /\ firewallAt[r] = "empty" => firewallOp[r].kind \in Walls(c)!GroupKinds
    /\ firewallAt[r] = "attach" => new[r] \in Groups
    /\ firewallAt[r] \in {"check", "tighten"} => todo[r] \subseteq Lists

MemTyped(c) ==
    /\ firewallAt \in [c.requests -> Walls(c)!Steps]
    /\ firewallOp \in [c.requests -> c.ops \cup {Walls(c)!Idle}]
    /\ DOMAIN seen = c.requests /\ DOMAIN told = c.requests
    /\ read \in [c.requests -> [Lists -> SUBSET AnyRule(c)]]
    /\ fresh \in [c.requests -> SUBSET Lists]
    /\ todo \in [c.requests -> SUBSET (Lists \cup Groups)]
    /\ move \in [c.requests -> SUBSET AnyRule(c)]
    /\ new \in [c.requests -> Groups \cup {None}]
    /\ \A r \in c.requests : Fit(c, r)

WallsTyped(c) == NetTyped(c) /\ MemTyped(c)

LEMMA InitWalls ==
    ASSUME NEW c, Walls(c)!FirewallAssumption, WallsOf(c), Walls(c)!Init
    PROVE  WallsTyped(c)
<1>1. NetTyped(c)
  BY Zenon DEF Walls!Init, WallsOf, NetTyped, AnyRule
<1>2. MemTyped(c)
  BY Zenon DEF Walls!Init, MemTyped, Fit, Walls!Steps, Walls!Nothing
<1> QED BY <1>1, <1>2 DEF WallsTyped

\* A request that ends has nothing at hand.
LEMMA EndTyped ==
    ASSUME NEW c, MemTyped(c), NEW r \in c.requests, NEW what, NEW ls,
           Walls(c)!End(r, what), Walls(c)!Lapse(r, ls), firewallAt[r] # "idle"
    PROVE  MemTyped(c)'
<1>1. /\ firewallAt' \in [c.requests -> Walls(c)!Steps]
      /\ firewallOp' \in [c.requests -> c.ops \cup {Walls(c)!Idle}]
      /\ DOMAIN seen' = c.requests /\ DOMAIN told' = c.requests
      /\ read' \in [c.requests -> [Lists -> SUBSET AnyRule(c)]]
      /\ fresh' \in [c.requests -> SUBSET Lists]
      /\ todo' \in [c.requests -> SUBSET (Lists \cup Groups)]
      /\ move' \in [c.requests -> SUBSET AnyRule(c)]
      /\ new' \in [c.requests -> Groups \cup {None}]
  BY DEF MemTyped, Walls!End, Walls!Go, Walls!Forget, Walls!Lapse, Walls!Steps
<1>2. ASSUME NEW q \in c.requests
      PROVE  Fit(c, q)'
  <2>1. firewallOp'[q] = firewallOp[q] /\ Walls(c)!Target(q)' = Walls(c)!Target(q)
        /\ Walls(c)!MyLists(q)' = Walls(c)!MyLists(q)
    BY DEF Walls!End, Walls!Target, Walls!MyLists
  <2>2. CASE q = r
    BY <2>1, <2>2 DEF MemTyped, Fit, Walls!End, Walls!Go
  <2>3. CASE q # r
    <3>1. firewallAt'[q] = firewallAt[q] /\ new'[q] = new[q] /\ todo'[q] = todo[q]
      BY <2>3 DEF MemTyped, Walls!End, Walls!Go, Walls!Forget
    <3> QED BY <2>1, <3>1 DEF MemTyped, Fit
  <2> QED BY <2>2, <2>3
<1> QED BY <1>1, <1>2 DEF MemTyped

\* A request that goes on fits the step it goes to.
LEMMA GoTyped ==
    ASSUME NEW c, MemTyped(c), NEW r \in c.requests, NEW step, Walls(c)!Go(r, step),
           firewallOp' = firewallOp,
           \A q \in c.requests \ {r} : new'[q] = new[q] /\ todo'[q] = todo[q],
           step \in Walls(c)!Steps \ {"idle"}, firewallAt[r] # "idle",
           Fit(c, r)'
    PROVE  firewallAt' \in [c.requests -> Walls(c)!Steps] /\ \A q \in c.requests : Fit(c, q)'
<1>1. firewallAt' \in [c.requests -> Walls(c)!Steps]
  BY DEF MemTyped, Walls!Go
<1>2. ASSUME NEW q \in c.requests \ {r}
      PROVE  Fit(c, q)'
  <2>1. firewallOp'[q] = firewallOp[q] /\ Walls(c)!Target(q)' = Walls(c)!Target(q)
        /\ Walls(c)!MyLists(q)' = Walls(c)!MyLists(q)
    BY DEF Walls!Target, Walls!MyLists
  <2>2. firewallAt'[q] = firewallAt[q] /\ new'[q] = new[q] /\ todo'[q] = todo[q]
    BY DEF MemTyped, Walls!Go
  <2> QED BY <2>1, <2>2 DEF MemTyped, Fit
<1> QED BY <1>1, <1>2

\* What a request of a known kind does after reading the firewall fits it.
LEMMA AfterReadFits ==
    ASSUME NEW c, NetTyped(c), MemTyped(c), WallsOf(c), Walls(c)!FirewallAssumption,
           NEW r \in c.requests, firewallAt[r] # "idle",
           NEW lost, NEW f, f = Walls(c)!FirewallOf(firewallOp[r].inst, lost)
    PROVE  /\ Walls(c)!AfterRead(r, f) \in {"end", "scan", "list", "lists", "make", "move", "empty"}
           /\ Walls(c)!AfterRead(r, f) \in {"scan", "list"} =>
                 /\ firewallOp[r].kind \in Walls(c)!ListKinds /\ f.unread = {}
                 /\ Walls(c)!Target(r) \in Walls(c)!MyLists(r)
           /\ Walls(c)!AfterRead(r, f) = "list" => firewallOp[r].kind # "cdn"
           /\ Walls(c)!AfterRead(r, f) = "lists" => firewallOp[r].kind = "tighten"
           /\ Walls(c)!AfterRead(r, f) = "make" =>
                 firewallOp[r].kind \in {"repair", "openall"} /\ nic[firewallOp[r].inst] = {}
           /\ Walls(c)!AfterRead(r, f) = "move" =>
                 firewallOp[r].kind = "repair" /\ nic[firewallOp[r].inst] # {}
           /\ Walls(c)!AfterRead(r, f) = "empty" =>
                 firewallOp[r].kind \in Walls(c)!GroupKinds /\ nic[firewallOp[r].inst] # {}
           /\ firewallOp[r].kind = "wipe" => Walls(c)!AfterRead(r, f) \in {"end", "empty"}
           /\ DOMAIN f.rules = nic[firewallOp[r].inst] /\ DOMAIN f.rules \subseteq Groups
           /\ Walls(c)!Wanted(f) \subseteq AnyRule(c)
<1>1. /\ firewallOp[r] \in c.ops /\ firewallOp[r].inst \in c.insts
      /\ firewallOp[r].kind \in Walls(c)!ListKinds \cup Walls(c)!SubnetKinds \cup Walls(c)!GroupKinds
  BY DEF MemTyped, Fit, WallsOf
<1>2. /\ DOMAIN f.rules = nic[firewallOp[r].inst] /\ DOMAIN f.rules \subseteq Groups
      /\ \A l \in Lists : f.lists[l] \subseteq AnyRule(c)
  BY <1>1 DEF Walls!FirewallOf, NetTyped
<1>3. Walls(c)!Wanted(f) \subseteq AnyRule(c)
  BY <1>2 DEF Walls!Wanted
<1>4. CASE firewallOp[r].kind \in Walls(c)!ListKinds
  BY <1>2, <1>3, <1>4 DEF Walls!AfterRead, Walls!ListKinds, Walls!SubnetKinds, Walls!GroupKinds
<1>5. CASE firewallOp[r].kind = "tighten"
  BY <1>2, <1>3, <1>5 DEF Walls!AfterRead, Walls!ListKinds
<1>6. CASE firewallOp[r].kind = "repair"
  BY <1>2, <1>3, <1>6 DEF Walls!AfterRead, Walls!ListKinds
<1>7. CASE firewallOp[r].kind = "wipe"
  BY <1>2, <1>3, <1>7 DEF Walls!AfterRead, Walls!ListKinds, Walls!GroupKinds
<1>8. CASE firewallOp[r].kind = "openall"
  BY <1>2, <1>3, <1>8 DEF Walls!AfterRead, Walls!ListKinds, Walls!GroupKinds
<1> QED BY <1>1, <1>4, <1>5, <1>6, <1>7, <1>8
        DEF Walls!ListKinds, Walls!SubnetKinds, Walls!GroupKinds

LEMMA ReadingTyped ==
    ASSUME NEW c, WallsTyped(c), WallsOf(c), Walls(c)!FirewallAssumption,
           NEW r \in c.requests,
           \/ Walls(c)!Begin(r) \/ Walls(c)!Fails(r) \/ Walls(c)!Resolve(r) \/ Walls(c)!Scan(r)
           \/ Walls(c)!ReadList(r) \/ Walls(c)!ReadLists(r) \/ Walls(c)!Precheck(r)
           \/ Walls(c)!Again(r)
    PROVE  WallsTyped(c)'
<1>1. NetTyped(c) /\ MemTyped(c)
  BY DEF WallsTyped
<1>2. NetTyped(c)'
  <2>1. UNCHANGED Walls(c)!net
    BY Zenon
       DEF Walls!Begin, Walls!Fails, Walls!Resolve, Walls!Scan, Walls!ReadList, Walls!ReadLists,
       Walls!Precheck, Walls!Again
  <2> QED BY <1>1, <2>1 DEF NetTyped, Walls!net
<1>a. firewallAt[r] # "idle" => /\ firewallOp[r] \in c.ops /\ firewallOp[r].inst \in c.insts
                                /\ Walls(c)!MyLists(r) \subseteq Lists
  BY <1>1 DEF MemTyped, Fit, WallsOf, Walls!FirewallAssumption, Walls!MyLists
<1>b. ASSUME firewallOp' = firewallOp
      PROVE  /\ Walls(c)!Target(r)' = Walls(c)!Target(r)
             /\ Walls(c)!MyLists(r)' = Walls(c)!MyLists(r)
  BY <1>b DEF Walls!Target, Walls!MyLists
<1>3. CASE Walls(c)!Begin(r)
  <2>1. PICK o \in c.ops : firewallOp' = [firewallOp EXCEPT ![r] = o]
    BY <1>3, Zenon DEF Walls!Begin
  <2>2. /\ firewallAt[r] = "idle" /\ firewallAt' = [firewallAt EXCEPT ![r] = "resolve"]
        /\ UNCHANGED <<seen, read, fresh, todo, move, new, told>>
    BY <1>3 DEF Walls!Begin, Walls!mem
  <2>3. /\ firewallAt' \in [c.requests -> Walls(c)!Steps]
        /\ firewallOp' \in [c.requests -> c.ops \cup {Walls(c)!Idle}]
    BY <1>1, <2>1, <2>2 DEF MemTyped, Walls!Steps
  <2>4. ASSUME NEW q \in c.requests
        PROVE  Fit(c, q)'
    <3>1. CASE q = r
      <4>1. firewallAt'[q] = "resolve" /\ firewallOp'[q] = o
        BY <1>1, <2>1, <2>2, <3>1 DEF MemTyped
      <4> QED BY <4>1 DEF Fit
    <3>2. CASE q # r
      <4>1. firewallAt'[q] = firewallAt[q] /\ firewallOp'[q] = firewallOp[q]
        BY <1>1, <2>1, <2>2, <3>2 DEF MemTyped
      <4>2. Walls(c)!Target(q)' = Walls(c)!Target(q) /\ Walls(c)!MyLists(q)' = Walls(c)!MyLists(q)
        BY <4>1 DEF Walls!Target, Walls!MyLists
      <4> QED BY <1>1, <2>2, <4>1, <4>2 DEF MemTyped, Fit
    <3> QED BY <3>1, <3>2
  <2>5. MemTyped(c)'
    BY <1>1, <2>2, <2>3, <2>4 DEF MemTyped
  <2> QED BY <1>2, <2>5 DEF WallsTyped
<1>4. CASE Walls(c)!Fails(r)
  BY <1>1, <1>2, <1>4, EndTyped, Zenon DEF WallsTyped, Walls!Fails, Walls!Busy
<1>5. CASE Walls(c)!Resolve(r)
  <2>1. firewallAt[r] = "resolve"
    BY <1>5, Zenon DEF Walls!Resolve
  <2>2. PICK lost \in Walls(c)!Losses :
          LET f == Walls(c)!FirewallOf(firewallOp[r].inst, lost \cap Walls(c)!MyLists(r))
          IN  IF Walls(c)!AfterRead(r, f) = "end"
              THEN /\ Walls(c)!End(r, IF firewallOp[r].kind # "wipe" THEN "" ELSE
                             IF Walls(c)!SshAfter(f) THEN "ssh" ELSE "no ssh")
                   /\ Walls(c)!Lapse(r, {})
              ELSE /\ Walls(c)!Go(r, Walls(c)!AfterRead(r, f)) /\ seen' = [seen EXCEPT ![r] = f]
                   /\ todo' = [todo EXCEPT ![r] =
                          IF firewallOp[r].kind \in Walls(c)!GroupKinds THEN DOMAIN f.rules ELSE {}]
                   /\ move' = [move EXCEPT ![r] =
                          IF firewallOp[r].kind = "repair" THEN Walls(c)!Wanted(f) ELSE {}]
                   /\ UNCHANGED <<firewallOp, read, fresh, new, told, edits>>
    BY <1>5, Zenon DEF Walls!Resolve
  <2> DEFINE f0 == Walls(c)!FirewallOf(firewallOp[r].inst, lost \cap Walls(c)!MyLists(r))
  <2>3. CASE Walls(c)!AfterRead(r, f0) = "end"
    BY <1>1, <1>2, <2>1, <2>2, <2>3, EndTyped, Zenon DEF WallsTyped
  <2>4. CASE Walls(c)!AfterRead(r, f0) # "end"
    <3> DEFINE step == Walls(c)!AfterRead(r, f0)
    <3>1. /\ Walls(c)!Go(r, step) /\ seen' = [seen EXCEPT ![r] = f0]
          /\ todo' = [todo EXCEPT ![r] =
                 IF firewallOp[r].kind \in Walls(c)!GroupKinds THEN DOMAIN f0.rules ELSE {}]
          /\ move' = [move EXCEPT ![r] =
                 IF firewallOp[r].kind = "repair" THEN Walls(c)!Wanted(f0) ELSE {}]
          /\ UNCHANGED <<firewallOp, read, fresh, new, told, edits>>
      BY <2>2, <2>4
    <3>2. /\ step \in {"end", "scan", "list", "lists", "make", "move", "empty"}
          /\ step \in {"scan", "list"} =>
                firewallOp[r].kind \in Walls(c)!ListKinds /\ Walls(c)!Target(r) \in Walls(c)!MyLists(r)
          /\ step = "lists" => firewallOp[r].kind = "tighten"
          /\ step = "make" => firewallOp[r].kind \in {"repair", "openall"}
          /\ step = "move" => firewallOp[r].kind = "repair"
          /\ step = "empty" => firewallOp[r].kind \in Walls(c)!GroupKinds
          /\ DOMAIN f0.rules \subseteq Groups
          /\ Walls(c)!Wanted(f0) \subseteq AnyRule(c)
      BY <1>1, <2>1, AfterReadFits, Zenon
    <3> HIDE DEF step, f0
    <3>3. firewallAt'[r] = step /\ firewallOp' = firewallOp /\ UNCHANGED <<read, fresh, new, told>>
      BY <1>1, <3>1 DEF MemTyped, Walls!Go
    <3>4. Fit(c, r)'
      BY <1>a, <1>b, <2>1, <2>4, <3>2, <3>3 DEF Fit, Walls!SubnetKinds
    <3>5. step \in Walls(c)!Steps \ {"idle"}
      BY <3>2 DEF Walls!Steps
    <3>6. /\ DOMAIN seen' = c.requests
          /\ todo' \in [c.requests -> SUBSET (Lists \cup Groups)]
          /\ move' \in [c.requests -> SUBSET AnyRule(c)]
          /\ \A q \in c.requests \ {r} : new'[q] = new[q] /\ todo'[q] = todo[q]
      BY <1>1, <3>1, <3>2 DEF MemTyped
    <3>7. firewallAt' \in [c.requests -> Walls(c)!Steps] /\ \A q \in c.requests : Fit(c, q)'
      BY <1>1, <2>1, <3>1, <3>3, <3>4, <3>5, <3>6, GoTyped
    <3>8. MemTyped(c)'
      BY <1>1, <3>3, <3>6, <3>7 DEF MemTyped
    <3> QED BY <1>2, <3>8 DEF WallsTyped
  <2> QED BY <2>3, <2>4
<1>6. CASE Walls(c)!Scan(r)
  <2>1. firewallAt[r] = "scan"
    BY <1>6 DEF Walls!Scan
  <2>2. CASE \E what : Walls(c)!End(r, what) /\ Walls(c)!Lapse(r, {})
    BY <1>1, <1>2, <2>1, <2>2, EndTyped DEF WallsTyped
  <2>3. CASE /\ Walls(c)!Go(r, "list") /\ UNCHANGED <<firewallOp, seen, read, fresh, todo, move, new>>
             /\ \E what : told' = [told EXCEPT ![r] = what]
    <3>1. Fit(c, r)'
      BY <1>1, <1>b, <2>1, <2>3 DEF MemTyped, Fit, Walls!Go
    <3>2. firewallAt' \in [c.requests -> Walls(c)!Steps] /\ \A q \in c.requests : Fit(c, q)'
      BY <1>1, <2>1, <2>3, <3>1, GoTyped DEF Walls!Steps
    <3>3. MemTyped(c)'
      BY <1>1, <2>3, <3>2 DEF MemTyped
    <3> QED BY <1>2, <3>3 DEF WallsTyped
  <2> QED BY <1>6, <2>2, <2>3 DEF Walls!Scan, Walls!mem
<1>7. CASE Walls(c)!ReadList(r)
  <2>1. firewallAt[r] = "list"
    BY <1>7 DEF Walls!ReadList
  <2>2. CASE \E what : Walls(c)!End(r, what) /\ Walls(c)!Lapse(r, {})
    BY <1>1, <1>2, <2>1, <2>2, EndTyped DEF WallsTyped
  <2>3. CASE /\ Walls(c)!Go(r, "write")
             /\ read' = [read EXCEPT ![r][Walls(c)!Target(r)] = lists[Walls(c)!Target(r)]]
             /\ fresh' = [fresh EXCEPT ![r] = {Walls(c)!Target(r)}]
             /\ UNCHANGED <<firewallOp, seen, todo, move, new, told>>
    <3>1. Fit(c, r)'
      BY <1>1, <1>b, <2>1, <2>3, Zenon DEF MemTyped, Fit, Walls!Go
    <3>2. firewallAt' \in [c.requests -> Walls(c)!Steps] /\ \A q \in c.requests : Fit(c, q)'
      BY <1>1, <2>1, <2>3, <3>1, GoTyped DEF Walls!Steps
    <3>3. Walls(c)!Target(r) \in Lists
      BY <1>1, <1>a, <2>1 DEF MemTyped, Fit
    <3>4. /\ read' \in [c.requests -> [Lists -> SUBSET AnyRule(c)]]
          /\ fresh' \in [c.requests -> SUBSET Lists]
      BY <1>1, <2>3, <3>3 DEF MemTyped, NetTyped
    <3>5. MemTyped(c)'
      BY <1>1, <2>3, <3>2, <3>4 DEF MemTyped
    <3> QED BY <1>2, <3>5 DEF WallsTyped
  <2> QED BY <1>7, <2>2, <2>3 DEF Walls!ReadList
<1>8. CASE Walls(c)!ReadLists(r)
  <2>1. firewallAt[r] = "lists"
    BY <1>8, Zenon DEF Walls!ReadLists
  <2>2. CASE \E what : Walls(c)!End(r, what) /\ Walls(c)!Lapse(r, {})
    BY <1>1, <1>2, <2>1, <2>2, EndTyped DEF WallsTyped
  <2>3. ASSUME NEW targets \in SUBSET Walls(c)!MyLists(r),
               Walls(c)!Go(r, "check"), todo' = [todo EXCEPT ![r] = targets],
               read' = [read EXCEPT ![r] = [l \in Lists |-> IF l \in targets THEN lists[l] ELSE {}]],
               fresh' = [fresh EXCEPT ![r] = targets],
               UNCHANGED <<firewallOp, seen, move, new, told>>
        PROVE  WallsTyped(c)'
    <3>1. /\ read' \in [c.requests -> [Lists -> SUBSET AnyRule(c)]]
          /\ fresh' \in [c.requests -> SUBSET Lists]
          /\ todo' \in [c.requests -> SUBSET (Lists \cup Groups)] /\ todo'[r] \subseteq Lists
          /\ \A q \in c.requests \ {r} : new'[q] = new[q] /\ todo'[q] = todo[q]
      BY <1>1, <1>a, <2>1, <2>3 DEF MemTyped, NetTyped
    <3>2. Fit(c, r)'
      BY <1>1, <1>b, <2>1, <2>3, <3>1 DEF MemTyped, Fit, Walls!Go
    <3>3. firewallAt' \in [c.requests -> Walls(c)!Steps] /\ \A q \in c.requests : Fit(c, q)'
      BY <1>1, <2>1, <2>3, <3>1, <3>2, GoTyped DEF Walls!Steps
    <3>4. MemTyped(c)'
      BY <1>1, <2>3, <3>1, <3>3 DEF MemTyped
    <3> QED BY <1>2, <3>4 DEF WallsTyped
  <2>4. {l \in Walls(c)!MyLists(r) : Walls(c)!Drop(lists[l]) # {}} \in SUBSET Walls(c)!MyLists(r)
    OBVIOUS
  <2> QED BY <1>8, <2>2, <2>3, <2>4, Zenon DEF Walls!ReadLists
<1>9. CASE Walls(c)!Precheck(r)
  <2>1. firewallAt[r] = "check"
    BY <1>9, Zenon DEF Walls!Precheck
  <2>2. CASE \E what : Walls(c)!End(r, what) /\ Walls(c)!Lapse(r, {})
    BY <1>1, <1>2, <2>1, <2>2, EndTyped DEF WallsTyped
  <2>3. CASE Walls(c)!Go(r, "tighten") /\ UNCHANGED <<firewallOp, seen, read, fresh, todo, move, new, told>>
    <3>1. Fit(c, r)'
      BY <1>1, <1>b, <2>1, <2>3 DEF MemTyped, Fit, Walls!Go
    <3>2. firewallAt' \in [c.requests -> Walls(c)!Steps] /\ \A q \in c.requests : Fit(c, q)'
      BY <1>1, <2>1, <2>3, <3>1, GoTyped DEF Walls!Steps
    <3>3. MemTyped(c)'
      BY <1>1, <2>3, <3>2 DEF MemTyped
    <3> QED BY <1>2, <3>3 DEF WallsTyped
  <2> QED BY <1>9, <2>2, <2>3, Zenon DEF Walls!Precheck, Walls!mem
<1>10. CASE Walls(c)!Again(r)
  <2>1. firewallAt[r] = "again"
    BY <1>10, Zenon DEF Walls!Again
  <2>2. CASE \E what : Walls(c)!End(r, what) /\ Walls(c)!Lapse(r, {})
    BY <1>1, <1>2, <2>1, <2>2, EndTyped DEF WallsTyped
  <2>3. ASSUME NEW f,
               Walls(c)!Go(r, IF firewallOp[r].kind = "repair" THEN "move" ELSE "empty"),
               seen' = [seen EXCEPT ![r] = f],
               todo' = [todo EXCEPT ![r] = IF firewallOp[r].kind = "repair" THEN {} ELSE DOMAIN f.rules],
               UNCHANGED <<firewallOp, read, fresh, move, new, told>>,
               DOMAIN f.rules \subseteq Groups
        PROVE  WallsTyped(c)'
    <3>1. /\ DOMAIN seen' = c.requests
          /\ todo' \in [c.requests -> SUBSET (Lists \cup Groups)]
          /\ \A q \in c.requests \ {r} : new'[q] = new[q] /\ todo'[q] = todo[q]
      BY <1>1, <2>3 DEF MemTyped
    <3>2. Fit(c, r)'
      BY <1>1, <1>b, <2>1, <2>3, <3>1, Zenon DEF MemTyped, Fit, Walls!Go, Walls!GroupKinds
    <3>3. firewallAt' \in [c.requests -> Walls(c)!Steps] /\ \A q \in c.requests : Fit(c, q)'
      BY <1>1, <2>1, <2>3, <3>1, <3>2, GoTyped DEF Walls!Steps
    <3>4. MemTyped(c)'
      BY <1>1, <2>3, <3>1, <3>3 DEF MemTyped
    <3> QED BY <1>2, <3>4 DEF WallsTyped
  <2>4. DOMAIN Walls(c)!FirewallOf(firewallOp[r].inst, {}).rules \subseteq Groups
    BY <1>1, <1>a, <2>1 DEF Walls!FirewallOf, NetTyped
  <2> QED BY <1>10, <2>2, <2>3, <2>4, Zenon DEF Walls!Again
<1> QED BY <1>3, <1>4, <1>5, <1>6, <1>7, <1>8, <1>9, <1>10

LEMMA WritingTyped ==
    ASSUME NEW c, WallsTyped(c), WallsOf(c), Walls(c)!FirewallAssumption,
           NEW r \in c.requests,
           \/ Walls(c)!WriteList(r) \/ Walls(c)!Tighten(r) \/ Walls(c)!Make(r)
           \/ Walls(c)!Attach(r) \/ Walls(c)!Move(r) \/ Walls(c)!Empty(r) \/ Walls(c)!Fill(r)
    PROVE  WallsTyped(c)'
<1>1. NetTyped(c) /\ MemTyped(c)
  BY DEF WallsTyped
<1>a. firewallAt[r] # "idle" => /\ firewallOp[r] \in c.ops /\ firewallOp[r].inst \in c.insts
                                /\ firewallOp[r].rules \subseteq c.rules
                                /\ Walls(c)!MyLists(r) \subseteq Lists
  BY <1>1 DEF MemTyped, Fit, WallsOf, Walls!FirewallAssumption, Walls!MyLists
<1>b. ASSUME firewallOp' = firewallOp
      PROVE  /\ Walls(c)!Target(r)' = Walls(c)!Target(r)
             /\ Walls(c)!MyLists(r)' = Walls(c)!MyLists(r)
  BY <1>b DEF Walls!Target, Walls!MyLists
<1>c. ASSUME NEW l \in Lists, NEW xs \in SUBSET AnyRule(c), lists' = [lists EXCEPT ![l] = xs]
      PROVE  lists' \in [Lists -> SUBSET AnyRule(c)]
  BY <1>1, <1>c DEF NetTyped
<1>d. ASSUME NEW g, NEW xs \in {None} \cup SUBSET AnyRule(c), rules' = [rules EXCEPT ![g] = xs]
      PROVE  rules' \in [Groups -> {None} \cup SUBSET AnyRule(c)]
  BY <1>1, <1>d, Zenon DEF NetTyped
<1>e. ASSUME NEW g, rules[g] # None, NEW xs \in SUBSET AnyRule(c),
             \/ rules' = [rules EXCEPT ![g] = @ \cup xs]
             \/ \E ys : rules' = [rules EXCEPT ![g] = @ \ ys]
      PROVE  rules' \in [Groups -> {None} \cup SUBSET AnyRule(c)]
  BY <1>1, <1>e DEF NetTyped
<1>f. Walls(c)!Everything \in AnyRule(c)
  BY DEF AnyRule
<1>2. CASE Walls(c)!WriteList(r)
  <2>1. firewallAt[r] = "write" /\ UNCHANGED <<rules, nic>> /\ Walls(c)!Target(r) \in fresh[r]
    BY <1>2, Zenon DEF Walls!WriteList
  <2>2. Walls(c)!Target(r) \in Lists /\ read[r][Walls(c)!Target(r)] \subseteq AnyRule(c)
    BY <1>1, <1>a, <2>1 DEF MemTyped
  <2>3. Walls(c)!Changed(r, read[r][Walls(c)!Target(r)]) \subseteq AnyRule(c)
    <3>1. firewallOp[r].kind \in Walls(c)!ListKinds
      BY <1>1, <2>1 DEF MemTyped, Fit
    <3>2. firewallOp[r].rules \subseteq AnyRule(c) /\ Walls(c)!Cdn \in AnyRule(c)
      BY <1>a, <2>1 DEF AnyRule
    <3> QED BY <2>2, <3>1, <3>2 DEF Walls!Changed, Walls!ListKinds
  <2>4. \E what, ls : Walls(c)!End(r, what) /\ Walls(c)!Lapse(r, ls)
    BY <1>2, Zenon DEF Walls!WriteList, Walls!Put
  <2>5. lists' = lists \/ lists' = [lists EXCEPT ![Walls(c)!Target(r)] =
                                      Walls(c)!Changed(r, read[r][Walls(c)!Target(r)])]
    BY <1>2, Zenon DEF Walls!WriteList, Walls!Put
  <2>6. NetTyped(c)'
    BY <1>1, <1>c, <2>1, <2>2, <2>3, <2>5 DEF NetTyped
  <2>7. MemTyped(c)'
    BY <1>1, <2>1, <2>4, EndTyped
  <2> QED BY <2>6, <2>7 DEF WallsTyped
<1>3. CASE Walls(c)!Tighten(r)
  <2>1. firewallAt[r] = "tighten" /\ UNCHANGED <<rules, nic>>
    BY <1>3, Zenon DEF Walls!Tighten
  <2>2. PICK l \in todo[r] \cap fresh[r] :
          /\ lists' = [lists EXCEPT ![l] = Walls(c)!Tightened(l, read[r][l])]
          /\ \/ /\ todo[r] # {l}
                /\ todo' = [todo EXCEPT ![r] = @ \ {l}]
                /\ fresh' = [q \in c.requests |-> fresh[q] \ {l}]
                /\ UNCHANGED <<firewallAt, firewallOp, seen, read, move, new, told, edits>>
             \/ todo[r] = {l} /\ Walls(c)!End(r, "tight") /\ Walls(c)!Lapse(r, {l})
             \/ Walls(c)!End(r, "") /\ Walls(c)!Lapse(r, {l})
    BY <1>3, Zenon DEF Walls!Tighten
  <2>3. l \in Lists /\ read[r][l] \subseteq AnyRule(c)
    <3>1. l \in fresh[r]
      OBVIOUS
    <3> QED BY <1>1, <3>1 DEF MemTyped
  <2>4. Walls(c)!Tightened(l, read[r][l]) \subseteq AnyRule(c)
    <3>1. Walls(c)!Baseline \in AnyRule(c)
      BY DEF AnyRule
    <3>2. Walls(c)!Tightened(l, read[r][l]) \subseteq read[r][l] \cup {Walls(c)!Baseline}
      BY Zenon DEF Walls!Tightened
    <3> QED BY <2>3, <3>1, <3>2
  <2>5. NetTyped(c)'
    BY <1>1, <1>c, <2>1, <2>2, <2>3, <2>4, Zenon DEF NetTyped
  <2>6. CASE \E what : Walls(c)!End(r, what) /\ Walls(c)!Lapse(r, {l})
    BY <1>1, <2>1, <2>5, <2>6, EndTyped DEF WallsTyped
  <2>7. CASE /\ todo' = [todo EXCEPT ![r] = @ \ {l}]
             /\ fresh' = [q \in c.requests |-> fresh[q] \ {l}]
             /\ UNCHANGED <<firewallAt, firewallOp, seen, read, move, new, told, edits>>
    <3>1. /\ todo' \in [c.requests -> SUBSET (Lists \cup Groups)]
          /\ fresh' \in [c.requests -> SUBSET Lists]
          /\ \A q \in c.requests : todo'[q] \subseteq todo[q]
      BY <1>1, <2>7 DEF MemTyped
    <3>2. ASSUME NEW q \in c.requests
          PROVE  Fit(c, q)'
      <4>1. Walls(c)!Target(q)' = Walls(c)!Target(q) /\ Walls(c)!MyLists(q)' = Walls(c)!MyLists(q)
        BY <2>7 DEF Walls!Target, Walls!MyLists
      <4>2. todo'[q] \subseteq todo[q] /\ Fit(c, q)
        BY <1>1, <3>1 DEF MemTyped
      <4> QED BY <2>7, <4>1, <4>2 DEF Fit
    <3>3. MemTyped(c)'
      BY <1>1, <2>7, <3>1, <3>2 DEF MemTyped
    <3> QED BY <2>5, <3>3 DEF WallsTyped
  <2> QED BY <2>2, <2>6, <2>7, Zenon
<1>4. CASE Walls(c)!Make(r)
  <2>1. firewallAt[r] = "make" /\ UNCHANGED <<lists, nic>>
    BY <1>4 DEF Walls!Make
  <2>2. CASE Walls(c)!Go(r, "again") /\ UNCHANGED rules /\ UNCHANGED <<firewallOp, seen, read, fresh, todo, move, new, told>>
    <3>1. Fit(c, r)'
      BY <1>1, <1>b, <2>1, <2>2, Zenon DEF MemTyped, Fit, Walls!Go
    <3>2. firewallAt' \in [c.requests -> Walls(c)!Steps] /\ \A q \in c.requests : Fit(c, q)'
      BY <1>1, <2>1, <2>2, <3>1, GoTyped DEF Walls!Steps
    <3>3. MemTyped(c)' /\ NetTyped(c)'
      BY <1>1, <2>1, <2>2, <3>2 DEF MemTyped, NetTyped
    <3> QED BY <3>3 DEF WallsTyped
  <2>3. ASSUME NEW g \in Groups,
               \E xs \in {{}, {Walls(c)!Everything}} : rules' = [rules EXCEPT ![g] = xs],
               Walls(c)!Go(r, "attach"), new' = [new EXCEPT ![r] = g],
               UNCHANGED <<firewallOp, seen, read, fresh, todo, move, told>>
        PROVE  WallsTyped(c)'
    <3>1. rules' \in [Groups -> {None} \cup SUBSET AnyRule(c)]
      BY <1>d, <1>f, <2>3, Zenon
    <3>2. /\ new' \in [c.requests -> Groups \cup {None}] /\ new'[r] = g
          /\ \A q \in c.requests \ {r} : new'[q] = new[q] /\ todo'[q] = todo[q]
      BY <1>1, <2>3 DEF MemTyped
    <3>3. Fit(c, r)'
      BY <1>1, <1>b, <2>1, <2>3, <3>2, Zenon DEF MemTyped, Fit, Walls!Go
    <3>4. firewallAt' \in [c.requests -> Walls(c)!Steps] /\ \A q \in c.requests : Fit(c, q)'
      BY <1>1, <2>1, <2>3, <3>2, <3>3, GoTyped DEF Walls!Steps
    <3>5. MemTyped(c)' /\ NetTyped(c)'
      BY <1>1, <2>1, <2>3, <3>1, <3>2, <3>4 DEF MemTyped, NetTyped
    <3> QED BY <3>5 DEF WallsTyped
  <2> QED BY <1>4, <2>2, <2>3 DEF Walls!Make, Walls!mem
<1>5. CASE Walls(c)!Attach(r)
  <2>1. firewallAt[r] = "attach" /\ UNCHANGED lists /\ new[r] \in Groups
    BY <1>1, <1>5, Zenon DEF Walls!Attach, MemTyped, Fit
  <2>2. NetTyped(c)'
    <3>1. nic' = nic \/ nic' = [nic EXCEPT ![firewallOp[r].inst] = {new[r]}]
      BY <1>5, Zenon DEF Walls!Attach
    <3>2. nic' \in [c.insts -> SUBSET Groups]
      BY <1>1, <2>1, <3>1 DEF NetTyped
    <3>3. rules' = rules \/ rules' = [rules EXCEPT ![new[r]] = None]
      BY <1>5, Zenon DEF Walls!Attach
    <3>4. rules' \in [Groups -> {None} \cup SUBSET AnyRule(c)]
      BY <1>1, <1>d, <3>3 DEF NetTyped
    <3> QED BY <1>1, <2>1, <3>2, <3>4 DEF NetTyped
  <2>3. CASE \E what : Walls(c)!End(r, what) /\ Walls(c)!Lapse(r, {})
    BY <1>1, <2>1, <2>2, <2>3, EndTyped DEF WallsTyped
  <2>4. CASE /\ Walls(c)!Go(r, "again") /\ new' = [new EXCEPT ![r] = None]
             /\ UNCHANGED <<firewallOp, seen, read, fresh, todo, move, told, edits>>
    <3>1. /\ new' \in [c.requests -> Groups \cup {None}]
          /\ \A q \in c.requests \ {r} : new'[q] = new[q] /\ todo'[q] = todo[q]
      BY <1>1, <2>4 DEF MemTyped
    <3>2. Fit(c, r)'
      BY <1>1, <1>b, <2>1, <2>4 DEF MemTyped, Fit, Walls!Go
    <3>3. firewallAt' \in [c.requests -> Walls(c)!Steps] /\ \A q \in c.requests : Fit(c, q)'
      BY <1>1, <2>1, <2>4, <3>1, <3>2, GoTyped DEF Walls!Steps
    <3>4. MemTyped(c)'
      BY <1>1, <2>4, <3>1, <3>3 DEF MemTyped
    <3> QED BY <2>2, <3>4 DEF WallsTyped
  <2> QED BY <1>5, <2>3, <2>4, Zenon DEF Walls!Attach
<1>6. CASE Walls(c)!Move(r)
  <2>1. firewallAt[r] = "move" /\ UNCHANGED <<lists, nic>> /\ rules[Walls(c)!Own(r)] # None
    BY <1>6, Zenon DEF Walls!Move
  <2>2. \E xs \in SUBSET move[r] : rules' = [rules EXCEPT ![Walls(c)!Own(r)] = @ \cup xs]
    BY <1>6, Zenon DEF Walls!Move
  <2>3. move[r] \subseteq AnyRule(c)
    BY <1>1 DEF MemTyped
  <2>4. NetTyped(c)'
    BY <1>1, <1>e, <2>1, <2>2, <2>3, Zenon DEF NetTyped
  <2>5. CASE \E what : Walls(c)!End(r, what) /\ Walls(c)!Lapse(r, {})
    BY <1>1, <2>1, <2>4, <2>5, EndTyped DEF WallsTyped
  <2>6. CASE Walls(c)!Go(r, "lists") /\ UNCHANGED <<firewallOp, seen, read, fresh, todo, move, new, told>>
    <3>1. Fit(c, r)'
      BY <1>1, <1>b, <2>1, <2>6, Zenon DEF MemTyped, Fit, Walls!Go, Walls!SubnetKinds
    <3>2. firewallAt' \in [c.requests -> Walls(c)!Steps] /\ \A q \in c.requests : Fit(c, q)'
      BY <1>1, <2>1, <2>6, <3>1, GoTyped DEF Walls!Steps
    <3>3. MemTyped(c)'
      BY <1>1, <2>6, <3>2 DEF MemTyped
    <3> QED BY <2>4, <3>3 DEF WallsTyped
  <2> QED BY <1>6, <2>5, <2>6, Zenon DEF Walls!Move, Walls!mem
<1>g. ASSUME NEW g, NEW ok, Walls(c)!Next1(r, g, ok), firewallAt[r] \in {"empty", "fill"}
      PROVE  MemTyped(c)'
  <2>1. CASE \E what : Walls(c)!End(r, what) /\ Walls(c)!Lapse(r, {})
    BY <1>1, <1>g, <2>1, EndTyped
  <2>2. CASE /\ Walls(c)!Go(r, "empty") /\ todo' = [todo EXCEPT ![r] = @ \ {g}]
             /\ \E what : told' = [told EXCEPT ![r] = what]
             /\ UNCHANGED <<firewallOp, seen, read, fresh, move, new>>
    <3>1. /\ todo' \in [c.requests -> SUBSET (Lists \cup Groups)]
          /\ DOMAIN told' = c.requests
          /\ \A q \in c.requests \ {r} : new'[q] = new[q] /\ todo'[q] = todo[q]
      BY <1>1, <2>2 DEF MemTyped
    <3>2. Fit(c, r)'
      BY <1>1, <1>b, <1>g, <2>2 DEF MemTyped, Fit, Walls!Go, Walls!GroupKinds
    <3>3. firewallAt' \in [c.requests -> Walls(c)!Steps] /\ \A q \in c.requests : Fit(c, q)'
      BY <1>1, <1>g, <2>2, <3>1, <3>2, GoTyped DEF Walls!Steps
    <3> QED BY <1>1, <2>2, <3>1, <3>3 DEF MemTyped
  <2> QED BY <1>g, <2>1, <2>2 DEF Walls!Next1
<1>7. CASE Walls(c)!Empty(r)
  <2>1. firewallAt[r] = "empty" /\ UNCHANGED <<lists, nic>>
    BY <1>7 DEF Walls!Empty
  <2>2. NetTyped(c)'
    <3>1. rules[Walls(c)!Min(todo[r])] # None
          /\ \E ys : rules' = [rules EXCEPT ![Walls(c)!Min(todo[r])] = @ \ ys]
      BY <1>7, Zenon DEF Walls!Empty
    <3> QED BY <1>1, <1>e, <2>1, <3>1, Zenon DEF NetTyped
  <2>3. CASE \E g, ok : Walls(c)!Next1(r, g, ok)
    BY <1>g, <2>1, <2>2, <2>3 DEF WallsTyped
  <2>4. CASE /\ firewallOp[r].kind # "wipe"
             /\ Walls(c)!Go(r, "fill") /\ UNCHANGED <<firewallOp, seen, read, fresh, todo, move, new, told>>
    <3>1. Fit(c, r)'
      BY <1>1, <1>b, <2>1, <2>4 DEF MemTyped, Fit, Walls!Go, Walls!GroupKinds
    <3>2. firewallAt' \in [c.requests -> Walls(c)!Steps] /\ \A q \in c.requests : Fit(c, q)'
      BY <1>1, <2>1, <2>4, <3>1, GoTyped DEF Walls!Steps
    <3>3. MemTyped(c)'
      BY <1>1, <2>4, <3>2 DEF MemTyped
    <3> QED BY <2>2, <3>3 DEF WallsTyped
  <2> QED BY <1>7, <2>3, <2>4, Zenon DEF Walls!Empty, Walls!mem
<1>8. CASE Walls(c)!Fill(r)
  <2>1. firewallAt[r] = "fill" /\ UNCHANGED <<lists, nic>>
    BY <1>8 DEF Walls!Fill
  <2>2. NetTyped(c)'
    <3>1. rules[Walls(c)!Min(todo[r])] # None
          /\ \/ rules' = [rules EXCEPT ![Walls(c)!Min(todo[r])] = @ \cup {Walls(c)!Everything}]
             \/ rules' = rules
      BY <1>8 DEF Walls!Fill
    <3>2. {Walls(c)!Everything} \in SUBSET AnyRule(c)
      BY <1>f
    <3> QED BY <1>1, <1>e, <2>1, <3>1, <3>2 DEF NetTyped
  <2>3. \E g, ok : Walls(c)!Next1(r, g, ok)
    BY <1>8 DEF Walls!Fill
  <2> QED BY <1>g, <2>1, <2>2, <2>3 DEF WallsTyped
<1> QED BY <1>2, <1>3, <1>4, <1>5, <1>6, <1>7, <1>8

LEMMA WallsTypeStep ==
    ASSUME NEW c, WallsTyped(c), WallsOf(c), Walls(c)!FirewallAssumption, Walls(c)!Next
    PROVE  WallsTyped(c)'
<1>1. NetTyped(c) /\ MemTyped(c)
  BY DEF WallsTyped
<1>2. ASSUME NEW r \in c.requests, Walls(c)!Step(r)
      PROVE  WallsTyped(c)'
  BY <1>2, ReadingTyped, WritingTyped DEF Walls!Step
<1>a. ASSUME UNCHANGED <<firewallAt, firewallOp, todo, new>>
      PROVE  \A r \in c.requests : Fit(c, r)'
  <2>1. ASSUME NEW r \in c.requests
        PROVE  /\ Walls(c)!Target(r)' = Walls(c)!Target(r)
               /\ Walls(c)!MyLists(r)' = Walls(c)!MyLists(r)
    BY <1>a DEF Walls!Target, Walls!MyLists
  <2> QED BY <1>1, <1>a, <2>1 DEF MemTyped, Fit
<1>3. CASE Walls(c)!EditList
  <2>1. PICK l \in Lists, x \in c.rules :
          /\ lists' = [lists EXCEPT ![l] = IF x \in @ THEN @ \ {x} ELSE @ \cup {x}]
          /\ fresh' = [q \in c.requests |-> fresh[q] \ {l}]
    BY <1>3, Zenon DEF Walls!EditList
  <2>2. UNCHANGED <<rules, nic, firewallAt, firewallOp, seen, read, todo, move, new, told>>
    BY <1>3 DEF Walls!EditList
  <2>3. x \in AnyRule(c)
    BY DEF AnyRule
  <2>4. NetTyped(c)'
    BY <1>1, <2>1, <2>2, <2>3 DEF NetTyped
  <2>5. MemTyped(c)'
    BY <1>1, <1>a, <2>1, <2>2 DEF MemTyped
  <2> QED BY <2>4, <2>5 DEF WallsTyped
<1>4. CASE Walls(c)!EditGroup
  <2>1. PICK g \in Groups, x \in c.rules :
          rules[g] # None /\ rules' = [rules EXCEPT ![g] = IF x \in @ THEN @ \ {x} ELSE @ \cup {x}]
    BY <1>4, Zenon DEF Walls!EditGroup, Walls!Made
  <2>2. UNCHANGED <<lists, nic, firewallAt, firewallOp, seen, read, fresh, todo, move, new, told>>
    BY <1>4 DEF Walls!EditGroup, Walls!mem
  <2>3. x \in AnyRule(c)
    BY DEF AnyRule
  <2>4. NetTyped(c)'
    BY <1>1, <2>1, <2>2, <2>3 DEF NetTyped
  <2>5. MemTyped(c)'
    BY <1>1, <1>a, <2>2 DEF MemTyped
  <2> QED BY <2>4, <2>5 DEF WallsTyped
<1> QED BY <1>2, <1>3, <1>4 DEF Walls!Next

\* A request that ends forgets, and what others read of the lists ls is out of date.
LEMMA EndEffect ==
    ASSUME NEW c, MemTyped(c), NEW r \in c.requests, NEW what, NEW ls,
           Walls(c)!End(r, what), Walls(c)!Lapse(r, ls)
    PROVE  /\ firewallAt'[r] = "end" /\ firewallOp'[r] = firewallOp[r] /\ told'[r] = what
           /\ seen'[r] = Walls(c)!Nothing /\ read'[r] = [l \in Lists |-> {}]
           /\ todo'[r] = {} /\ move'[r] = {} /\ new'[r] = None /\ fresh'[r] = {}
           /\ \A q \in c.requests \ {r} :
                 /\ firewallAt'[q] = firewallAt[q] /\ firewallOp'[q] = firewallOp[q]
                 /\ told'[q] = told[q] /\ seen'[q] = seen[q] /\ read'[q] = read[q]
                 /\ todo'[q] = todo[q] /\ move'[q] = move[q] /\ new'[q] = new[q]
                 /\ fresh'[q] = fresh[q] \ ls
BY DEF MemTyped, Walls!End, Walls!Go, Walls!Forget, Walls!Lapse

\* A step of a request leaves to the others what they have at hand; only the etags of what
\* it writes are out of date.
LEMMA OthersLeft ==
    ASSUME NEW c, MemTyped(c), NEW r \in c.requests, Walls(c)!Step(r),
           NEW q \in c.requests, q # r
    PROVE  /\ firewallAt'[q] = firewallAt[q] /\ firewallOp'[q] = firewallOp[q]
           /\ told'[q] = told[q] /\ seen'[q] = seen[q] /\ read'[q] = read[q]
           /\ todo'[q] = todo[q] /\ move'[q] = move[q] /\ new'[q] = new[q]
           /\ fresh'[q] \subseteq fresh[q]
<1> DEFINE Left == /\ firewallAt'[q] = firewallAt[q] /\ firewallOp'[q] = firewallOp[q]
                   /\ told'[q] = told[q] /\ seen'[q] = seen[q] /\ read'[q] = read[q]
                   /\ todo'[q] = todo[q] /\ move'[q] = move[q] /\ new'[q] = new[q]
                   /\ fresh'[q] \subseteq fresh[q]
<1>1. ASSUME NEW what, NEW ls, Walls(c)!End(r, what), Walls(c)!Lapse(r, ls)
      PROVE  Left
  BY <1>1, EndEffect
<1>2. CASE Walls(c)!Begin(r)
  BY <1>2 DEF MemTyped, Walls!Begin, Walls!mem
<1>3. CASE Walls(c)!Fails(r)
  BY <1>1, <1>3, Zenon DEF Walls!Fails
<1>4. CASE Walls(c)!Resolve(r)
  BY <1>1, <1>4, Zenon DEF MemTyped, Walls!Resolve, Walls!Go
<1>5. CASE Walls(c)!Scan(r)
  <2>1. \/ \E what : Walls(c)!End(r, what) /\ Walls(c)!Lapse(r, {})
        \/ /\ Walls(c)!Go(r, "list") /\ \E what : told' = [told EXCEPT ![r] = what]
           /\ UNCHANGED <<firewallOp, Walls(c)!mem>>
    BY <1>5 DEF Walls!Scan
  <2> QED BY <1>1, <2>1 DEF MemTyped, Walls!Go, Walls!mem
<1>6. CASE Walls(c)!ReadList(r)
  <2>1. \/ \E what : Walls(c)!End(r, what) /\ Walls(c)!Lapse(r, {})
        \/ /\ Walls(c)!Go(r, "write") /\ \E l, xs : read' = [read EXCEPT ![r][l] = xs]
           /\ \E ls : fresh' = [fresh EXCEPT ![r] = ls]
           /\ UNCHANGED <<firewallOp, seen, todo, move, new, told>>
    BY <1>6, Zenon DEF Walls!ReadList
  <2> QED BY <1>1, <2>1 DEF MemTyped, Walls!Go
<1>7. CASE Walls(c)!WriteList(r)
  <2>1. \E what, ls : Walls(c)!End(r, what) /\ Walls(c)!Lapse(r, ls)
    BY <1>7, Zenon DEF Walls!WriteList, Walls!Put
  <2> QED BY <1>1, <2>1
<1>8. CASE Walls(c)!ReadLists(r)
  BY <1>1, <1>8, Zenon DEF MemTyped, Walls!ReadLists, Walls!Go
<1>9. CASE Walls(c)!Precheck(r)
  BY <1>1, <1>9, Zenon DEF MemTyped, Walls!Precheck, Walls!Go, Walls!mem
<1>10. CASE Walls(c)!Tighten(r)
  <2>1. \/ \E what, ls : Walls(c)!End(r, what) /\ Walls(c)!Lapse(r, ls)
        \/ /\ \E l, ls : /\ todo' = [todo EXCEPT ![r] = ls]
                         /\ fresh' = [p \in c.requests |-> fresh[p] \ {l}]
           /\ UNCHANGED <<firewallAt, firewallOp, seen, read, move, new, told>>
    BY <1>10, Zenon DEF Walls!Tighten
  <2> QED BY <1>1, <2>1 DEF MemTyped
<1>11. CASE Walls(c)!Make(r)
  BY <1>11 DEF MemTyped, Walls!Make, Walls!Go, Walls!mem
<1>12. CASE Walls(c)!Attach(r)
  BY <1>1, <1>12, Zenon DEF MemTyped, Walls!Attach, Walls!Go
<1>13. CASE Walls(c)!Again(r)
  BY <1>1, <1>13, Zenon DEF MemTyped, Walls!Again, Walls!Go
<1>14. CASE Walls(c)!Move(r)
  BY <1>1, <1>14, Zenon DEF MemTyped, Walls!Move, Walls!Go, Walls!mem
<1>15. ASSUME NEW g, NEW ok, Walls(c)!Next1(r, g, ok)
       PROVE  Left
  <2>1. \/ \E what : Walls(c)!End(r, what) /\ Walls(c)!Lapse(r, {})
        \/ /\ Walls(c)!Go(r, "empty") /\ \E xs : todo' = [todo EXCEPT ![r] = xs]
           /\ \E what : told' = [told EXCEPT ![r] = what]
           /\ UNCHANGED <<firewallOp, seen, read, fresh, move, new>>
    BY <1>15 DEF Walls!Next1
  <2> QED BY <1>1, <2>1 DEF MemTyped, Walls!Go
<1>16. CASE Walls(c)!Empty(r)
  <2>1. \/ \E g, ok : Walls(c)!Next1(r, g, ok)
        \/ Walls(c)!Go(r, "fill") /\ UNCHANGED <<firewallOp, Walls(c)!mem, told, edits>>
    BY <1>16, Zenon DEF Walls!Empty
  <2> QED BY <1>15, <2>1 DEF MemTyped, Walls!Go, Walls!mem
<1>17. CASE Walls(c)!Fill(r)
  BY <1>15, <1>17 DEF Walls!Fill
<1> QED BY <1>2, <1>3, <1>4, <1>5, <1>6, <1>7, <1>8, <1>9, <1>10, <1>11, <1>12, <1>13, <1>14,
           <1>16, <1>17 DEF Walls!Step

\* A list whose etag still matches is as it was read.
FreshRead(c) == \A r \in c.requests : \A l \in fresh[r] : lists[l] = read[r][l]

LEMMA FreshStep ==
    ASSUME NEW c, WallsTyped(c), WallsOf(c), Walls(c)!FirewallAssumption, FreshRead(c),
           Walls(c)!Next
    PROVE  FreshRead(c)'
<1>1. NetTyped(c) /\ MemTyped(c)
  BY DEF WallsTyped
<1>2. ASSUME NEW r \in c.requests, Walls(c)!Step(r)
      PROVE  FreshRead(c)'
  <2>1. ASSUME NEW what, NEW ls, Walls(c)!End(r, what), Walls(c)!Lapse(r, ls),
               \A m \in Lists \ ls : lists'[m] = lists[m]
        PROVE  FreshRead(c)'
    <3>1. /\ fresh'[r] = {}
          /\ \A q \in c.requests \ {r} : fresh'[q] = fresh[q] \ ls /\ read'[q] = read[q]
      BY <1>1, <2>1, EndEffect
    <3>2. \A q \in c.requests : fresh[q] \subseteq Lists
      BY <1>1 DEF MemTyped
    <3> QED BY <2>1, <3>1, <3>2 DEF FreshRead
  <2>2. ASSUME lists' = lists, fresh'[r] \subseteq fresh[r], read'[r] = read[r]
        PROVE  FreshRead(c)'
    BY <1>1, <1>2, <2>2, OthersLeft DEF FreshRead
  <2>3. CASE Walls(c)!ReadList(r)
    <3>1. CASE \E what : Walls(c)!End(r, what) /\ Walls(c)!Lapse(r, {})
      BY <2>1, <2>3, <3>1 DEF Walls!ReadList, Walls!net
    <3>2. CASE /\ read' = [read EXCEPT ![r][Walls(c)!Target(r)] = lists[Walls(c)!Target(r)]]
               /\ fresh' = [fresh EXCEPT ![r] = {Walls(c)!Target(r)}]
      <4>1. Walls(c)!Target(r) \in Walls(c)!MyLists(r) /\ firewallOp[r].inst \in c.insts
        BY <1>1, <2>3, Zenon DEF MemTyped, Fit, Walls!ReadList, WallsOf
      <4>2. Walls(c)!Target(r) \in Lists
        BY <4>1 DEF Walls!FirewallAssumption, Walls!MyLists
      <4>3. lists' = lists
        BY <2>3 DEF Walls!ReadList, Walls!net
      <4>4. \A l \in fresh'[r] : lists'[l] = read'[r][l]
        BY <1>1, <3>2, <4>2, <4>3 DEF MemTyped
      <4> QED BY <1>1, <1>2, <4>3, <4>4, OthersLeft DEF FreshRead
    <3> QED BY <2>3, <3>1, <3>2 DEF Walls!ReadList
  <2>4. CASE Walls(c)!WriteList(r)
    <3>1. \E what : Walls(c)!End(r, what)
      BY <2>4, Zenon DEF Walls!WriteList
    <3>2. Walls(c)!Lapse(r, {Walls(c)!Target(r)})
      BY <2>4, Zenon DEF Walls!WriteList, Walls!Put
    <3>3. \A m \in Lists \ {Walls(c)!Target(r)} : lists'[m] = lists[m]
      BY <1>1, <2>4, Zenon DEF Walls!WriteList, Walls!Put, NetTyped
    <3> QED BY <2>1, <3>1, <3>2, <3>3
  <2>5. CASE Walls(c)!ReadLists(r)
    <3>1. CASE \E what : Walls(c)!End(r, what) /\ Walls(c)!Lapse(r, {})
      BY <2>1, <2>5, <3>1, Zenon DEF Walls!ReadLists, Walls!net
    <3>2. ASSUME NEW targets,
                 read' = [read EXCEPT ![r] = [l \in Lists |-> IF l \in targets THEN lists[l] ELSE {}]],
                 fresh' = [fresh EXCEPT ![r] = targets], fresh'[r] \subseteq Lists
          PROVE  FreshRead(c)'
      <4>1. lists' = lists
        BY <2>5, Zenon DEF Walls!ReadLists, Walls!net
      <4>2. fresh'[r] = targets
        BY <1>1, <3>2 DEF MemTyped
      <4>3. \A l \in fresh'[r] : lists'[l] = read'[r][l]
        BY <1>1, <3>2, <4>1, <4>2 DEF MemTyped
      <4> QED BY <1>1, <1>2, <4>1, <4>3, OthersLeft DEF FreshRead
    <3>3. fresh'[r] \subseteq Lists
      BY WallsTypeStep DEF WallsTyped, MemTyped
    <3> QED BY <2>5, <3>1, <3>2, <3>3, Zenon DEF Walls!ReadLists
  <2>6. CASE Walls(c)!Tighten(r)
    <3>1. PICK l \in todo[r] \cap fresh[r] :
            /\ lists' = [lists EXCEPT ![l] = Walls(c)!Tightened(l, read[r][l])]
            /\ \/ /\ todo[r] # {l}
                  /\ todo' = [todo EXCEPT ![r] = @ \ {l}]
                  /\ fresh' = [q \in c.requests |-> fresh[q] \ {l}]
                  /\ UNCHANGED <<firewallAt, firewallOp, seen, read, move, new, told, edits>>
               \/ todo[r] = {l} /\ Walls(c)!End(r, "tight") /\ Walls(c)!Lapse(r, {l})
               \/ Walls(c)!End(r, "") /\ Walls(c)!Lapse(r, {l})
      BY <2>6, Zenon DEF Walls!Tighten
    <3>2. \A m \in Lists \ {l} : lists'[m] = lists[m]
      <4>1. lists' = [lists EXCEPT ![l] = Walls(c)!Tightened(l, read[r][l])]
        BY <3>1, Zenon
      <4> HIDE <3>1
      <4> QED BY <1>1, <4>1 DEF NetTyped
    <3>3. CASE \E what : Walls(c)!End(r, what) /\ Walls(c)!Lapse(r, {l})
      BY <2>1, <3>2, <3>3
    <3>4. CASE fresh' = [q \in c.requests |-> fresh[q] \ {l}] /\ read' = read
      <4>1. \A q \in c.requests : fresh'[q] = fresh[q] \ {l} /\ fresh[q] \subseteq Lists
        BY <1>1, <3>4 DEF MemTyped
      <4> QED BY <3>2, <3>4, <4>1 DEF FreshRead
    <3> QED BY <3>1, <3>3, <3>4, Zenon
  <2>7. CASE \/ Walls(c)!Begin(r) \/ Walls(c)!Precheck(r) \/ Walls(c)!Make(r)
             \/ Walls(c)!Move(r)
    <3>1. lists' = lists
      BY <2>7, Zenon DEF Walls!Begin, Walls!Precheck, Walls!Make, Walls!Move, Walls!net
    <3>2. \/ \E what : Walls(c)!End(r, what) /\ Walls(c)!Lapse(r, {})
          \/ UNCHANGED <<fresh, read>>
      BY <2>7, Zenon DEF Walls!Begin, Walls!Precheck, Walls!Make, Walls!Move, Walls!mem
    <3> QED BY <2>1, <2>2, <3>1, <3>2
  <2>8. CASE \/ Walls(c)!Fails(r) \/ Walls(c)!Resolve(r) \/ Walls(c)!Again(r) \/ Walls(c)!Attach(r)
    <3>1. lists' = lists
      BY <2>8, Zenon DEF Walls!Fails, Walls!Resolve, Walls!Again, Walls!Attach, Walls!net
    <3>2. \/ \E what : Walls(c)!End(r, what) /\ Walls(c)!Lapse(r, {})
          \/ UNCHANGED <<fresh, read>>
      BY <2>8, Zenon DEF Walls!Fails, Walls!Resolve, Walls!Again, Walls!Attach
    <3> QED BY <2>1, <2>2, <3>1, <3>2
  <2>9. CASE Walls(c)!Scan(r) \/ Walls(c)!Empty(r) \/ Walls(c)!Fill(r)
    <3>1. lists' = lists
      BY <2>9, Zenon DEF Walls!Scan, Walls!Empty, Walls!Fill, Walls!net
    <3>2. \/ \E what : Walls(c)!End(r, what) /\ Walls(c)!Lapse(r, {})
          \/ UNCHANGED <<fresh, read>>
      BY <2>9, Zenon DEF Walls!Scan, Walls!Empty, Walls!Fill, Walls!Next1, Walls!mem
    <3> QED BY <2>1, <2>2, <3>1, <3>2
  <2> QED BY <1>2, <2>3, <2>4, <2>5, <2>6, <2>7, <2>8, <2>9 DEF Walls!Step
<1>3. CASE Walls(c)!EditList
  <2>1. PICK l \in Lists, x \in c.rules :
          /\ lists' = [lists EXCEPT ![l] = IF x \in @ THEN @ \ {x} ELSE @ \cup {x}]
          /\ fresh' = [q \in c.requests |-> fresh[q] \ {l}]
    BY <1>3, Zenon DEF Walls!EditList
  <2>2. read' = read
    BY <1>3 DEF Walls!EditList
  <2>3. \A m \in Lists \ {l} : lists'[m] = lists[m]
    BY <1>1, <2>1 DEF NetTyped
  <2>4. \A q \in c.requests : fresh'[q] = fresh[q] \ {l} /\ fresh[q] \subseteq Lists
    BY <1>1, <2>1 DEF MemTyped
  <2> QED BY <2>2, <2>3, <2>4 DEF FreshRead
<1>4. CASE Walls(c)!EditGroup
  BY <1>4 DEF FreshRead, Walls!EditGroup, Walls!mem
<1> QED BY <1>2, <1>3, <1>4 DEF Walls!Next

\* The step that writes a list is of a request that was asked to.
LEMMA NothingLost ==
    ASSUME NEW c, WallsTyped(c), WallsOf(c), Walls(c)!FirewallAssumption, FreshRead(c),
           Walls(c)!Next
    PROVE  Walls(c)!NoLostUpdate
<1> SUFFICES ASSUME NEW r \in c.requests, NEW l \in Lists, Walls(c)!Writes(r, l)
             PROVE  /\ \A x \in lists[l] \ lists'[l] :
                         /\ x \in read[r][l]
                         /\ \/ firewallOp[r].kind = "delete" /\ x \in firewallOp[r].rules
                            \/ firewallOp[r].kind = "clear"
                            \/ firewallOp[r].kind \in Walls(c)!SubnetKinds /\ Walls(c)!OpensPublic(x)
                    /\ \A x \in lists'[l] \ lists[l] :
                         \/ firewallOp[r].kind = "add" /\ x \in firewallOp[r].rules
                         \/ firewallOp[r].kind = "cdn" /\ x = Walls(c)!Cdn
                         \/ /\ firewallOp[r].kind \in Walls(c)!SubnetKinds
                            /\ x = Walls(c)!Baseline /\ l \in Mine
  BY DEF Walls!NoLostUpdate
<1>1. /\ NetTyped(c) /\ MemTyped(c) /\ Fit(c, r)
      /\ firewallAt[r] \in {"write", "tighten"} /\ lists'[l] # lists[l]
      /\ ~(firewallAt'[r] = firewallAt[r] /\ todo'[r] = todo[r])
  BY DEF WallsTyped, MemTyped, Walls!Writes
<1>2. Walls(c)!Step(r)
  <2>1. ASSUME NEW q \in c.requests, Walls(c)!Step(q)
        PROVE  q = r
    BY <1>1, <2>1, OthersLeft
  <2>2. ~Walls(c)!EditList /\ ~Walls(c)!EditGroup
    BY <1>1 DEF Walls!EditList, Walls!EditGroup, Walls!mem
  <2> QED BY <2>1, <2>2 DEF Walls!Next
<1>3. Walls(c)!WriteList(r) \/ Walls(c)!Tighten(r)
  <2>1. /\ ~Walls(c)!Begin(r) /\ ~Walls(c)!Resolve(r) /\ ~Walls(c)!Scan(r) /\ ~Walls(c)!ReadList(r)
        /\ ~Walls(c)!ReadLists(r) /\ ~Walls(c)!Precheck(r) /\ ~Walls(c)!Make(r)
        /\ ~Walls(c)!Attach(r) /\ ~Walls(c)!Again(r) /\ ~Walls(c)!Move(r) /\ ~Walls(c)!Empty(r)
        /\ ~Walls(c)!Fill(r)
    BY <1>1, Zenon DEF Walls!Begin, Walls!Resolve, Walls!Scan, Walls!ReadList, Walls!ReadLists,
       Walls!Precheck, Walls!Make, Walls!Attach, Walls!Again, Walls!Move, Walls!Empty, Walls!Fill
  <2>2. ~Walls(c)!Fails(r)
    BY <1>1, Zenon DEF Walls!Fails, Walls!net
  <2> QED BY <1>2, <2>1, <2>2 DEF Walls!Step
<1>4. CASE Walls(c)!WriteList(r)
  <2> DEFINE target == Walls(c)!Target(r)
  <2>1. /\ target \in fresh[r] /\ firewallAt[r] = "write"
        /\ \/ lists' = lists
           \/ lists' = [lists EXCEPT ![target] = Walls(c)!Changed(r, read[r][target])]
    BY <1>4, Zenon DEF Walls!WriteList, Walls!Put
  <2>2. read[r][target] = lists[target] /\ firewallOp[r].kind \in Walls(c)!ListKinds
    BY <1>1, <2>1 DEF FreshRead, Fit
  <2> HIDE DEF target
  <2>3. l = target /\ lists'[l] = Walls(c)!Changed(r, lists[l]) /\ read[r][l] = lists[l]
    BY <1>1, <2>1, <2>2 DEF NetTyped
  <2> QED BY <2>2, <2>3 DEF Walls!Changed, Walls!ListKinds
<1>5. CASE Walls(c)!Tighten(r)
  <2>1. PICK m \in todo[r] \cap fresh[r] :
          lists' = [lists EXCEPT ![m] = Walls(c)!Tightened(m, read[r][m])]
    BY <1>5, Zenon DEF Walls!Tighten
  <2>2. firewallAt[r] = "tighten" /\ firewallOp[r].kind \in Walls(c)!SubnetKinds
    BY <1>1, <1>5, Zenon DEF Walls!Tighten, Fit
  <2>3. read[r][m] = lists[m]
    BY <2>1 DEF FreshRead
  <2>4. l = m /\ lists'[l] = Walls(c)!Tightened(l, lists[l]) /\ read[r][l] = lists[l]
    BY <1>1, <2>1, <2>3 DEF NetTyped
  <2>5. /\ \A x \in lists[l] \ lists'[l] : Walls(c)!OpensPublic(x)
        /\ \A x \in lists'[l] \ lists[l] : x = Walls(c)!Baseline /\ l \in Mine
    BY <2>4, Zenon DEF Walls!Tightened, Walls!Drop
  <2> QED BY <2>2, <2>4, <2>5
<1> QED BY <1>3, <1>4, <1>5

\* What a request has read of a firewall that nobody else changes.
TellsRight(c, r) ==
    /\ firewallAt[r] \notin {"list", "write", "empty", "fill", "end"} => told[r] = ""
    /\ firewallAt[r] \in {"scan", "list", "write"} =>
          seen[r] = Walls(c)!FirewallOf(firewallOp[r].inst, {})
    /\ firewallAt[r] \in {"list", "write"} =>
          /\ told[r] \in {"", "warned", "quiet"}
          /\ firewallOp[r].kind = "cdn" /\ told[r] = "quiet" =>
                \A x \in Walls(c)!Effective(firewallOp[r].inst) : Walls(c)!Scope(x, "80") # "public"
    /\ firewallAt[r] \in {"empty", "fill"} =>
          /\ seen[r].unread = {}
          /\ seen[r].lists = Walls(c)!FirewallOf(firewallOp[r].inst, {}).lists
          /\ todo[r] \subseteq nic[firewallOp[r].inst]
          /\ told[r] \in {"", "part"}

\* What was read is what reaches the instance.
LEMMA SeenIsEffective ==
    ASSUME NEW c, NetTyped(c), Walls(c)!FirewallAssumption, NEW i \in c.insts,
           NEW f, f = Walls(c)!FirewallOf(i, {})
    PROVE  /\ f.unread = {} /\ DOMAIN f.rules = nic[i]
           /\ \A x : (\E l \in Lists : x \in f.lists[l]) <=>
                        \E l \in ListsOf[c.subnetOf[i]] : x \in lists[l]
           /\ \A g \in nic[i] : f.rules[g] = rules[g]
           /\ \A l \in Lists : f.lists[l] = IF l \in ListsOf[c.subnetOf[i]] THEN lists[l] ELSE {}
<1>1. ListsOf[c.subnetOf[i]] \subseteq Lists
  BY DEF Walls!FirewallAssumption
<1> QED BY <1>1 DEF Walls!FirewallOf

LEMMA EffectiveIs ==
    ASSUME NEW c, NEW i, NEW x
    PROVE  /\ x \in Walls(c)!Effective(i) <=>
                 \/ \E l \in ListsOf[c.subnetOf[i]] : x \in lists[l]
                 \/ \E g \in nic[i] : x \in rules[g]
           /\ x \in Walls(c)!Effective(i)' <=>
                 \/ \E l \in ListsOf[c.subnetOf[i]] : x \in lists'[l]
                 \/ \E g \in nic'[i] : x \in rules'[g]
BY DEF Walls!Effective

\* What of the three claims a request makes at its end.
Claims(c, r) ==
    /\ told'[r] = "shut" => Walls(c)!Effective(firewallOp[r].inst)' = {}
    /\ told'[r] \in {"wide", "opened"} =>
          \E x \in Walls(c)!Effective(firewallOp[r].inst)' : Walls(c)!WideOpen(x)
    /\ firewallOp[r].kind = "cdn" /\ told'[r] = "quiet" =>
          ~ \E x \in Walls(c)!Effective(firewallOp[r].inst)' : Walls(c)!Scope(x, "80") = "public"
    /\ told'[r] = "ssh" => Walls(c)!SshOpen(firewallOp[r].inst)'

\* SSH is said to be reachable for a rule of a list.
LEMMA SshHolds ==
    ASSUME NEW c, NetTyped(c), Walls(c)!FirewallAssumption, NEW i \in c.insts,
           \A x \in c.rules : ~x.source, NEW f,
           f.unread = {}, f.lists = Walls(c)!FirewallOf(i, {}).lists, Walls(c)!SshAfter(f)
    PROVE  Walls(c)!SshOpen(i)
<1>a. PICK x \in UNION {f.lists[l] : l \in Lists} : Walls(c)!Scope(x, "22") = "public"
  BY DEF Walls!SshAfter
<1>1. PICK l \in Lists : x \in f.lists[l]
  OBVIOUS
<1>2. PICK m \in ListsOf[c.subnetOf[i]] : x \in lists[m]
  BY <1>1, SeenIsEffective
<1>3. x \in AnyRule(c)
  <2>1. m \in Lists
    BY DEF Walls!FirewallAssumption
  <2> QED BY <1>2, <2>1 DEF NetTyped
<1>4. ~x.source
  BY <1>3 DEF AnyRule, Walls!Baseline, Walls!Cdn, Walls!Everything
<1>5. x \in Walls(c)!Effective(i)
  BY <1>2, EffectiveIs
<1> QED BY <1>a, <1>4, <1>5 DEF Walls!SshOpen

\* The list and what was read besides are all that reaches the instance.
LEMMA ScanSees ==
    ASSUME NEW c, WallsTyped(c), WallsOf(c), Walls(c)!FirewallAssumption,
           NEW r \in c.requests, TellsRight(c, r), firewallAt[r] = "scan",
           \A x \in lists[Walls(c)!Target(r)]
                    \cup ((UNION {seen[r].lists[m]: m \in Lists \ {Walls(c)!Target(r)}})
                          \cup Walls(c)!SeenRules(r)) : Walls(c)!Scope(x, "80") # "public",
           NEW y \in Walls(c)!Effective(firewallOp[r].inst)
    PROVE  Walls(c)!Scope(y, "80") # "public"
<1> DEFINE i == firewallOp[r].inst
           target == Walls(c)!Target(r)
           others == (UNION {seen[r].lists[m]: m \in Lists \ {target}}) \cup Walls(c)!SeenRules(r)
<1>1. /\ NetTyped(c) /\ i \in c.insts /\ seen[r] = Walls(c)!FirewallOf(i, {})
      /\ target \in Walls(c)!MyLists(r)
  BY Zenon DEF WallsTyped, MemTyped, Fit, WallsOf, TellsRight
<1>2. \A x \in lists[target] \cup others : Walls(c)!Scope(x, "80") # "public"
  OBVIOUS
<1>3. \/ \E l \in ListsOf[c.subnetOf[i]] : y \in lists[l]
      \/ \E g \in nic[i] : y \in rules[g]
  BY EffectiveIs
<1>4. CASE \E l \in ListsOf[c.subnetOf[i]] : y \in lists[l]
  <2>1. PICK l \in ListsOf[c.subnetOf[i]] : y \in lists[l]
    BY <1>4
  <2>2. l \in Lists
    BY <1>1 DEF Walls!FirewallAssumption
  <2>3. seen[r].lists[l] = lists[l]
    BY <1>1, <2>2, SeenIsEffective
  <2> QED BY <1>2, <2>1, <2>2, <2>3
<1>5. CASE \E g \in nic[i] : y \in rules[g]
  <2>1. PICK g \in nic[i] : y \in rules[g]
    BY <1>5
  <2>2. g \in DOMAIN seen[r].rules /\ seen[r].rules[g] = rules[g]
    BY <1>1, SeenIsEffective
  <2>3. y \in Walls(c)!SeenRules(r)
    BY <2>1, <2>2 DEF Walls!SeenRules, Walls!SeenGroups
  <2> QED BY <1>2, <2>3
<1> QED BY <1>3, <1>4, <1>5

\* What is claimed at the end of a request is so.
LEMMA ToldAtEnd ==
    ASSUME NEW c, WallsTyped(c), WallsOf(c), Walls(c)!FirewallAssumption, FreshRead(c),
           \A x \in c.rules : ~x.source, NEW r \in c.requests, TellsRight(c, r),
           Walls(c)!Step(r), firewallAt[r] # "end", firewallAt'[r] = "end"
    PROVE  Claims(c, r)
<1> DEFINE target == Walls(c)!Target(r)
<1>i. PICK i : i = firewallOp[r].inst
  OBVIOUS
<1>1. NetTyped(c) /\ MemTyped(c) /\ Fit(c, r)
  BY DEF WallsTyped, MemTyped
<1>a. ASSUME NEW step, Walls(c)!Go(r, step)
      PROVE  step = "end"
  BY <1>1, <1>a DEF MemTyped, Walls!Go
<1>b. ASSUME NEW what, NEW ls, Walls(c)!End(r, what), Walls(c)!Lapse(r, ls)
      PROVE  told'[r] = what /\ firewallOp'[r] = firewallOp[r]
  BY <1>1, <1>b, EndEffect
<1>c. ASSUME NEW what, NEW ls, Walls(c)!End(r, what), Walls(c)!Lapse(r, ls),
             what \notin {"shut", "wide", "opened", "quiet", "ssh"}
      PROVE  Claims(c, r)
  BY <1>i, <1>b, <1>c DEF Claims
<1>2. CASE Walls(c)!Begin(r)
  BY <1>a, <1>2 DEF Walls!Begin, MemTyped, Walls!Go
<1>3. CASE Walls(c)!Fails(r)
  BY <1>c, <1>3, Zenon DEF Walls!Fails
<1>d. firewallAt[r] # "idle" => i \in c.insts
  BY <1>1, <1>i DEF Fit, WallsOf
<1>4. CASE Walls(c)!Resolve(r)
  <2>1. firewallAt[r] = "resolve" /\ UNCHANGED <<lists, rules, nic>>
    BY <1>4, Zenon DEF Walls!Resolve, Walls!net
  <2>2. PICK lost \in Walls(c)!Losses :
          LET f == Walls(c)!FirewallOf(i, lost \cap Walls(c)!MyLists(r))
          IN  IF Walls(c)!AfterRead(r, f) = "end"
              THEN /\ Walls(c)!End(r, IF firewallOp[r].kind # "wipe" THEN "" ELSE
                             IF Walls(c)!SshAfter(f) THEN "ssh" ELSE "no ssh")
                   /\ Walls(c)!Lapse(r, {})
              ELSE Walls(c)!Go(r, Walls(c)!AfterRead(r, f))
    BY <1>i, <1>4, Zenon DEF Walls!Resolve
  <2> DEFINE f0 == Walls(c)!FirewallOf(i, lost \cap Walls(c)!MyLists(r))
  <2>3. lost = {}
    BY DEF Walls!Losses
  <2>4. f0 = Walls(c)!FirewallOf(i, {})
    <3>1. lost \cap Walls(c)!MyLists(r) = {}
      BY <2>3
    <3> QED BY <3>1
  <2>5. f0.unread = {} /\ f0.lists = Walls(c)!FirewallOf(i, {}).lists
    BY <1>1, <1>d, <2>1, <2>4, SeenIsEffective
  <2> HIDE DEF f0
  <2>6. CASE ~Walls(c)!SshAfter(f0) \/ firewallOp[r].kind # "wipe"
    <3>1. PICK what \in {"", "no ssh"} : Walls(c)!End(r, what) /\ Walls(c)!Lapse(r, {})
      BY <1>a, <2>2, <2>6, Zenon DEF f0
    <3> QED BY <1>c, <3>1, Zenon
  <2>7. CASE Walls(c)!SshAfter(f0) /\ firewallOp[r].kind = "wipe"
    <3>1. Walls(c)!End(r, "ssh") /\ Walls(c)!Lapse(r, {})
      BY <1>a, <2>2, <2>7 DEF f0
    <3>2. Walls(c)!SshOpen(i)
      BY <1>1, <1>d, <2>1, <2>5, <2>7, SshHolds
    <3>3. Walls(c)!Effective(i)' = Walls(c)!Effective(i)
      BY <2>1 DEF Walls!Effective
    <3>4. Walls(c)!SshOpen(i)'
      <4>1. firewallOp'[r] = firewallOp[r] /\ told'[r] = "ssh"
        BY <1>b, <3>1
      <4> QED BY <3>2, <3>3, <4>1 DEF Walls!SshOpen
    <3>5. told'[r] = "ssh" /\ firewallOp'[r] = firewallOp[r]
      BY <1>b, <3>1
    <3> QED BY <1>i, <3>4, <3>5 DEF Claims
  <2> QED BY <2>6, <2>7
<1>5. CASE Walls(c)!Scan(r)
  <2> DEFINE others == (UNION {seen[r].lists[m]: m \in Lists \ {target}}) \cup Walls(c)!SeenRules(r)
             says == IF \E x \in lists[target] \cup others : Walls(c)!Scope(x, "80") = "public"
                     THEN "warned" ELSE "quiet"
  <2>1. firewallAt[r] = "scan" /\ UNCHANGED <<lists, rules, nic>>
    BY <1>5 DEF Walls!Scan, Walls!net
  <2>2. Walls(c)!End(r, says) /\ Walls(c)!Lapse(r, {})
    BY <1>5, <1>a DEF Walls!Scan
  <2>5. Walls(c)!Effective(i)' = Walls(c)!Effective(i)
    BY <2>1 DEF Walls!Effective
  <2>6. told'[r] = says /\ firewallOp'[r] = firewallOp[r]
    BY <1>b, <2>2
  <2>7. says = "quiet" => \A x \in Walls(c)!Effective(i) : Walls(c)!Scope(x, "80") # "public"
    BY <1>i, <2>1, ScanSees
  <2>8. says \in {"warned", "quiet"}
    OBVIOUS
  <2> HIDE DEF says
  <2> QED BY <1>i, <2>5, <2>6, <2>7, <2>8 DEF Claims
<1>6. CASE Walls(c)!ReadList(r)
  <2>1. firewallAt[r] = "list" /\ UNCHANGED <<lists, rules, nic>>
    BY <1>6 DEF Walls!ReadList, Walls!net
  <2>2. Walls(c)!End(r, told[r]) /\ Walls(c)!Lapse(r, {})
    BY <1>6, <1>a DEF Walls!ReadList
  <2>3. told'[r] = told[r] /\ firewallOp'[r] = firewallOp[r] /\ told[r] \in {"", "warned", "quiet"}
    BY <1>i, <1>b, <2>1, <2>2, Zenon DEF TellsRight
  <2>4. Walls(c)!Effective(i)' = Walls(c)!Effective(i)
    BY <2>1 DEF Walls!Effective
  <2> QED BY <1>i, <2>1, <2>3, <2>4, Zenon DEF Claims, TellsRight
<1>7. CASE Walls(c)!WriteList(r)
  <2> DEFINE xs == Walls(c)!Changed(r, read[r][target])
  <2>1. /\ firewallAt[r] = "write" /\ UNCHANGED <<rules, nic>> /\ target \in fresh[r]
        /\ IF firewallOp[r].kind = "open" THEN UNCHANGED lists
           ELSE lists' = [lists EXCEPT ![target] = xs]
    BY <1>7, Zenon DEF Walls!WriteList, Walls!Put
  <2>2. PICK answered \in BOOLEAN :
           Walls(c)!End(r, IF ~answered THEN ""
                   ELSE IF firewallOp[r].kind \in {"delete", "clear"}
                        THEN Walls(c)!Verdict(r, target, xs) ELSE told[r])
    BY <1>7, Zenon DEF Walls!WriteList
  <2>3. \E ls : Walls(c)!Lapse(r, ls)
    BY <1>7, Zenon DEF Walls!WriteList, Walls!Put
  <2>4. /\ told'[r] = IF ~answered THEN ""
                      ELSE IF firewallOp[r].kind \in {"delete", "clear"}
                           THEN Walls(c)!Verdict(r, target, xs) ELSE told[r]
        /\ firewallOp'[r] = firewallOp[r]
    BY <1>b, <2>2, <2>3, Zenon
  <2>5. /\ seen[r] = Walls(c)!FirewallOf(i, {}) /\ i \in c.insts
        /\ target \in ListsOf[c.subnetOf[i]] /\ target \in Lists
        /\ read[r][target] = lists[target] /\ told[r] \in {"", "warned", "quiet"}
    <3>1. target \in Walls(c)!MyLists(r) /\ i \in c.insts
      BY <1>i, <1>1, <1>d, <2>1 DEF Fit
    <3>2. target \in ListsOf[c.subnetOf[i]] /\ target \in Lists
      BY <1>i, <3>1 DEF Walls!MyLists, Walls!FirewallAssumption
    <3> QED BY <1>i, <1>1, <2>1, <3>1, <3>2, Zenon DEF TellsRight, FreshRead
  <2> HIDE DEF xs, target
  <2>6. CASE ~answered
    <3>1. told'[r] = ""
      BY <2>4, <2>6, Zenon
    <3> QED BY <1>i, <3>1, Zenon DEF Claims
  <2>7. CASE answered /\ firewallOp[r].kind \in {"delete", "clear"}
    <3> DEFINE rest == xs \cup (UNION {seen[r].lists[m]: m \in Lists \ {target}})
                          \cup Walls(c)!SeenRules(r)
    <3>1. told'[r] = IF rest = {} THEN "shut"
                     ELSE IF \E x \in rest : Walls(c)!WideOpen(x) THEN "wide" ELSE "others"
      BY <2>4, <2>7 DEF Walls!Verdict
    <3>2. \A l \in Lists : lists'[l] = IF l = target THEN xs ELSE lists[l]
      BY <1>1, <2>1, <2>7 DEF NetTyped
    <3>3. ASSUME NEW x
          PROVE  x \in Walls(c)!Effective(i)' <=> x \in rest
      <4>1. x \in Walls(c)!Effective(i)' <=>
               \/ \E l \in ListsOf[c.subnetOf[i]] : x \in lists'[l]
               \/ \E g \in nic[i] : x \in rules[g]
        BY <2>1, EffectiveIs
      <4>2. x \in Walls(c)!SeenRules(r) <=> \E g \in nic[i] : x \in rules[g]
        <5>0. seen[r] = Walls(c)!FirewallOf(i, {}) /\ i \in c.insts /\ NetTyped(c)
          BY <1>1, <2>5, Zenon
        <5>1. DOMAIN seen[r].rules = nic[i] /\ \A g \in nic[i] : seen[r].rules[g] = rules[g]
          BY <5>0, SeenIsEffective
        <5>2. Walls(c)!SeenRules(r) = UNION {seen[r].rules[g] : g \in nic[i]}
          BY <5>1 DEF Walls!SeenRules, Walls!SeenGroups
        <5> QED BY <5>1, <5>2
      <4>3. (\E l \in ListsOf[c.subnetOf[i]] : x \in lists'[l]) <=>
               \/ x \in xs
               \/ \E m \in Lists \ {target} : x \in seen[r].lists[m]
        <5>1. ListsOf[c.subnetOf[i]] \subseteq Lists
          BY <2>5, Zenon DEF Walls!FirewallAssumption
        <5>0. seen[r] = Walls(c)!FirewallOf(i, {}) /\ i \in c.insts /\ NetTyped(c)
          BY <1>1, <2>5, Zenon
        <5>2. \A l \in Lists : seen[r].lists[l] = IF l \in ListsOf[c.subnetOf[i]] THEN lists[l] ELSE {}
          BY <5>0, SeenIsEffective
        <5>3. lists'[target] = xs /\ \A l \in Lists \ {target} : lists'[l] = lists[l]
          BY <2>5, <3>2, Zenon
        <5>4. \A m \in Lists : x \in seen[r].lists[m] <=>
                                 m \in ListsOf[c.subnetOf[i]] /\ x \in lists[m]
          BY <5>2
        <5> QED BY <2>5, <5>1, <5>3, <5>4, Zenon
      <4>4. x \in rest <=> \/ x \in xs
                           \/ \E m \in Lists \ {target} : x \in seen[r].lists[m]
                           \/ x \in Walls(c)!SeenRules(r)
        OBVIOUS
      <4> QED BY <4>1, <4>2, <4>3, <4>4
    <3>4. Walls(c)!Effective(i)' = rest
      BY <3>3
    <3> HIDE DEF rest
    <3> QED BY <1>i, <2>4, <3>1, <3>4, Zenon DEF Claims
  <2>8. CASE answered /\ firewallOp[r].kind \notin {"delete", "clear"}
    <3>1. told'[r] = told[r]
      BY <2>4, <2>8
    <3>2. ASSUME firewallOp[r].kind = "cdn", told[r] = "quiet", NEW x \in Walls(c)!Effective(i)'
          PROVE  Walls(c)!Scope(x, "80") # "public"
      <4>1. xs = lists[target] \cup {Walls(c)!Cdn}
        BY <2>5, <3>2 DEF Walls!Changed, xs
      <4>2. \A l \in Lists : lists'[l] = IF l = target THEN xs ELSE lists[l]
        BY <1>1, <2>1, <3>2 DEF NetTyped
      <4>3. ListsOf[c.subnetOf[i]] \subseteq Lists
        BY <2>5, Zenon DEF Walls!FirewallAssumption
      <4>4. x \in Walls(c)!Effective(i) \/ x = Walls(c)!Cdn
        <5>1. \/ \E l \in ListsOf[c.subnetOf[i]] : x \in lists'[l]
              \/ \E g \in nic[i] : x \in rules[g]
          BY <2>1, <3>2, EffectiveIs
        <5>2. lists'[target] = xs /\ \A l \in Lists \ {target} : lists'[l] = lists[l]
          BY <2>5, <4>2, Zenon
        <5>3. CASE \E g \in nic[i] : x \in rules[g]
          BY <5>3, EffectiveIs
        <5>4. CASE \E l \in ListsOf[c.subnetOf[i]] : x \in lists'[l]
          <6>1. PICK l \in ListsOf[c.subnetOf[i]] : x \in lists'[l]
            BY <5>4
          <6>2. x \in lists[l] \/ x = Walls(c)!Cdn
            BY <2>5, <4>1, <4>3, <5>2, <6>1, Zenon
          <6> QED BY <6>1, <6>2, EffectiveIs
        <5> QED BY <5>1, <5>3, <5>4
      <4>5. Walls(c)!Scope(Walls(c)!Cdn, "80") # "public"
        BY DEF Walls!Scope, Walls!Cdn
      <4> QED BY <1>i, <2>1, <3>2, <4>4, <4>5 DEF TellsRight
    <3> QED BY <1>i, <2>4, <2>5, <3>1, <3>2, Zenon DEF Claims
  <2> QED BY <2>6, <2>7, <2>8
<1>8. CASE Walls(c)!ReadLists(r)
  BY <1>8, <1>a, <1>c, Zenon DEF Walls!ReadLists
<1>9. CASE Walls(c)!Precheck(r)
  BY <1>9, <1>a, <1>c, Zenon DEF Walls!Precheck
<1>10. CASE Walls(c)!Tighten(r)
  <2>1. \/ UNCHANGED firewallAt
        \/ \E what, ls : what \in {"", "tight"} /\ Walls(c)!End(r, what) /\ Walls(c)!Lapse(r, ls)
    BY <1>10, Zenon DEF Walls!Tighten
  <2>2. firewallAt[r] = "tighten"
    BY <1>10, Zenon DEF Walls!Tighten
  <2> QED BY <1>c, <2>1, <2>2, Zenon
<1>11. CASE Walls(c)!Make(r)
  BY <1>11, <1>a DEF Walls!Make
<1>12. CASE Walls(c)!Attach(r)
  BY <1>12, <1>a, <1>c, Zenon DEF Walls!Attach
<1>13. CASE Walls(c)!Again(r)
  <2>1. \/ \E step \in {"move", "empty"} : Walls(c)!Go(r, step)
        \/ Walls(c)!End(r, "") /\ Walls(c)!Lapse(r, {})
    BY <1>13, Zenon DEF Walls!Again
  <2> QED BY <1>a, <1>c, <2>1, Zenon
<1>14. CASE Walls(c)!Move(r)
  BY <1>14, <1>a, <1>c, Zenon DEF Walls!Move
<1>e. ASSUME firewallOp[r].kind = "wipe", firewallAt[r] = "empty", UNCHANGED <<lists, nic>>,
             told'[r] = Walls(c)!Finish(r, TRUE), firewallOp'[r] = firewallOp[r]
      PROVE  Claims(c, r)
  <2>1. /\ i \in c.insts /\ seen[r].unread = {}
        /\ seen[r].lists = Walls(c)!FirewallOf(i, {}).lists
    BY <1>i, <1>d, <1>e, Zenon DEF TellsRight
  <2>2. told'[r] = IF Walls(c)!SshAfter(seen[r]) THEN "ssh" ELSE "no ssh"
    BY <1>e, Zenon DEF Walls!Finish
  <2>3. CASE Walls(c)!SshAfter(seen[r])
    <3>1. Walls(c)!FirewallOf(i, {}).lists' = Walls(c)!FirewallOf(i, {}).lists
      BY <1>e DEF Walls!FirewallOf
    <3>2. PICK x \in Walls(c)!Effective(i) :
             (\E l \in ListsOf[c.subnetOf[i]] : x \in lists[l])
             /\ Walls(c)!Scope(x, "22") = "public" /\ ~x.source
      <4>a. PICK x \in UNION {seen[r].lists[l] : l \in Lists} : Walls(c)!Scope(x, "22") = "public"
        BY <2>1, <2>3 DEF Walls!SshAfter
      <4>1. PICK l \in Lists : x \in seen[r].lists[l]
        OBVIOUS
      <4>2. PICK m \in ListsOf[c.subnetOf[i]] : x \in lists[m]
        BY <1>1, <2>1, <4>1, SeenIsEffective
      <4>3. x \in AnyRule(c)
        <5>1. m \in Lists
          BY <2>1 DEF Walls!FirewallAssumption
        <5> QED BY <1>1, <4>2, <5>1 DEF NetTyped
      <4>4. ~x.source
        BY <4>3 DEF AnyRule, Walls!Baseline, Walls!Cdn, Walls!Everything
      <4>5. x \in Walls(c)!Effective(i)
        BY <4>2, EffectiveIs
      <4> QED BY <4>a, <4>2, <4>4, <4>5
    <3>3. x \in Walls(c)!Effective(i)'
      BY <1>e, <3>2, EffectiveIs
    <3>4. Walls(c)!SshOpen(i)'
      BY <1>e, <3>2, <3>3 DEF Walls!SshOpen
    <3> QED BY <1>i, <1>e, <2>2, <2>3, <3>4, Zenon DEF Claims
  <2>4. CASE ~Walls(c)!SshAfter(seen[r])
    BY <1>i, <2>2, <2>4, Zenon DEF Claims
  <2> QED BY <2>3, <2>4
<1>f. ASSUME NEW g, NEW ok, Walls(c)!Next1(r, g, ok)
      PROVE  told'[r] = Walls(c)!Finish(r, ok) /\ todo[r] = {g} /\ firewallOp'[r] = firewallOp[r]
  BY <1>a, <1>b, <1>f DEF Walls!Next1
<1>15. CASE Walls(c)!Empty(r)
  <2>1. firewallAt[r] = "empty" /\ UNCHANGED <<lists, nic>>
    BY <1>15 DEF Walls!Empty
  <2>2. CASE firewallOp[r].kind = "wipe"
    <3>1. \E g, ok : Walls(c)!Next1(r, g, ok)
      BY <1>15, <2>2, Zenon DEF Walls!Empty
    <3>2. told'[r] = Walls(c)!Finish(r, TRUE) /\ firewallOp'[r] = firewallOp[r]
      BY <1>f, <2>2, <3>1, Zenon DEF Walls!Finish
    <3> QED BY <1>e, <2>1, <2>2, <3>2
  <2>3. CASE firewallOp[r].kind # "wipe"
    <3>1. \E g : Walls(c)!Next1(r, g, FALSE)
      BY <1>15, <1>a, <2>3, Zenon DEF Walls!Empty
    <3>2. told'[r] = "part"
      BY <1>f, <2>3, <3>1, Zenon DEF Walls!Finish
    <3> QED BY <1>i, <3>2 DEF Claims
  <2> QED BY <2>2, <2>3
<1>16. CASE Walls(c)!Fill(r)
  <2> DEFINE g == Walls(c)!Min(todo[r])
  <2>1. PICK ok \in BOOLEAN :
          /\ rules' = IF ok THEN [rules EXCEPT ![g] = @ \cup {Walls(c)!Everything}] ELSE rules
          /\ Walls(c)!Next1(r, g, ok)
    BY <1>16 DEF Walls!Fill
  <2>2. firewallAt[r] = "fill" /\ UNCHANGED <<lists, nic>>
    BY <1>16 DEF Walls!Fill
  <2> HIDE DEF g
  <2>3. told'[r] = Walls(c)!Finish(r, ok) /\ todo[r] = {g} /\ firewallOp[r].kind = "openall"
    BY <1>i, <1>1, <1>f, <2>1, <2>2 DEF Fit
  <2>4. firewallOp'[r] = firewallOp[r]
    BY <1>f, <2>1
  <2>5. told'[r] = IF ok /\ told[r] = "" THEN "opened" ELSE "part"
    BY <2>3, Zenon DEF Walls!Finish
  <2>6. CASE ok
    <3>1. g \in nic[i] /\ g \in Groups
      <4>1. g \in nic[i] /\ i \in c.insts
        BY <1>i, <1>d, <2>2, <2>3, Zenon DEF TellsRight
      <4> QED BY <1>1, <4>1 DEF NetTyped
    <3>2. Walls(c)!Everything \in rules'[g]
      BY <1>1, <2>1, <2>6, <3>1 DEF NetTyped
    <3>3. Walls(c)!Everything \in Walls(c)!Effective(i)'
      BY <2>2, <3>1, <3>2, EffectiveIs
    <3>4. Walls(c)!WideOpen(Walls(c)!Everything)
      BY DEF Walls!WideOpen, Walls!Everything
    <3> QED BY <1>i, <2>4, <2>5, <3>3, <3>4, Zenon DEF Claims
  <2>7. CASE ~ok
    BY <1>i, <2>5, <2>7 DEF Claims
  <2> QED BY <2>6, <2>7
<1> QED BY <1>2, <1>3, <1>4, <1>5, <1>6, <1>7, <1>8, <1>9, <1>10, <1>11, <1>12, <1>13, <1>14,
           <1>15, <1>16 DEF Walls!Step

\* A request that nobody disturbs keeps what it tells right.
LEMMA ToldStep ==
    ASSUME NEW c, WallsTyped(c), WallsOf(c), Walls(c)!FirewallAssumption,
           NEW r \in c.requests, TellsRight(c, r), Walls(c)!Step(r)
    PROVE  TellsRight(c, r)'
<1>1. NetTyped(c) /\ MemTyped(c) /\ Fit(c, r)
  BY DEF WallsTyped, MemTyped
<1>i. PICK i : i = firewallOp[r].inst
  OBVIOUS
<1>a. ASSUME NEW what, NEW ls, Walls(c)!End(r, what), Walls(c)!Lapse(r, ls)
      PROVE  TellsRight(c, r)'
  <2>1. firewallAt'[r] = "end"
    BY <1>1, <1>a, EndEffect
  <2> QED BY <2>1, Zenon DEF TellsRight
<1>b. ASSUME NEW step, Walls(c)!Go(r, step)
      PROVE  firewallAt'[r] = step
  BY <1>1, <1>b DEF MemTyped, Walls!Go
<1>c. ASSUME told'[r] = "", firewallAt'[r] \notin {"scan", "list", "write", "empty", "fill"}
      PROVE  TellsRight(c, r)'
  BY <1>c, Zenon DEF TellsRight
<1>d. firewallAt[r] # "idle" => i \in c.insts
  BY <1>1, <1>i DEF Fit, WallsOf
<1>e. firewallAt[r] \in {"idle", "resolve", "lists", "check", "tighten", "make", "attach", "again",
                         "move", "scan"} => told[r] = ""
  BY Zenon DEF TellsRight
<1>f. ASSUME UNCHANGED <<lists, rules, nic>>, firewallOp' = firewallOp
      PROVE  /\ Walls(c)!FirewallOf(i, {})' = Walls(c)!FirewallOf(i, {})
             /\ Walls(c)!Effective(i)' = Walls(c)!Effective(i)
             /\ firewallOp'[r].inst = i /\ firewallOp'[r].kind = firewallOp[r].kind
  BY <1>f, <1>i DEF Walls!FirewallOf, Walls!Effective
<1>2. CASE Walls(c)!Begin(r)
  <2>1. firewallAt[r] = "idle" /\ firewallAt'[r] = "resolve" /\ told' = told
    BY <1>1, <1>2 DEF Walls!Begin, MemTyped
  <2> QED BY <1>c, <1>e, <2>1, Zenon
<1>3. CASE Walls(c)!Fails(r)
  BY <1>a, <1>3, Zenon DEF Walls!Fails
<1>4. CASE Walls(c)!Resolve(r)
  <2>1. firewallAt[r] = "resolve" /\ UNCHANGED <<lists, rules, nic>>
    BY <1>4, Zenon DEF Walls!Resolve, Walls!net
  <2>2. PICK lost \in Walls(c)!Losses :
          LET f == Walls(c)!FirewallOf(i, lost \cap Walls(c)!MyLists(r))
          IN  IF Walls(c)!AfterRead(r, f) = "end"
              THEN \E what : Walls(c)!End(r, what) /\ Walls(c)!Lapse(r, {})
              ELSE /\ Walls(c)!Go(r, Walls(c)!AfterRead(r, f)) /\ seen' = [seen EXCEPT ![r] = f]
                   /\ todo' = [todo EXCEPT ![r] =
                          IF firewallOp[r].kind \in Walls(c)!GroupKinds THEN DOMAIN f.rules ELSE {}]
                   /\ UNCHANGED <<firewallOp, told>>
    BY <1>4, <1>i, Zenon DEF Walls!Resolve
  <2>3. lost \cap Walls(c)!MyLists(r) = {}
    BY DEF Walls!Losses
  <2> DEFINE f0 == Walls(c)!FirewallOf(i, {})
             step == Walls(c)!AfterRead(r, f0)
  <2>4. CASE step = "end"
    BY <1>a, <2>2, <2>3, <2>4
  <2>5. CASE step # "end"
    <3>1. /\ Walls(c)!Go(r, step) /\ seen' = [seen EXCEPT ![r] = f0]
          /\ todo' = [todo EXCEPT ![r] =
                 IF firewallOp[r].kind \in Walls(c)!GroupKinds THEN DOMAIN f0.rules ELSE {}]
          /\ UNCHANGED <<firewallOp, told>>
      BY <2>2, <2>3, <2>5
    <3>2. /\ step \in {"end", "scan", "list", "lists", "make", "move", "empty"}
          /\ step = "list" => firewallOp[r].kind # "cdn"
          /\ step = "empty" => firewallOp[r].kind \in Walls(c)!GroupKinds
          /\ DOMAIN f0.rules = nic[i]
      <4>1. f0 = Walls(c)!FirewallOf(firewallOp[r].inst, {})
        BY <1>i
      <4>2. NetTyped(c) /\ MemTyped(c) /\ firewallAt[r] # "idle"
        BY <1>1, <2>1
      <4>3. /\ Walls(c)!AfterRead(r, f0) \in {"end", "scan", "list", "lists", "make", "move", "empty"}
            /\ Walls(c)!AfterRead(r, f0) = "list" => firewallOp[r].kind # "cdn"
            /\ Walls(c)!AfterRead(r, f0) = "empty" => firewallOp[r].kind \in Walls(c)!GroupKinds
            /\ DOMAIN f0.rules = nic[firewallOp[r].inst]
        <5> HIDE DEF f0
        <5>1. Walls(c)!AfterRead(r, f0) \in {"end", "scan", "list", "lists", "make", "move", "empty"}
          BY <4>1, <4>2, AfterReadFits, Zenon
        <5>2. Walls(c)!AfterRead(r, f0) = "list" => firewallOp[r].kind # "cdn"
          BY <4>1, <4>2, AfterReadFits, Zenon
        <5>3. Walls(c)!AfterRead(r, f0) = "empty" => firewallOp[r].kind \in Walls(c)!GroupKinds
          BY <4>1, <4>2, AfterReadFits, Zenon
        <5>4. DOMAIN f0.rules = nic[firewallOp[r].inst]
          BY <4>1 DEF Walls!FirewallOf
        <5> QED BY <5>1, <5>2, <5>3, <5>4
      <4> QED BY <1>i, <4>3
    <3>3. f0.unread = {}
      BY <1>1, <1>d, <2>1, SeenIsEffective
    <3>4. firewallAt'[r] = step /\ seen'[r] = f0 /\ told'[r] = ""
      BY <1>1, <1>b, <1>e, <2>1, <3>1, Zenon DEF MemTyped
    <3>5. step = "empty" => todo'[r] = nic[i]
      BY <1>1, <3>1, <3>2 DEF MemTyped
    <3>6. Walls(c)!FirewallOf(i, {})' = f0 /\ firewallOp'[r].inst = i
          /\ firewallOp'[r].kind = firewallOp[r].kind /\ nic' = nic
      BY <1>f, <2>1, <3>1
    <3> HIDE DEF step, f0
    <3> QED BY <3>2, <3>3, <3>4, <3>5, <3>6, Zenon DEF TellsRight
  <2> QED BY <2>4, <2>5
<1>5. CASE Walls(c)!Scan(r)
  <2> DEFINE target == Walls(c)!Target(r)
             others == (UNION {seen[r].lists[m]: m \in Lists \ {target}}) \cup Walls(c)!SeenRules(r)
             says == IF \E x \in lists[target] \cup others : Walls(c)!Scope(x, "80") = "public"
                     THEN "warned" ELSE "quiet"
  <2>1. firewallAt[r] = "scan" /\ UNCHANGED <<lists, rules, nic>>
    BY <1>5 DEF Walls!Scan, Walls!net
  <2>2. \/ Walls(c)!End(r, says) /\ Walls(c)!Lapse(r, {})
        \/ /\ Walls(c)!Go(r, "list") /\ told' = [told EXCEPT ![r] = says]
           /\ UNCHANGED <<firewallOp, seen>>
    BY <1>5 DEF Walls!Scan, Walls!mem
  <2>3. says = "quiet" => \A x \in Walls(c)!Effective(i) : Walls(c)!Scope(x, "80") # "public"
    BY <1>i, <2>1, ScanSees
  <2>4. says \in {"warned", "quiet"}
    OBVIOUS
  <2> HIDE DEF says
  <2>5. CASE /\ Walls(c)!Go(r, "list") /\ told' = [told EXCEPT ![r] = says]
             /\ UNCHANGED <<firewallOp, seen>>
    <3>1. firewallAt'[r] = "list" /\ told'[r] = says /\ seen'[r] = seen[r]
      BY <1>1, <1>b, <2>5 DEF MemTyped
    <3>2. seen[r] = Walls(c)!FirewallOf(i, {})
      BY <1>i, <2>1, Zenon DEF TellsRight
    <3>3. /\ Walls(c)!FirewallOf(i, {})' = Walls(c)!FirewallOf(i, {})
          /\ Walls(c)!Effective(i)' = Walls(c)!Effective(i) /\ firewallOp'[r].inst = i
      BY <1>f, <2>1, <2>5
    <3> QED BY <2>3, <2>4, <3>1, <3>2, <3>3, Zenon DEF TellsRight
  <2> QED BY <1>a, <2>2, <2>5
<1>6. CASE Walls(c)!ReadList(r)
  <2>1. firewallAt[r] = "list" /\ UNCHANGED <<lists, rules, nic>>
    BY <1>6 DEF Walls!ReadList, Walls!net
  <2>2. \/ \E what : Walls(c)!End(r, what) /\ Walls(c)!Lapse(r, {})
        \/ Walls(c)!Go(r, "write") /\ UNCHANGED <<firewallOp, seen, told>>
    BY <1>6 DEF Walls!ReadList
  <2>3. CASE Walls(c)!Go(r, "write") /\ UNCHANGED <<firewallOp, seen, told>>
    <3>1. firewallAt'[r] = "write"
      BY <1>b, <2>3
    <3>2. /\ seen[r] = Walls(c)!FirewallOf(i, {}) /\ told[r] \in {"", "warned", "quiet"}
          /\ firewallOp[r].kind = "cdn" /\ told[r] = "quiet" =>
                \A x \in Walls(c)!Effective(i) : Walls(c)!Scope(x, "80") # "public"
      BY <1>i, <2>1, Zenon DEF TellsRight
    <3>3. /\ Walls(c)!FirewallOf(i, {})' = Walls(c)!FirewallOf(i, {})
          /\ Walls(c)!Effective(i)' = Walls(c)!Effective(i) /\ firewallOp'[r].inst = i
      BY <1>f, <2>1, <2>3
    <3> QED BY <2>3, <3>1, <3>2, <3>3, Zenon DEF TellsRight
  <2> QED BY <1>a, <2>2, <2>3
<1>7. CASE Walls(c)!WriteList(r)
  <2>1. \E what, ls : Walls(c)!End(r, what) /\ Walls(c)!Lapse(r, ls)
    BY <1>7, Zenon DEF Walls!WriteList, Walls!Put
  <2> QED BY <1>a, <2>1
<1>8. CASE \/ Walls(c)!ReadLists(r) \/ Walls(c)!Precheck(r) \/ Walls(c)!Make(r)
           \/ Walls(c)!Attach(r) \/ Walls(c)!Move(r)
  <2>1. \/ \E what : Walls(c)!End(r, what) /\ Walls(c)!Lapse(r, {})
        \/ /\ told' = told
           /\ \E step \in {"check", "tighten", "again", "attach", "lists"} : Walls(c)!Go(r, step)
    BY <1>8, Zenon
       DEF Walls!ReadLists, Walls!Precheck, Walls!Make, Walls!Attach, Walls!Move, Walls!mem
  <2>2. told[r] = ""
    BY <1>8, <1>e, Zenon DEF Walls!ReadLists, Walls!Precheck, Walls!Make, Walls!Attach, Walls!Move
  <2>3. CASE /\ told' = told
             /\ \E step \in {"check", "tighten", "again", "attach", "lists"} : Walls(c)!Go(r, step)
    BY <1>b, <1>c, <2>2, <2>3, Zenon
  <2> QED BY <1>a, <2>1, <2>3
<1>9. CASE Walls(c)!Tighten(r)
  <2>1. \/ \E what, ls : Walls(c)!End(r, what) /\ Walls(c)!Lapse(r, ls)
        \/ UNCHANGED <<firewallAt, told>>
    BY <1>9, Zenon DEF Walls!Tighten
  <2>2. firewallAt[r] = "tighten" /\ told[r] = ""
    BY <1>9, <1>e, Zenon DEF Walls!Tighten
  <2> QED BY <1>a, <1>c, <2>1, <2>2, Zenon
<1>10. CASE Walls(c)!Again(r)
  <2> DEFINE f0 == Walls(c)!FirewallOf(i, {})
  <2>1. firewallAt[r] = "again" /\ UNCHANGED <<lists, rules, nic>> /\ told[r] = ""
    BY <1>10, <1>e, Zenon DEF Walls!Again, Walls!net
  <2>2. \/ Walls(c)!End(r, "") /\ Walls(c)!Lapse(r, {})
        \/ /\ Walls(c)!Go(r, IF firewallOp[r].kind = "repair" THEN "move" ELSE "empty")
           /\ seen' = [seen EXCEPT ![r] = f0]
           /\ todo' = [todo EXCEPT ![r] = IF firewallOp[r].kind = "repair" THEN {} ELSE DOMAIN f0.rules]
           /\ UNCHANGED <<firewallOp, told>>
    BY <1>10, <1>i, Zenon DEF Walls!Again
  <2>3. CASE /\ Walls(c)!Go(r, IF firewallOp[r].kind = "repair" THEN "move" ELSE "empty")
             /\ seen' = [seen EXCEPT ![r] = f0]
             /\ todo' = [todo EXCEPT ![r] =
                           IF firewallOp[r].kind = "repair" THEN {} ELSE DOMAIN f0.rules]
             /\ UNCHANGED <<firewallOp, told>>
    <3>1. f0.unread = {} /\ DOMAIN f0.rules = nic[i]
      <4>1. f0 = Walls(c)!FirewallOf(i, {}) /\ i \in c.insts /\ NetTyped(c)
        BY <1>1, <1>d, <2>1, Zenon
      <4> HIDE DEF f0
      <4> QED BY <4>1, SeenIsEffective
    <3>2. f0' = f0 /\ firewallOp'[r].inst = i /\ nic' = nic
      BY <1>f, <2>1, <2>3, Zenon
    <3>3. firewallAt'[r] = IF firewallOp[r].kind = "repair" THEN "move" ELSE "empty"
      BY <1>b, <2>3
    <3>4. /\ seen'[r] = f0 /\ told'[r] = ""
          /\ todo'[r] = IF firewallOp[r].kind = "repair" THEN {} ELSE nic[i]
      BY <1>1, <2>1, <2>3, <3>1, Zenon DEF MemTyped
    <3>5. Walls(c)!FirewallOf(i, {})' = f0
      BY <3>2
    <3> HIDE DEF f0
    <3> QED BY <3>1, <3>2, <3>3, <3>4, <3>5, Zenon DEF TellsRight
  <2> QED BY <1>a, <2>2, <2>3, Zenon
<1>g. ASSUME firewallAt[r] \in {"empty", "fill"}, firewallAt'[r] \in {"empty", "fill"},
             todo'[r] \subseteq todo[r], told'[r] \in {told[r], "part"}, seen' = seen,
             firewallOp' = firewallOp, UNCHANGED <<lists, nic>>
      PROVE  TellsRight(c, r)'
  <2>1. /\ seen[r].unread = {} /\ seen[r].lists = Walls(c)!FirewallOf(i, {}).lists
        /\ todo[r] \subseteq nic[i] /\ told[r] \in {"", "part"}
    BY <1>g, <1>i, Zenon DEF TellsRight
  <2>2. Walls(c)!FirewallOf(i, {}).lists' = Walls(c)!FirewallOf(i, {}).lists
    BY <1>g DEF Walls!FirewallOf
  <2> QED BY <1>g, <1>i, <2>1, <2>2, Zenon DEF TellsRight
<1>h. ASSUME NEW g, NEW ok, Walls(c)!Next1(r, g, ok), firewallAt[r] \in {"empty", "fill"},
             UNCHANGED <<lists, nic>>
      PROVE  TellsRight(c, r)'
  <2>1. \/ \E what : Walls(c)!End(r, what) /\ Walls(c)!Lapse(r, {})
        \/ /\ Walls(c)!Go(r, "empty") /\ todo' = [todo EXCEPT ![r] = todo[r] \ {g}]
           /\ told' = [told EXCEPT ![r] = IF firewallOp[r].kind = "wipe" \/ ok THEN told[r] ELSE "part"]
           /\ UNCHANGED <<firewallOp, seen>>
    BY <1>h DEF Walls!Next1
  <2>2. CASE /\ Walls(c)!Go(r, "empty") /\ todo' = [todo EXCEPT ![r] = todo[r] \ {g}]
             /\ told' = [told EXCEPT ![r] = IF firewallOp[r].kind = "wipe" \/ ok THEN told[r] ELSE "part"]
             /\ UNCHANGED <<firewallOp, seen>>
    <3>1. firewallAt'[r] = "empty" /\ todo'[r] \subseteq todo[r] /\ told'[r] \in {told[r], "part"}
      BY <1>1, <1>b, <2>2 DEF MemTyped
    <3> QED BY <1>g, <1>h, <2>2, <3>1
  <2> QED BY <1>a, <2>1, <2>2
<1>11. CASE Walls(c)!Empty(r)
  <2>1. firewallAt[r] = "empty" /\ UNCHANGED <<lists, nic>>
    BY <1>11 DEF Walls!Empty
  <2>2. \/ \E g, ok : Walls(c)!Next1(r, g, ok)
        \/ Walls(c)!Go(r, "fill") /\ UNCHANGED <<firewallOp, seen, todo, told>>
    BY <1>11, Zenon DEF Walls!Empty, Walls!mem
  <2>3. CASE Walls(c)!Go(r, "fill") /\ UNCHANGED <<firewallOp, seen, todo, told>>
    BY <1>b, <1>g, <2>1, <2>3
  <2> QED BY <1>h, <2>1, <2>2, <2>3
<1>12. CASE Walls(c)!Fill(r)
  <2>1. firewallAt[r] = "fill" /\ UNCHANGED <<lists, nic>>
    BY <1>12 DEF Walls!Fill
  <2>2. \E g, ok : Walls(c)!Next1(r, g, ok)
    BY <1>12 DEF Walls!Fill
  <2> QED BY <1>h, <2>1, <2>2
<1> QED BY <1>2, <1>3, <1>4, <1>5, <1>6, <1>7, <1>8, <1>9, <1>10, <1>11, <1>12 DEF Walls!Step

ToldHolds(c) == WallsTyped(c) /\ FreshRead(c) /\ \A r \in c.requests : TellsRight(c, r)

LEMMA ToldInit ==
    ASSUME NEW c, Walls(c)!FirewallAssumption, WallsOf(c), Walls(c)!Init
    PROVE  ToldHolds(c)
<1>1. FreshRead(c) /\ \A r \in c.requests : TellsRight(c, r)
  BY Zenon DEF FreshRead, TellsRight, Walls!Init
<1> QED BY <1>1, InitWalls DEF ToldHolds

LEMMA ToldNext ==
    ASSUME NEW c, Walls(c)!FirewallAssumption, WallsOf(c), ToldHolds(c), c.console = {},
           \A r, q \in c.requests : r = q, Walls(c)!Next
    PROVE  ToldHolds(c)'
<1>1. PICK r \in c.requests : Walls(c)!Step(r)
  BY DEF Walls!Next, Walls!EditList, Walls!EditGroup
<1>2. TellsRight(c, r)'
  BY <1>1, ToldStep DEF ToldHolds
<1>3. \A q \in c.requests : TellsRight(c, q)'
  BY <1>2
<1> QED BY <1>3, FreshStep, WallsTypeStep DEF ToldHolds

LEMMA ToldSays ==
    ASSUME NEW c, Walls(c)!FirewallAssumption, WallsOf(c), ToldHolds(c), c.console = {},
           \A r, q \in c.requests : r = q, \A x \in c.rules : ~x.source, Walls(c)!Next
    PROVE  Walls(c)!ToldTrue /\ Walls(c)!CdnTold /\ Walls(c)!SshSure
<1>1. PICK r \in c.requests : Walls(c)!Step(r)
  BY DEF Walls!Next, Walls!EditList, Walls!EditGroup
<1>2. firewallAt[r] # "end" /\ firewallAt'[r] = "end" => Claims(c, r)
  BY <1>1, ToldAtEnd DEF ToldHolds
<1>3. firewallAt[r] # "end" /\ firewallAt'[r] = "end" => firewallOp'[r] = firewallOp[r]
  <2>1. MemTyped(c)
    BY DEF ToldHolds, WallsTyped
  <2>2. CASE Walls(c)!Begin(r)
    BY <2>1, <2>2 DEF Walls!Begin, MemTyped
  <2>3. CASE ~Walls(c)!Begin(r)
    <3>1. firewallOp' = firewallOp
      BY <1>1, <2>3, Zenon DEF Walls!Step, Walls!Fails, Walls!Resolve, Walls!Scan, Walls!ReadList,
         Walls!WriteList, Walls!ReadLists, Walls!Precheck, Walls!Tighten, Walls!Make,
         Walls!Attach, Walls!Again, Walls!Move, Walls!Empty, Walls!Fill, Walls!Next1, Walls!End,
         Walls!mem
    <3> QED BY <3>1
  <2> QED BY <2>2, <2>3
<1>4. \A q \in c.requests : q = r
  BY <1>1
<1> QED BY <1>2, <1>3, <1>4 DEF Claims, Walls!ToldTrue, Walls!CdnTold, Walls!SshSure

FirewallTells == part = "told" => ToldHolds(Reporting)

\* Whatever the lists, the card and the groups hold, what the panel says at the end of a
\* change is so: that nothing else lets anything in, that all is still open, that the port is
\* not open to everyone when the CDN is let in, that SSH can be reached (_open_after,
\* allow_cloudflare_origin, audit of open_all_ports).
THEOREM TruthBeTold == PartSpec => TruthIsTold
<1>a. /\ Walls(Reporting)!FirewallAssumption /\ WallsOf(Reporting) /\ Reporting.console = {}
      /\ \A r, q \in Reporting.requests : r = q
      /\ \A x \in Reporting.rules : ~x.source
  BY PartsAssumption, FirewallParts
<1>1. PartInit => FirewallTells
  BY <1>a, ToldInit DEF PartInit, FirewallTells
<1>2. ASSUME FirewallTells, [PartNext]_all
      PROVE  FirewallTells'
  <2>1. CASE PartNext
    BY <1>a, <1>2, <2>1, StepsOfParts, ToldNext, Zenon DEF FirewallTells
  <2>2. CASE UNCHANGED all
    <3>1. UNCHANGED part /\ UNCHANGED firewall
      BY <2>2 DEF all
    <3>2. ToldHolds(Reporting)' = ToldHolds(Reporting)
      BY <3>1 DEF firewall, ToldHolds, WallsTyped, NetTyped, MemTyped, Fit, FreshRead, TellsRight,
         Walls!Target, Walls!MyLists, Walls!FirewallOf, Walls!Effective
    <3> QED BY <1>2, <3>1, <3>2 DEF FirewallTells
  <2> QED BY <1>2, <2>1, <2>2
<1>3. FirewallTells /\ [PartNext]_all =>
        [part = "told" => /\ Walls(Reporting)!ToldTrue /\ Walls(Reporting)!CdnTold
                          /\ Walls(Reporting)!SshSure]_all
  BY <1>a, StepsOfParts, ToldSays, Zenon DEF FirewallTells
<1> QED BY <1>1, <1>2, <1>3, PTL DEF PartSpec, TruthIsTold

\* A set of groups has a first one.
LEMMA FirstIsIn ==
    ASSUME NEW c, NEW T, T \subseteq Nat, T # {}
    PROVE  Walls(c)!Min(T) \in T
<1> DEFINE less == {ss \in Nat \X Nat : ss[1] < ss[2]}
<1>0. IsWellFoundedOn(less, Nat)
  BY NatLessThanWellFounded DEF OpToRel
<1>1. PICK x \in T : \A y \in T : <<y, x>> \notin less
  <2> HIDE DEF less
  <2> QED BY <1>0, WFMin, Zenon
<1>2. ASSUME NEW y \in T
      PROVE  x <= y
  <2>1. <<y, x>> \in Nat \X Nat
    BY <1>2
  <2>2. ~(<<y, x>>[1] < <<y, x>>[2])
    BY <1>1, <1>2, <2>1
  <2> QED BY <2>2
<1> QED BY <1>2, Zenon DEF Walls!Min

\* Who is at work is so at an instance of its own.
Alone(c) == \A r, q \in Walls(c)!Busy : r # q => firewallOp[r].inst # firewallOp[q].inst

\* A group is on a card, or about to be; on a card of its own.
Cards(c) ==
    /\ \A i \in c.insts : \A g \in nic[i] : rules[g] # None
    /\ \A r \in c.requests :
          IF firewallAt[r] = "attach"
          THEN /\ nic[firewallOp[r].inst] = {} /\ new[r] \in Groups /\ rules[new[r]] # None
               /\ \A i \in c.insts : new[r] \notin nic[i]
          ELSE new[r] = None
    /\ \A r, q \in c.requests : r # q /\ new[r] = new[q] => new[r] = None
    /\ \A g \in Groups : rules[g] # None =>
          /\ (\E i \in c.insts : g \in nic[i]) \/ (\E r \in c.requests : new[r] = g)
          /\ \A x \in rules[g] : x # Walls(c)!Baseline /\ ~x.source

\* From when a repair has read the lists to when it writes them, what can be moved is about
\* to be, or is on the card.
Carries(c, r) ==
    /\ \A x \in move[r] : Walls(c)!Movable(x)
    /\ firewallOp[r].kind = "repair"
       /\ firewallAt[r] \in {"make", "attach", "again", "move", "lists", "check", "tighten"} =>
          \A l \in Walls(c)!MyLists(r) : \A x \in lists[l] : Walls(c)!Movable(x) =>
             \/ firewallAt[r] \notin {"lists", "check", "tighten"} /\ x \in move[r]
             \/ \E g \in nic[firewallOp[r].inst] : x \in rules[g]
    /\ firewallAt[r] = "move" =>
          DOMAIN seen[r].rules = nic[firewallOp[r].inst] /\ nic[firewallOp[r].inst] # {}

\* Whoever a tightening that was not forced concerns has a group that lets something in.
Spares(c, r) ==
    firewallAt[r] = "tighten" /\ ~firewallOp[r].force =>
       \A i \in c.insts :
          \/ c.subnetOf[i] = c.subnetOf[firewallOp[r].inst]
          \/ ListsOf[c.subnetOf[i]] \cap todo[r] # {}
          => \E g \in nic[i] : rules[g] # {}

RepairsHold(c) ==
    /\ WallsTyped(c) /\ FreshRead(c) /\ Alone(c) /\ Cards(c)
    /\ \A r \in c.requests : Carries(c, r) /\ Spares(c, r)

\* What does not look at a source port takes a rule without one for what it is.
LEMMA SameEffect ==
    ASSUME NEW c, Walls(c)!FirewallAssumption, NEW x \in AnyRule(c), ~x.source
    PROVE  Walls(c)!Effect(x) = x
<1>1. x \in [from: {"any", "lan", "cdn"}, proto: {"all", "tcp", "icmp"},
             port: Walls(c)!Ports, source: BOOLEAN]
  <2>1. CASE x \in c.rules
    BY <2>1 DEF Walls!FirewallAssumption
  <2>2. CASE x = Walls(c)!Baseline
    BY <2>2 DEF Walls!Baseline, Walls!Ports
  <2>4. CASE x = Walls(c)!Cdn
    BY <2>4 DEF Walls!Cdn, Walls!Ports
  <2>3. CASE x = Walls(c)!Everything
    BY <2>3 DEF Walls!Everything, Walls!Ports
  <2> QED BY <2>1, <2>2, <2>3, <2>4 DEF AnyRule
<1> QED BY <1>1 DEF Walls!Effect

\* A request is begun, or at work and stays the one it is.
LEMMA AtWork ==
    ASSUME NEW c, NEW r \in c.requests, Walls(c)!Step(r), ~Walls(c)!Begin(r)
    PROVE  firewallAt[r] \notin {"idle", "end"} /\ firewallOp' = firewallOp
<1>1. CASE Walls(c)!Fails(r)
  BY <1>1, Zenon DEF Walls!Fails, Walls!Busy, Walls!End
<1>2. CASE \/ Walls(c)!Resolve(r) \/ Walls(c)!Scan(r) \/ Walls(c)!ReadList(r)
           \/ Walls(c)!WriteList(r) \/ Walls(c)!ReadLists(r) \/ Walls(c)!Precheck(r)
           \/ Walls(c)!Tighten(r)
  BY <1>2, Zenon DEF Walls!Resolve, Walls!Scan, Walls!ReadList, Walls!WriteList, Walls!ReadLists,
     Walls!Precheck, Walls!Tighten, Walls!End
<1>3. CASE \/ Walls(c)!Make(r) \/ Walls(c)!Attach(r) \/ Walls(c)!Again(r) \/ Walls(c)!Move(r)
           \/ Walls(c)!Empty(r) \/ Walls(c)!Fill(r)
  BY <1>3, Zenon DEF Walls!Make, Walls!Attach, Walls!Again, Walls!Move, Walls!Empty, Walls!Fill,
     Walls!Next1, Walls!End
<1> QED BY <1>1, <1>2, <1>3 DEF Walls!Step

LEMMA AloneStep ==
    ASSUME NEW c, WallsTyped(c), c.apart, Alone(c), NEW r \in c.requests, Walls(c)!Step(r)
    PROVE  Alone(c)'
<1>1. MemTyped(c)
  BY DEF WallsTyped
<1>2. \A q \in c.requests \ {r} :
         firewallAt'[q] = firewallAt[q] /\ firewallOp'[q] = firewallOp[q]
  BY <1>1, OthersLeft
<1>3. CASE Walls(c)!Begin(r)
  <2>1. \A q \in Walls(c)!Busy : q # r /\ firewallOp[q].inst # firewallOp'[r].inst
    BY <1>1, <1>3 DEF Walls!Begin, Walls!Busy, MemTyped
  <2>2. \A q \in Walls(c)!Busy' \ {r} : q \in Walls(c)!Busy
    BY <1>2 DEF Walls!Busy
  <2> QED BY <1>2, <2>1, <2>2 DEF Alone, Walls!Busy
<1>4. CASE ~Walls(c)!Begin(r)
  <2>1. r \in Walls(c)!Busy /\ firewallOp' = firewallOp
    BY <1>4, AtWork DEF Walls!Busy
  <2>2. Walls(c)!Busy' \subseteq Walls(c)!Busy
    BY <1>2, <2>1 DEF Walls!Busy
  <2> QED BY <2>1, <2>2 DEF Alone
<1> QED BY <1>3, <1>4

\* What the operations of a repair and of a deletion do to the network: rules go from lists,
\* groups come to a card that had none, and rules to groups.
RepairOnly(c) ==
    c.ops \subseteq [kind: {"repair", "tighten", "delete"}, inst: c.insts,
                     list: Lists \cup {None}, rules: SUBSET c.rules,
                     force: BOOLEAN, foreign: BOOLEAN, preview: BOOLEAN]

LEMMA NetMoves ==
    ASSUME NEW c, WallsTyped(c), WallsOf(c), Walls(c)!FirewallAssumption, FreshRead(c), Cards(c),
           RepairOnly(c), \A q \in c.requests : Carries(c, q),
           NEW r \in c.requests, Walls(c)!Step(r)
    PROVE  /\ \A l \in Lists : lists'[l] \subseteq lists[l] \cup {Walls(c)!Baseline}
           /\ \A i \in c.insts : nic[i] \subseteq nic'[i]
           /\ \A i \in c.insts : firewallAt[r] # "attach" \/ i # firewallOp[r].inst => nic'[i] = nic[i]
           /\ \A g \in Groups : rules[g] # None /\ rules'[g] # None => rules[g] \subseteq rules'[g]
           /\ \A i \in c.insts : \A g \in nic[i] : rules'[g] # None
<1>1. NetTyped(c) /\ MemTyped(c) /\ Fit(c, r)
  BY DEF WallsTyped, MemTyped
<1>t. NetTyped(c)'
  BY WallsTypeStep DEF WallsTyped, Walls!Next
<1>k. firewallAt[r] # "idle" => firewallOp[r].kind \in {"repair", "tighten", "delete"}
                               /\ firewallOp[r].inst \in c.insts
  BY <1>1 DEF Fit, RepairOnly
<1> DEFINE Moves ==
             /\ \A l \in Lists : lists'[l] \subseteq lists[l] \cup {Walls(c)!Baseline}
             /\ \A i \in c.insts : nic[i] \subseteq nic'[i]
             /\ \A i \in c.insts : firewallAt[r] # "attach" \/ i # firewallOp[r].inst => nic'[i] = nic[i]
             /\ \A g \in Groups : rules[g] # None /\ rules'[g] # None => rules[g] \subseteq rules'[g]
             /\ \A i \in c.insts : \A g \in nic[i] : rules'[g] # None
<1>0. \A i \in c.insts : \A g \in nic[i] : g \in Groups /\ rules[g] # None
  BY <1>1 DEF NetTyped, Cards
<1>s. ASSUME lists' = lists, rules' = rules, nic' = nic
      PROVE  Moves
  BY <1>s, <1>0
<1>2. CASE \/ Walls(c)!Begin(r) \/ Walls(c)!Fails(r) \/ Walls(c)!Resolve(r) \/ Walls(c)!Scan(r)
           \/ Walls(c)!ReadList(r) \/ Walls(c)!ReadLists(r) \/ Walls(c)!Precheck(r)
           \/ Walls(c)!Again(r)
  <2>1. lists' = lists /\ rules' = rules /\ nic' = nic
    BY <1>2, Zenon DEF Walls!Begin, Walls!Fails, Walls!Resolve, Walls!Scan, Walls!ReadList,
       Walls!ReadLists, Walls!Precheck, Walls!Again, Walls!net
  <2> QED BY <2>1, <1>s
<1>n. ASSUME \A m \in Lists : lists'[m] \subseteq lists[m] \cup {Walls(c)!Baseline},
             rules' = rules, nic' = nic
      PROVE  Moves
  BY <1>0, <1>n
<1>3. CASE Walls(c)!WriteList(r)
  <2>1. /\ firewallAt[r] = "write" /\ firewallOp[r].kind = "delete"
        /\ rules' = rules /\ nic' = nic
    BY <1>1, <1>3, <1>k, Zenon DEF Walls!WriteList, Fit, Walls!ListKinds
  <2>2. PICK l, xs : /\ lists' = [lists EXCEPT ![l] = xs] /\ l \in fresh[r]
                     /\ xs = Walls(c)!Changed(r, read[r][l])
    BY <1>3, <2>1, Zenon DEF Walls!WriteList, Walls!Put
  <2>3. l \in Lists /\ read[r][l] = lists[l]
    BY <1>1, <2>2 DEF MemTyped, FreshRead
  <2>4. xs \subseteq lists[l] \cup {Walls(c)!Baseline}
    BY <2>1, <2>2, <2>3 DEF Walls!Changed
  <2>5. \A m \in Lists : lists'[m] \subseteq lists[m] \cup {Walls(c)!Baseline}
    BY <1>1, <2>2, <2>3, <2>4 DEF NetTyped
  <2> QED BY <1>n, <2>1, <2>5
<1>4. CASE Walls(c)!Tighten(r)
  <2>1. PICK l, xs : /\ lists' = [lists EXCEPT ![l] = xs] /\ l \in fresh[r]
                     /\ xs = Walls(c)!Tightened(l, read[r][l])
    BY <1>4, Zenon DEF Walls!Tighten
  <2>2. l \in Lists /\ read[r][l] = lists[l]
    BY <1>1, <2>1 DEF MemTyped, FreshRead
  <2>3. xs \subseteq lists[l] \cup {Walls(c)!Baseline}
    BY <2>1, <2>2 DEF Walls!Tightened
  <2>4. rules' = rules /\ nic' = nic
    BY <1>4, Zenon DEF Walls!Tighten
  <2>5. \A m \in Lists : lists'[m] \subseteq lists[m] \cup {Walls(c)!Baseline}
    BY <1>1, <2>1, <2>2, <2>3 DEF NetTyped
  <2> QED BY <1>n, <2>4, <2>5
<1>5. CASE Walls(c)!Make(r)
  <2>1. lists' = lists /\ nic' = nic
    BY <1>5 DEF Walls!Make
  <2>2. CASE rules' = rules
    BY <1>s, <2>1, <2>2
  <2>3. CASE rules' # rules
    <3>1. PICK g, xs : g \in Groups \ Walls(c)!Made /\ rules' = [rules EXCEPT ![g] = xs]
      BY <1>5, <2>3 DEF Walls!Make
    <3>2. rules[g] = None /\ \A m \in Groups \ {g} : rules'[m] = rules[m]
      BY <1>1, <3>1 DEF Walls!Made, NetTyped
    <3> QED BY <1>0, <2>1, <3>2
  <2> QED BY <2>2, <2>3
<1>6. CASE Walls(c)!Attach(r)
  <2>1. lists' = lists /\ firewallAt[r] = "attach"
    BY <1>6, Zenon DEF Walls!Attach
  <2>2. nic[firewallOp[r].inst] = {} /\ \A i \in c.insts : new[r] \notin nic[i]
    BY <2>1 DEF Cards
  <2>3. CASE /\ nic' = [nic EXCEPT ![firewallOp[r].inst] = {new[r]}] /\ rules' = rules
    <3>1. \A i \in c.insts : i # firewallOp[r].inst => nic'[i] = nic[i]
      BY <1>1, <2>3 DEF NetTyped
    <3> QED BY <1>0, <2>1, <2>2, <2>3, <3>1
  <2>4. CASE nic' = nic /\ rules' = [rules EXCEPT ![new[r]] = None]
    <3>1. \A g \in Groups \ {new[r]} : rules'[g] = rules[g]
      BY <1>1, <2>4 DEF NetTyped
    <3>2. new[r] \in Groups
      BY <1>1, <2>1 DEF Fit
    <3>3. rules'[new[r]] = None
      BY <1>1, <2>4, <3>2 DEF NetTyped
    <3> QED BY <1>0, <2>1, <2>2, <2>4, <3>1, <3>3
  <2> QED BY <1>6, <2>3, <2>4, Zenon DEF Walls!Attach
<1>7. CASE Walls(c)!Move(r)
  <2>1. /\ lists' = lists /\ nic' = nic
        /\ \E g : \E xs \in SUBSET move[r] :
              rules' = [rules EXCEPT ![g] = @ \cup xs] /\ rules[g] # None
    BY <1>7, Zenon DEF Walls!Move
  <2>2. PICK g, xs : /\ rules' = [rules EXCEPT ![g] = rules[g] \cup xs] /\ rules[g] # None
                     /\ xs \subseteq AnyRule(c)
    BY <1>1, <2>1, Zenon DEF MemTyped
  <2>3. \A m \in Groups : /\ rules[m] # None => rules[m] \subseteq rules'[m]
                          /\ m # g => rules'[m] = rules[m]
    BY <1>1, <2>2 DEF NetTyped
  <2>4. g \in Groups => rules'[g] \in SUBSET AnyRule(c)
    BY <1>1, <2>2 DEF NetTyped
  <2>5. g \in Groups => rules'[g] # None
    BY <2>4 DEF WallsOf, AnyRule
  <2> QED BY <2>5, <1>0, <2>1, <2>3, <2>4, Zenon
<1>8. ~Walls(c)!Empty(r) /\ ~Walls(c)!Fill(r)
  BY <1>1, <1>k, Zenon DEF Walls!Empty, Walls!Fill, Fit, Walls!GroupKinds
<1> QED BY <1>2, <1>3, <1>4, <1>5, <1>6, <1>7, <1>8 DEF Walls!Step

\* What else repairs move leaves to a request what it has found.
LEMMA OthersCarry ==
    ASSUME NEW c, RepairsHold(c), WallsOf(c), Walls(c)!FirewallAssumption, RepairOnly(c),
           NEW r \in c.requests, Walls(c)!Step(r), NEW q \in c.requests, q # r
    PROVE  Carries(c, q)' /\ Spares(c, q)'
<1>1. /\ NetTyped(c) /\ MemTyped(c) /\ WallsTyped(c) /\ FreshRead(c) /\ Cards(c) /\ Alone(c)
      /\ Carries(c, q) /\ Spares(c, q) /\ \A p \in c.requests : Carries(c, p)
  BY DEF RepairsHold, WallsTyped
<1>2. /\ firewallAt'[q] = firewallAt[q] /\ firewallOp'[q] = firewallOp[q] /\ seen'[q] = seen[q]
      /\ todo'[q] = todo[q] /\ move'[q] = move[q]
  BY <1>1, OthersLeft
<1>3. /\ \A l \in Lists : lists'[l] \subseteq lists[l] \cup {Walls(c)!Baseline}
      /\ \A i \in c.insts : nic[i] \subseteq nic'[i]
      /\ \A i \in c.insts : firewallAt[r] # "attach" \/ i # firewallOp[r].inst => nic'[i] = nic[i]
      /\ \A i \in c.insts : \A g \in nic[i] : rules[g] \subseteq rules'[g]
  <2>1. \A i \in c.insts : \A g \in nic[i] : g \in Groups /\ rules[g] # None
    BY <1>1 DEF NetTyped, Cards
  <2> QED BY <1>1, <2>1, NetMoves
<1>4. CASE firewallAt[q] \in {"idle", "end"}
  BY <1>1, <1>2, <1>4 DEF Carries, Spares
<1>5. CASE firewallAt[q] \notin {"idle", "end"}
  <2> DEFINE i == firewallOp[q].inst
  <2>1. i \in c.insts /\ c.subnetOf[i] \in Subnets /\ Walls(c)!MyLists(q) \subseteq Lists
    BY <1>1, <1>5 DEF MemTyped, Fit, WallsOf, Walls!FirewallAssumption, Walls!MyLists
  <2>2. nic'[i] = nic[i]
    <3>1. firewallAt[r] = "attach" => i # firewallOp[r].inst
      BY <1>1, <1>5 DEF Alone, Walls!Busy
    <3> QED BY <1>3, <2>1, <3>1
  <2>3. Walls(c)!MyLists(q)' = Walls(c)!MyLists(q)
    BY <1>2 DEF Walls!MyLists
  <2>4. ~Walls(c)!Movable(Walls(c)!Baseline)
    BY DEF Walls!Movable, Walls!OpensPublic, Walls!Baseline
  <2>5. Carries(c, q)'
    <3>1. \A x \in move'[q] : Walls(c)!Movable(x)
      BY <1>1, <1>2 DEF Carries
    <3>2. ASSUME firewallOp[q].kind = "repair",
                 firewallAt[q] \in {"make", "attach", "again", "move", "lists", "check", "tighten"},
                 NEW l \in Walls(c)!MyLists(q), NEW x \in lists'[l], Walls(c)!Movable(x)
          PROVE  \/ firewallAt[q] \notin {"lists", "check", "tighten"} /\ x \in move[q]
                 \/ \E g \in nic[i] : x \in rules'[g]
      <4>1. x \in lists[l]
        BY <1>3, <2>1, <2>4, <3>2
      <4>2. \/ firewallAt[q] \notin {"lists", "check", "tighten"} /\ x \in move[q]
            \/ \E g \in nic[i] : x \in rules[g]
        BY <1>1, <3>2, <4>1 DEF Carries
      <4> QED BY <1>3, <2>1, <4>2
    <3>3. firewallAt[q] = "move" => DOMAIN seen[q].rules = nic[i] /\ nic[i] # {}
      BY <1>1 DEF Carries
    <3> QED BY <1>2, <2>2, <2>3, <3>1, <3>2, <3>3 DEF Carries
  <2>6. Spares(c, q)'
    <3>1. ASSUME NEW j \in c.insts, NEW g \in nic[j], rules[g] # {}
          PROVE  g \in nic'[j] /\ rules'[g] # {}
      BY <1>3, <3>1
    <3> QED BY <1>1, <1>2, <3>1 DEF Spares
  <2> QED BY <2>5, <2>6
<1> QED BY <1>4, <1>5

\* Steps of a request that neither makes a group nor attaches one.
LEMMA CardsStay ==
    ASSUME NEW c, NetTyped(c), MemTyped(c), Cards(c), NEW r \in c.requests,
           Walls(c)!Step(r), firewallAt[r] # "attach", firewallAt'[r] # "attach",
           new'[r] = new[r] \/ new'[r] = None, nic' = nic,
           \A g \in Groups : rules'[g] = None <=> rules[g] = None,
           \A g \in Groups : rules[g] # None =>
              \A x \in rules'[g] : x \in rules[g] \/ Walls(c)!Movable(x)
    PROVE  Cards(c)'
<1>1. \A q \in c.requests : new'[q] = new[q]
  <2>1. new[r] = None
    BY DEF Cards
  <2> QED BY <2>1, OthersLeft
<1>2. \A q \in c.requests \ {r} : firewallAt'[q] = firewallAt[q] /\ firewallOp'[q] = firewallOp[q]
  BY OthersLeft
<1>3. \A i \in c.insts : \A g \in nic[i] : g \in Groups
  BY DEF NetTyped
<1>4. \A i \in c.insts : \A g \in nic[i] : rules'[g] # None
  BY <1>3 DEF Cards
<1>5. \A q \in c.requests :
         IF firewallAt'[q] = "attach"
         THEN /\ nic'[firewallOp'[q].inst] = {} /\ new'[q] \in Groups /\ rules'[new'[q]] # None
              /\ \A i \in c.insts : new'[q] \notin nic'[i]
         ELSE new'[q] = None
  BY <1>1, <1>2 DEF Cards
<1>6. \A p, q \in c.requests : p # q /\ new'[p] = new'[q] => new'[p] = None
  BY <1>1 DEF Cards
<1>7. ASSUME NEW g \in Groups, rules'[g] # None
      PROVE  /\ (\E i \in c.insts : g \in nic'[i]) \/ (\E q \in c.requests : new'[q] = g)
             /\ \A x \in rules'[g] : x # Walls(c)!Baseline /\ ~x.source
  <2>1. rules[g] # None
    BY <1>7
  <2>2. (\E i \in c.insts : g \in nic'[i]) \/ (\E q \in c.requests : new'[q] = g)
    BY <1>1, <2>1 DEF Cards
  <2>3. ASSUME NEW x \in rules'[g]
        PROVE  x # Walls(c)!Baseline /\ ~x.source
    <3>1. CASE x \in rules[g]
      BY <2>1, <3>1 DEF Cards
    <3>2. CASE Walls(c)!Movable(x)
      BY <3>2 DEF Walls!Movable, Walls!OpensPublic, Walls!Baseline
    <3> QED BY <2>1, <2>3, <3>1, <3>2
  <2> QED BY <2>2, <2>3
<1> QED BY <1>4, <1>5, <1>6, <1>7 DEF Cards

LEMMA CardsStep ==
    ASSUME NEW c, RepairsHold(c), WallsOf(c), Walls(c)!FirewallAssumption, RepairOnly(c),
           NEW r \in c.requests, Walls(c)!Step(r)
    PROVE  Cards(c)'
<1>1. NetTyped(c) /\ MemTyped(c) /\ Fit(c, r) /\ Cards(c) /\ Alone(c) /\ Carries(c, r)
  BY DEF RepairsHold, WallsTyped, MemTyped
<1>k. firewallAt[r] # "idle" => firewallOp[r].kind \in {"repair", "tighten", "delete"}
                               /\ firewallOp[r].inst \in c.insts
  BY <1>1 DEF Fit, RepairOnly
<1>s. ASSUME firewallAt[r] # "attach", rules' = rules, nic' = nic,
             \/ \E what, ls : Walls(c)!End(r, what) /\ Walls(c)!Lapse(r, ls)
             \/ \E step : Walls(c)!Go(r, step) /\ step # "attach" /\ UNCHANGED new
             \/ UNCHANGED <<firewallAt, new>>
      PROVE  Cards(c)'
  <2>1. firewallAt'[r] # "attach" /\ (new'[r] = new[r] \/ new'[r] = None)
    <3>1. CASE \E what, ls : Walls(c)!End(r, what) /\ Walls(c)!Lapse(r, ls)
      BY <1>1, <3>1, EndEffect
    <3> QED BY <1>1, <1>s, <3>1 DEF MemTyped, Walls!Go
  <2> QED BY <1>1, <1>s, <2>1, CardsStay
<1>2. CASE \/ Walls(c)!Begin(r) \/ Walls(c)!Fails(r) \/ Walls(c)!Scan(r)
           \/ Walls(c)!ReadList(r) \/ Walls(c)!ReadLists(r) \/ Walls(c)!Precheck(r)
  <2>1. firewallAt[r] # "attach" /\ rules' = rules /\ nic' = nic
    BY <1>2, Zenon DEF Walls!Begin, Walls!Fails, Walls!Scan, Walls!ReadList,
       Walls!ReadLists, Walls!Precheck, Walls!net
  <2>2. \/ \E what, ls : Walls(c)!End(r, what) /\ Walls(c)!Lapse(r, ls)
        \/ \E step : Walls(c)!Go(r, step) /\ step # "attach" /\ UNCHANGED new
    BY <1>2, Zenon DEF Walls!Begin, Walls!Fails, Walls!Scan, Walls!ReadList,
       Walls!ReadLists, Walls!Precheck, Walls!mem, Walls!Go
  <2> QED BY <1>s, <2>1, <2>2
<1>3. CASE Walls(c)!Resolve(r)
  <2>1. firewallAt[r] = "resolve" /\ rules' = rules /\ nic' = nic
    BY <1>3, Zenon DEF Walls!Resolve, Walls!net
  <2>2. PICK lost :
          \/ \E what : Walls(c)!End(r, what) /\ Walls(c)!Lapse(r, {})
          \/ /\ Walls(c)!Go(r, Walls(c)!AfterRead(r, Walls(c)!FirewallOf(firewallOp[r].inst, lost)))
             /\ UNCHANGED new
    BY <1>3, Zenon DEF Walls!Resolve
  <2>3. Walls(c)!AfterRead(r, Walls(c)!FirewallOf(firewallOp[r].inst, lost)) # "attach"
    BY <1>1, <2>1, AfterReadFits
  <2> QED BY <1>s, <2>1, <2>2, <2>3
<1>4. CASE Walls(c)!WriteList(r) \/ Walls(c)!Tighten(r)
  <2>1. firewallAt[r] # "attach" /\ rules' = rules /\ nic' = nic
    BY <1>4, Zenon DEF Walls!WriteList, Walls!Tighten
  <2>2. \/ \E what, ls : Walls(c)!End(r, what) /\ Walls(c)!Lapse(r, ls)
        \/ UNCHANGED <<firewallAt, new>>
    BY <1>4, Zenon DEF Walls!WriteList, Walls!Tighten, Walls!Put
  <2> QED BY <1>s, <2>1, <2>2
<1>5. CASE Walls(c)!Again(r)
  <2>1. firewallAt[r] = "again" /\ rules' = rules /\ nic' = nic
    BY <1>5, Zenon DEF Walls!Again, Walls!net
  <2>2. \/ Walls(c)!End(r, "") /\ Walls(c)!Lapse(r, {})
        \/ (Walls(c)!Go(r, "move") \/ Walls(c)!Go(r, "empty")) /\ UNCHANGED new
    BY <1>5, Zenon DEF Walls!Again
  <2> QED BY <1>s, <2>1, <2>2, Zenon
<1>6. CASE Walls(c)!Move(r)
  <2>1. firewallAt[r] = "move" /\ nic' = nic
    BY <1>6, Zenon DEF Walls!Move
  <2>2. firewallAt'[r] # "attach" /\ (new'[r] = new[r] \/ new'[r] = None)
    <3>1. \/ \E what, ls : Walls(c)!End(r, what) /\ Walls(c)!Lapse(r, ls)
          \/ Walls(c)!Go(r, "lists") /\ UNCHANGED new
      BY <1>6, Zenon DEF Walls!Move, Walls!mem
    <3>2. CASE \E what, ls : Walls(c)!End(r, what) /\ Walls(c)!Lapse(r, ls)
      BY <1>1, <3>2, EndEffect
    <3> QED BY <1>1, <3>1, <3>2 DEF MemTyped, Walls!Go
  <2>3. PICK g, xs : /\ rules' = [rules EXCEPT ![g] = rules[g] \cup xs] /\ rules[g] # None
                     /\ xs \subseteq move[r]
    BY <1>6, Zenon DEF Walls!Move
  <2>4. \A x \in xs : Walls(c)!Movable(x) /\ x \in AnyRule(c)
    BY <1>1, <2>3 DEF Carries, MemTyped
  <2>5. g \in Groups => rules'[g] = rules[g] \cup xs /\ rules'[g] \in SUBSET AnyRule(c)
    BY <1>1, <2>3, <2>4 DEF NetTyped
  <2>6. g \in Groups => rules'[g] # None
    BY <2>5 DEF WallsOf, AnyRule
  <2>7. \A m \in Groups \ {g} : rules'[m] = rules[m]
    BY <1>1, <2>3 DEF NetTyped
  <2>8. /\ \A m \in Groups : rules'[m] = None <=> rules[m] = None
        /\ \A m \in Groups : rules[m] # None =>
              \A x \in rules'[m] : x \in rules[m] \/ Walls(c)!Movable(x)
    BY <2>3, <2>4, <2>5, <2>6, <2>7
  <2> QED BY <1>1, <2>1, <2>2, <2>8, CardsStay
<1>7. CASE Walls(c)!Make(r)
  <2>1. nic' = nic /\ firewallAt[r] = "make" /\ firewallOp[r].kind = "repair"
    BY <1>1, <1>7, <1>k DEF Walls!Make, Fit
  <2>2. CASE nic[firewallOp[r].inst] # {}
    BY <1>7, <1>s, <2>1, <2>2 DEF Walls!Make, Walls!mem
  <2>3. CASE nic[firewallOp[r].inst] = {}
    <3>1. PICK g \in Groups \ Walls(c)!Made :
            /\ rules' = [rules EXCEPT ![g] = {}]
            /\ Walls(c)!Go(r, "attach") /\ new' = [new EXCEPT ![r] = g]
      BY <1>7, <2>1, <2>3 DEF Walls!Make
    <3>2. /\ rules[g] = None /\ rules'[g] = {} /\ \A m \in Groups \ {g} : rules'[m] = rules[m]
          /\ firewallAt'[r] = "attach" /\ new'[r] = g /\ firewallOp' = firewallOp
          /\ \A q \in c.requests \ {r} : firewallAt'[q] = firewallAt[q] /\ new'[q] = new[q]
      BY <1>1, <1>7, <2>1, <2>3, <3>1, Zenon
         DEF Walls!Made, Walls!Make, Walls!Go, NetTyped, MemTyped
    <3>3. {} # None /\ g # None
      BY <3>1 DEF WallsOf
    <3>4. \A i \in c.insts : g \notin nic[i]
      BY <1>1, <3>2 DEF Cards
    <3>5. \A q \in c.requests : firewallAt[q] = "attach" => new[q] # g /\ new[q] \in Groups
      BY <1>1, <3>2 DEF Cards
    <3>6. \A i \in c.insts : \A m \in nic[i] : m \in Groups /\ rules'[m] # None
      BY <1>1, <3>2, <3>4 DEF Cards, NetTyped
    <3>7. ASSUME NEW q \in c.requests
          PROVE  IF firewallAt'[q] = "attach"
                 THEN /\ nic'[firewallOp'[q].inst] = {} /\ new'[q] \in Groups
                      /\ rules'[new'[q]] # None
                      /\ \A i \in c.insts : new'[q] \notin nic'[i]
                 ELSE new'[q] = None
      BY <1>1, <2>1, <2>3, <3>1, <3>2, <3>3, <3>4, <3>5 DEF Cards
    <3>8. \A p, q \in c.requests : p # q /\ new'[p] = new'[q] => new'[p] = None
      <4>1. new[r] = None
        BY <1>1, <2>1 DEF Cards
      <4>2. \A q \in c.requests : new[q] # g
        BY <1>1, <3>3, <3>5 DEF Cards
      <4> QED BY <1>1, <3>2, <4>1, <4>2 DEF Cards
    <3>9. ASSUME NEW m \in Groups, rules'[m] # None
          PROVE  /\ (\E i \in c.insts : m \in nic'[i]) \/ (\E q \in c.requests : new'[q] = m)
                 /\ \A x \in rules'[m] : x # Walls(c)!Baseline /\ ~x.source
      <4>1. CASE m = g
        BY <3>2, <4>1
      <4>2. CASE m # g
        <5>1. rules'[m] = rules[m]
          BY <3>2, <4>2
        <5>2. new[r] # m
          <6>1. new[r] = None
            BY <1>1, <2>1 DEF Cards
          <6> QED BY <6>1 DEF WallsOf
        <5> QED BY <1>1, <2>1, <3>2, <3>9, <5>1, <5>2 DEF Cards
      <4> QED BY <4>1, <4>2
    <3> QED BY <2>1, <3>6, <3>7, <3>8, <3>9 DEF Cards
  <2> QED BY <2>2, <2>3
<1>8. CASE Walls(c)!Attach(r)
  <2> DEFINE g == new[r]
             i == firewallOp[r].inst
  <2>1. firewallAt[r] = "attach" /\ firewallOp' = firewallOp /\ i \in c.insts
    BY <1>1, <1>8, AtWork, <1>k, Zenon DEF Walls!Attach, Walls!Begin
  <2>2. nic[i] = {} /\ g \in Groups /\ rules[g] # None /\ g # None
        /\ \A j \in c.insts : g \notin nic[j]
    BY <1>1, <2>1 DEF Cards, WallsOf
  <2>3. firewallAt'[r] # "attach" /\ new'[r] = None
    <3>1. \/ \E what, ls : Walls(c)!End(r, what) /\ Walls(c)!Lapse(r, ls)
          \/ Walls(c)!Go(r, "again") /\ new' = [new EXCEPT ![r] = None]
      BY <1>8, Zenon DEF Walls!Attach
    <3>2. CASE \E what, ls : Walls(c)!End(r, what) /\ Walls(c)!Lapse(r, ls)
      BY <1>1, <3>2, EndEffect
    <3> QED BY <1>1, <3>1, <3>2 DEF MemTyped, Walls!Go
  <2>4. \A q \in c.requests \ {r} :
           /\ firewallAt'[q] = firewallAt[q] /\ new'[q] = new[q]
           /\ new[q] # g /\ (firewallAt[q] = "attach" => firewallOp[q].inst # i)
    BY <1>1, <2>1, <2>2, OthersLeft DEF Cards, Alone, Walls!Busy
  <2>5. \A p, q \in c.requests : p # q /\ new'[p] = new'[q] => new'[p] = None
    BY <1>1, <2>3, <2>4 DEF Cards
  <2>6. CASE nic' = [nic EXCEPT ![i] = {g}] /\ rules' = rules
    <3>1. nic'[i] = {g} /\ \A j \in c.insts \ {i} : nic'[j] = nic[j]
      BY <1>1, <2>1, <2>6 DEF NetTyped
    <3>2. \A j \in c.insts : \A m \in nic'[j] : rules'[m] # None
      BY <1>1, <2>2, <2>6, <3>1 DEF Cards
    <3>3. ASSUME NEW q \in c.requests
          PROVE  IF firewallAt'[q] = "attach"
                 THEN /\ nic'[firewallOp'[q].inst] = {} /\ new'[q] \in Groups
                      /\ rules'[new'[q]] # None
                      /\ \A j \in c.insts : new'[q] \notin nic'[j]
                 ELSE new'[q] = None
      <4>1. CASE q = r
        BY <2>3, <4>1
      <4>2. CASE q # r /\ firewallAt[q] = "attach"
        <5>1. firewallOp[q].inst \in c.insts
          BY <1>1, <4>2 DEF MemTyped, Fit, WallsOf
        <5> QED BY <1>1, <2>1, <2>4, <2>6, <3>1, <4>2, <5>1 DEF Cards
      <4>3. CASE q # r /\ firewallAt[q] # "attach"
        BY <1>1, <2>4, <4>3 DEF Cards
      <4> QED BY <4>1, <4>2, <4>3
    <3>4. \A m \in Groups : rules'[m] # None =>
             /\ (\E j \in c.insts : m \in nic'[j]) \/ (\E q \in c.requests : new'[q] = m)
             /\ \A x \in rules'[m] : x # Walls(c)!Baseline /\ ~x.source
      <4>1. \A m \in Groups : (\E j \in c.insts : m \in nic[j]) => \E j \in c.insts : m \in nic'[j]
        BY <2>2, <3>1
      <4>2. g \in nic'[i]
        BY <3>1
      <4> QED BY <1>1, <2>1, <2>4, <2>6, <4>1, <4>2 DEF Cards
    <3> QED BY <2>5, <3>2, <3>3, <3>4 DEF Cards
  <2>7. CASE nic' = nic /\ rules' = [rules EXCEPT ![g] = None]
    <3>1. rules'[g] = None /\ \A m \in Groups \ {g} : rules'[m] = rules[m]
      BY <1>1, <2>2, <2>7 DEF NetTyped
    <3>2. \A j \in c.insts : \A m \in nic'[j] : rules'[m] # None
      <4>1. \A j \in c.insts : \A m \in nic[j] : m \in Groups \ {g}
        BY <1>1, <2>2 DEF NetTyped
      <4> QED BY <1>1, <2>7, <3>1, <4>1 DEF Cards
    <3>3. ASSUME NEW q \in c.requests
          PROVE  IF firewallAt'[q] = "attach"
                 THEN /\ nic'[firewallOp'[q].inst] = {} /\ new'[q] \in Groups
                      /\ rules'[new'[q]] # None
                      /\ \A j \in c.insts : new'[q] \notin nic'[j]
                 ELSE new'[q] = None
      <4>1. CASE q = r
        BY <2>3, <4>1
      <4>2. CASE q # r
        BY <1>1, <2>1, <2>4, <2>7, <3>1, <4>2 DEF Cards
      <4> QED BY <4>1, <4>2
    <3>4. \A m \in Groups : rules'[m] # None =>
             /\ (\E j \in c.insts : m \in nic'[j]) \/ (\E q \in c.requests : new'[q] = m)
             /\ \A x \in rules'[m] : x # Walls(c)!Baseline /\ ~x.source
      BY <1>1, <2>4, <2>7, <3>1 DEF Cards
    <3> QED BY <2>5, <3>2, <3>3, <3>4 DEF Cards
  <2> QED BY <1>8, <2>6, <2>7, Zenon DEF Walls!Attach
<1>9. ~Walls(c)!Empty(r) /\ ~Walls(c)!Fill(r)
  BY <1>1, <1>k, Zenon DEF Walls!Empty, Walls!Fill, Fit, Walls!GroupKinds
<1> QED BY <1>2, <1>3, <1>4, <1>5, <1>6, <1>7, <1>8, <1>9 DEF Walls!Step

\* What a repair has read can be moved, or is on the card.
LEMMA ReadIsCarried ==
    ASSUME NEW c, NetTyped(c), Cards(c), Walls(c)!FirewallAssumption,
           NEW i \in c.insts, NEW f, f = Walls(c)!FirewallOf(i, {}),
           NEW l \in ListsOf[c.subnetOf[i]], NEW x \in lists[l], Walls(c)!Movable(x)
    PROVE  x \in Walls(c)!Wanted(f) \/ \E g \in nic[i] : x \in rules[g]
<1>1. l \in Lists /\ \E m \in Lists : x \in f.lists[m]
  <2>1. l \in Lists
    BY DEF Walls!FirewallAssumption
  <2> QED BY <2>1, SeenIsEffective
<1>2. ~x.source /\ x \in AnyRule(c)
  BY <1>1 DEF Walls!Movable, NetTyped
<1>3. Walls(c)!Effect(x) = x
  BY <1>2, SameEffect
<1>4. CASE x \notin {Walls(c)!Effect(y) : y \in UNION {f.rules[g] : g \in DOMAIN f.rules}}
  BY <1>1, <1>3, <1>4 DEF Walls!Wanted
<1>5. CASE x \in {Walls(c)!Effect(y) : y \in UNION {f.rules[g] : g \in DOMAIN f.rules}}
  <2>1. PICK y \in UNION {f.rules[g] : g \in DOMAIN f.rules} : x = Walls(c)!Effect(y)
    BY <1>5
  <2>2. PICK g \in DOMAIN f.rules : y \in f.rules[g]
    BY <2>1
  <2>3. g \in nic[i] /\ y \in rules[g]
    BY <2>2, SeenIsEffective
  <2>4. g \in Groups /\ rules[g] # None
    BY <2>3 DEF NetTyped, Cards
  <2>5. ~y.source /\ y \in AnyRule(c)
    BY <2>3, <2>4 DEF NetTyped, Cards
  <2> QED BY <2>1, <2>3, <2>5, SameEffect
<1> QED BY <1>4, <1>5

LEMMA OwnCarries ==
    ASSUME NEW c, RepairsHold(c), WallsOf(c), Walls(c)!FirewallAssumption, RepairOnly(c),
           NEW r \in c.requests, Walls(c)!Step(r)
    PROVE  Carries(c, r)' /\ Spares(c, r)'
<1>1. /\ NetTyped(c) /\ MemTyped(c) /\ WallsTyped(c) /\ FreshRead(c) /\ Fit(c, r) /\ Cards(c)
      /\ Carries(c, r) /\ Spares(c, r) /\ \A p \in c.requests : Carries(c, p)
  BY DEF RepairsHold, WallsTyped, MemTyped
<1>k. firewallAt[r] # "idle" => firewallOp[r].kind \in {"repair", "tighten", "delete"}
                               /\ firewallOp[r].inst \in c.insts
  BY <1>1 DEF Fit, RepairOnly
<1>m. \A x \in move[r] : Walls(c)!Movable(x)
  BY <1>1 DEF Carries
<1> DEFINE Both == Carries(c, r)' /\ Spares(c, r)'
<1>e. ASSUME NEW what, NEW ls, Walls(c)!End(r, what), Walls(c)!Lapse(r, ls)
      PROVE  Both
  <2>1. firewallAt'[r] = "end" /\ move'[r] = {}
    BY <1>1, <1>e, EndEffect
  <2> QED BY <2>1 DEF Carries, Spares
<1>l. ASSUME firewallAt'[r] \in {"resolve", "scan", "list", "write"}, move'[r] = move[r]
      PROVE  Both
  BY <1>l, <1>m DEF Carries, Spares
<1>2. CASE \/ Walls(c)!Begin(r) \/ Walls(c)!Scan(r) \/ Walls(c)!ReadList(r) \/ Walls(c)!WriteList(r)
           \/ Walls(c)!Fails(r)
  <2>1. \/ \E what, ls : Walls(c)!End(r, what) /\ Walls(c)!Lapse(r, ls)
        \/ /\ \E step \in {"resolve", "scan", "list", "write"} : Walls(c)!Go(r, step)
           /\ move' = move
    BY <1>2, Zenon
       DEF Walls!Begin, Walls!Scan, Walls!ReadList, Walls!WriteList, Walls!Fails, Walls!mem,
       Walls!Go, Walls!Put
  <2>2. CASE /\ \E step \in {"resolve", "scan", "list", "write"} : Walls(c)!Go(r, step)
             /\ move' = move
    BY <1>1, <1>l, <2>2 DEF MemTyped, Walls!Go
  <2> QED BY <1>e, <2>1, <2>2
<1>3. CASE Walls(c)!Resolve(r)
  <2>1. firewallAt[r] = "resolve" /\ UNCHANGED <<lists, rules, nic>>
    BY <1>3, Zenon DEF Walls!Resolve, Walls!net
  <2> DEFINE f == Walls(c)!FirewallOf(firewallOp[r].inst, {})
             next == Walls(c)!AfterRead(r, f)
  <2>2. \/ \E what : Walls(c)!End(r, what) /\ Walls(c)!Lapse(r, {})
        \/ /\ Walls(c)!Go(r, next) /\ seen' = [seen EXCEPT ![r] = f]
           /\ move' = [move EXCEPT ![r] = IF firewallOp[r].kind = "repair"
                                          THEN Walls(c)!Wanted(f) ELSE {}]
           /\ firewallOp' = firewallOp
    BY <1>3, Zenon DEF Walls!Resolve, Walls!Losses
  <2>3. CASE \E what : Walls(c)!End(r, what) /\ Walls(c)!Lapse(r, {})
    BY <1>e, <2>3
  <2>4. CASE /\ Walls(c)!Go(r, next) /\ seen' = [seen EXCEPT ![r] = f]
             /\ move' = [move EXCEPT ![r] = IF firewallOp[r].kind = "repair"
                                            THEN Walls(c)!Wanted(f) ELSE {}]
             /\ firewallOp' = firewallOp
    <3>1. /\ firewallAt'[r] = next /\ seen'[r] = f
          /\ move'[r] = IF firewallOp[r].kind = "repair" THEN Walls(c)!Wanted(f) ELSE {}
      BY <1>1, <2>4 DEF MemTyped, Walls!Go
    <3>2. /\ next \in {"end", "scan", "list", "lists", "make", "move", "empty"}
          /\ firewallOp[r].kind = "repair" => next \in {"end", "make", "move"}
          /\ next = "move" => firewallOp[r].kind = "repair" /\ DOMAIN f.rules # {}
      <4>1. next \in {"end", "scan", "list", "lists", "make", "move", "empty"}
        BY <1>1, <2>1, AfterReadFits, Zenon
      <4>2. ASSUME firewallOp[r].kind = "repair"
            PROVE  next \in {"end", "make", "move"} /\ (next = "move" => DOMAIN f.rules # {})
        <5> HIDE DEF f
        <5> QED BY <4>2 DEF Walls!AfterRead, Walls!ListKinds
      <4>3. firewallOp[r].kind # "repair" => next # "move"
        BY <1>k, <2>1 DEF Walls!AfterRead, Walls!ListKinds
      <4> QED BY <4>1, <4>2, <4>3
    <3>3. f.unread = {} /\ DOMAIN f.rules = nic[firewallOp[r].inst]
      BY <1>1, <1>k, <2>1, SeenIsEffective
    <3>4. \A x \in move'[r] : Walls(c)!Movable(x)
      BY <3>1 DEF Walls!Wanted
    <3>5. ASSUME firewallOp[r].kind = "repair", NEW l \in Walls(c)!MyLists(r), NEW x \in lists[l],
                 Walls(c)!Movable(x)
          PROVE  x \in move'[r] \/ \E g \in nic[firewallOp[r].inst] : x \in rules[g]
      BY <1>1, <1>k, <2>1, <3>1, <3>5, ReadIsCarried DEF Walls!MyLists
    <3>6. Walls(c)!MyLists(r)' = Walls(c)!MyLists(r)
      BY <2>4 DEF Walls!MyLists
    <3> HIDE DEF f, next
    <3>7. Carries(c, r)'
      BY <2>1, <2>4, <3>1, <3>2, <3>3, <3>4, <3>5, <3>6 DEF Carries
    <3>8. Spares(c, r)'
      BY <3>1, <3>2 DEF Spares
    <3> QED BY <3>7, <3>8
  <2> QED BY <2>2, <2>3, <2>4
<1>4. CASE Walls(c)!ReadLists(r) \/ Walls(c)!Precheck(r)
  <2>1. UNCHANGED <<lists, rules, nic>> /\ firewallAt[r] \in {"lists", "check"}
    BY <1>4, Zenon DEF Walls!ReadLists, Walls!Precheck, Walls!net
  <2>2. CASE \E what : Walls(c)!End(r, what) /\ Walls(c)!Lapse(r, {})
    BY <1>e, <2>2
  <2>3. ASSUME NEW step \in {"check", "tighten"}, Walls(c)!Go(r, step), move' = move,
               firewallOp' = firewallOp
        PROVE  Carries(c, r)' /\ firewallAt'[r] = step
    <3>1. firewallAt'[r] = step /\ Walls(c)!MyLists(r)' = Walls(c)!MyLists(r)
      BY <1>1, <2>3 DEF MemTyped, Walls!Go, Walls!MyLists
    <3> QED BY <1>1, <2>1, <2>3, <3>1 DEF Carries
  <2>4. CASE Walls(c)!ReadLists(r)
    <3>1. \/ \E what : Walls(c)!End(r, what) /\ Walls(c)!Lapse(r, {})
          \/ Walls(c)!Go(r, "check") /\ move' = move /\ firewallOp' = firewallOp
      BY <2>4, Zenon DEF Walls!ReadLists
    <3>2. CASE Walls(c)!Go(r, "check") /\ move' = move /\ firewallOp' = firewallOp
      BY <2>3, <3>2 DEF Spares
    <3> QED BY <2>2, <3>1, <3>2
  <2>5. CASE Walls(c)!Precheck(r)
    <3>1. CASE \E what : Walls(c)!End(r, what) /\ Walls(c)!Lapse(r, {})
      BY <2>2, <3>1
    <3>2. CASE /\ Walls(c)!AtRisk(r) = {} \/ firewallOp[r].force
               /\ Walls(c)!Go(r, "tighten") /\ UNCHANGED <<firewallOp, move, todo>>
      <4>1. Carries(c, r)'
        BY <2>3, <3>2
      <4>2. Spares(c, r)'
        BY <2>1, <3>2 DEF Spares, Walls!AtRisk, Walls!Bare
      <4> QED BY <4>1, <4>2
    <3> QED BY <2>5, <3>1, <3>2, Zenon DEF Walls!Precheck, Walls!mem
  <2> QED BY <1>4, <2>4, <2>5
<1>5. CASE Walls(c)!Tighten(r)
  <2>1. UNCHANGED <<rules, nic>> /\ firewallAt[r] = "tighten"
    BY <1>5, Zenon DEF Walls!Tighten
  <2>2. \/ \E what, ls : Walls(c)!End(r, what) /\ Walls(c)!Lapse(r, ls)
        \/ /\ \E l : todo' = [todo EXCEPT ![r] = @ \ {l}]
           /\ UNCHANGED <<firewallAt, firewallOp, move>>
    BY <1>5, Zenon DEF Walls!Tighten
  <2>3. CASE \E what, ls : Walls(c)!End(r, what) /\ Walls(c)!Lapse(r, ls)
    BY <1>e, <2>3
  <2>4. CASE /\ \E l : todo' = [todo EXCEPT ![r] = @ \ {l}]
             /\ UNCHANGED <<firewallAt, firewallOp, move>>
    <3>1. todo'[r] \subseteq todo[r] /\ Walls(c)!MyLists(r)' = Walls(c)!MyLists(r)
      BY <1>1, <2>4 DEF MemTyped, Walls!MyLists
    <3>2. \A l \in Lists : lists'[l] \subseteq lists[l] \cup {Walls(c)!Baseline}
      BY <1>1, NetMoves
    <3>3. ~Walls(c)!Movable(Walls(c)!Baseline) /\ Walls(c)!MyLists(r) \subseteq Lists
      BY <1>k, <2>1 DEF Walls!Movable, Walls!OpensPublic, Walls!Baseline,
         Walls!FirewallAssumption, Walls!MyLists
    <3>4. Carries(c, r)'
      BY <1>1, <2>1, <2>4, <3>1, <3>2, <3>3 DEF Carries
    <3>5. Spares(c, r)'
      BY <1>1, <2>1, <2>4, <3>1 DEF Spares
    <3> QED BY <3>4, <3>5
  <2> QED BY <2>2, <2>3, <2>4, Zenon
<1>6. CASE Walls(c)!Make(r) \/ Walls(c)!Attach(r)
  <2> DEFINE i == firewallOp[r].inst
  <2>1. lists' = lists /\ firewallAt[r] \in {"make", "attach"} /\ i \in c.insts
    BY <1>6, <1>k, Zenon DEF Walls!Make, Walls!Attach
  <2>2. \/ \E what : Walls(c)!End(r, what) /\ Walls(c)!Lapse(r, {})
        \/ /\ \E step \in {"attach", "again"} : Walls(c)!Go(r, step)
           /\ UNCHANGED <<firewallOp, move>>
    BY <1>6, Zenon DEF Walls!Make, Walls!Attach, Walls!mem
  <2>3. CASE \E what : Walls(c)!End(r, what) /\ Walls(c)!Lapse(r, {})
    BY <1>e, <2>3
  <2>4. CASE /\ \E step \in {"attach", "again"} : Walls(c)!Go(r, step)
             /\ UNCHANGED <<firewallOp, move>>
    <3>1. firewallAt'[r] \in {"attach", "again"} /\ Walls(c)!MyLists(r)' = Walls(c)!MyLists(r)
      BY <1>1, <2>4 DEF MemTyped, Walls!Go, Walls!MyLists
    <3>2. /\ nic[i] \subseteq nic'[i]
          /\ \A g \in nic[i] : rules[g] \subseteq rules'[g]
      <4>1. \A g \in nic[i] : g \in Groups /\ rules[g] # None
        BY <1>1, <2>1 DEF NetTyped, Cards
      <4> QED BY <1>1, <2>1, <4>1, NetMoves
    <3>3. Carries(c, r)'
      BY <1>1, <2>1, <2>4, <3>1, <3>2 DEF Carries
    <3> QED BY <3>1, <3>3 DEF Spares
  <2> QED BY <2>2, <2>3, <2>4
<1>7. CASE Walls(c)!Again(r)
  <2> DEFINE f == Walls(c)!FirewallOf(firewallOp[r].inst, {})
  <2>1. UNCHANGED <<lists, rules, nic>> /\ firewallAt[r] = "again" /\ firewallOp[r].kind = "repair"
    BY <1>1, <1>7, <1>k, Zenon DEF Walls!Again, Walls!net, Fit
  <2>2. \/ \E what : Walls(c)!End(r, what) /\ Walls(c)!Lapse(r, {})
        \/ /\ Walls(c)!Go(r, "move") /\ seen' = [seen EXCEPT ![r] = f] /\ DOMAIN f.rules # {}
           /\ UNCHANGED <<firewallOp, move>>
    BY <1>7, <2>1, Zenon DEF Walls!Again
  <2>3. CASE \E what : Walls(c)!End(r, what) /\ Walls(c)!Lapse(r, {})
    BY <1>e, <2>3
  <2>4. CASE /\ Walls(c)!Go(r, "move") /\ seen' = [seen EXCEPT ![r] = f] /\ DOMAIN f.rules # {}
             /\ UNCHANGED <<firewallOp, move>>
    <3>1. /\ firewallAt'[r] = "move" /\ seen'[r] = f
          /\ Walls(c)!MyLists(r)' = Walls(c)!MyLists(r)
      BY <1>1, <2>4 DEF MemTyped, Walls!Go, Walls!MyLists
    <3>2. DOMAIN f.rules = nic[firewallOp[r].inst]
      BY <1>1, <1>k, <2>1, SeenIsEffective
    <3> HIDE DEF f
    <3>3. Carries(c, r)'
      BY <1>1, <2>1, <2>4, <3>1, <3>2 DEF Carries
    <3> QED BY <3>1, <3>3 DEF Spares
  <2> QED BY <2>2, <2>3, <2>4
<1>8. CASE Walls(c)!Move(r)
  <2> DEFINE own == Walls(c)!Own(r)
             i == firewallOp[r].inst
  <2>1. UNCHANGED <<lists, nic>> /\ firewallAt[r] = "move" /\ i \in c.insts /\ rules[own] # None
    BY <1>8, <1>k, Zenon DEF Walls!Move
  <2>2. own \in nic[i]
    <3>1. DOMAIN seen[r].rules = nic[i] /\ nic[i] # {}
      BY <1>1, <2>1 DEF Carries
    <3>2. nic[i] \subseteq Nat
      BY <1>1, <2>1, Zenon DEF NetTyped, Walls!FirewallAssumption
    <3> QED BY <3>1, <3>2, FirstIsIn DEF Walls!Own, Walls!SeenGroups
  <2>3. own \in Groups
    BY <1>1, <2>1, <2>2 DEF NetTyped
  <2> HIDE DEF own
  <2>4. CASE \E what : Walls(c)!End(r, what) /\ Walls(c)!Lapse(r, {})
    BY <1>e, <2>4
  <2>5. CASE /\ rules' = [rules EXCEPT ![own] = @ \cup move[r]]
             /\ Walls(c)!Go(r, "lists") /\ UNCHANGED <<firewallOp, move>>
    <3>1. firewallAt'[r] = "lists" /\ Walls(c)!MyLists(r)' = Walls(c)!MyLists(r)
      BY <1>1, <2>5 DEF MemTyped, Walls!Go, Walls!MyLists
    <3>2. move[r] \subseteq rules'[own] /\ \A g \in nic[i] : rules[g] \subseteq rules'[g]
      BY <1>1, <2>1, <2>3, <2>5 DEF NetTyped
    <3>3. Carries(c, r)'
      BY <1>1, <2>1, <2>2, <2>5, <3>1, <3>2 DEF Carries
    <3> QED BY <3>1, <3>3 DEF Spares
  <2> QED BY <1>8, <2>4, <2>5, Zenon DEF Walls!Move, Walls!mem, own
<1>9. ~Walls(c)!Empty(r) /\ ~Walls(c)!Fill(r)
  BY <1>1, <1>k, Zenon DEF Walls!Empty, Walls!Fill, Fit, Walls!GroupKinds
<1> QED BY <1>2, <1>3, <1>4, <1>5, <1>6, <1>7, <1>8, <1>9 DEF Walls!Step

LEMMA RepairsInit ==
    ASSUME NEW c, Walls(c)!FirewallAssumption, WallsOf(c), Walls(c)!Init,
           \A f \in c.initGroups : \A g \in Groups : f[g] # None =>
              \A x \in f[g] : x # Walls(c)!Baseline /\ ~x.source
    PROVE  RepairsHold(c)
<1>1. WallsTyped(c)
  BY InitWalls
<1>2. /\ rules \in c.initGroups /\ Walls(c)!Made = UNION {nic[i] : i \in c.insts}
      /\ \A r \in c.requests : /\ firewallAt[r] = "idle" /\ firewallOp[r] = Walls(c)!Idle
                               /\ new[r] = None /\ move[r] = {} /\ fresh[r] = {}
  BY Zenon DEF Walls!Init
<1>3. FreshRead(c) /\ Alone(c)
  BY <1>2 DEF FreshRead, Alone, Walls!Busy
<1>4. Cards(c)
  BY <1>2 DEF Cards, Walls!Made
<1>5. \A r \in c.requests : Carries(c, r) /\ Spares(c, r)
  BY <1>2 DEF Carries, Spares
<1> QED BY <1>1, <1>3, <1>4, <1>5 DEF RepairsHold

LEMMA RepairsNext ==
    ASSUME NEW c, RepairsHold(c), WallsOf(c), Walls(c)!FirewallAssumption, RepairOnly(c),
           c.apart, c.console = {}, Walls(c)!Next
    PROVE  RepairsHold(c)'
<1>1. PICK r \in c.requests : Walls(c)!Step(r)
  BY DEF Walls!Next, Walls!EditList, Walls!EditGroup
<1>2. WallsTyped(c)' /\ FreshRead(c)'
  BY WallsTypeStep, FreshStep DEF RepairsHold
<1>3. Alone(c)'
  BY <1>1, AloneStep DEF RepairsHold
<1>4. Cards(c)'
  BY <1>1, CardsStep
<1>5. \A q \in c.requests : Carries(c, q)' /\ Spares(c, q)'
  BY <1>1, OwnCarries, OthersCarry
<1> QED BY <1>2, <1>3, <1>4, <1>5 DEF RepairsHold

\* Who tightens a list finds that what goes with it is let in by a group.
LEMMA RepairsSay ==
    ASSUME NEW c, RepairsHold(c), WallsOf(c), Walls(c)!FirewallAssumption, RepairOnly(c),
           c.console = {}, Walls(c)!Next
    PROVE  Walls(c)!SelfKept /\ Walls(c)!NoneShutOut
<1> SUFFICES ASSUME NEW r \in c.requests, firewallAt[r] = "tighten",
                    \E l \in Lists : Walls(c)!Writes(r, l)
             PROVE  /\ firewallOp[r].kind = "repair" =>
                         \A x \in Walls(c)!Effective(firewallOp[r].inst) :
                            Walls(c)!Movable(x) => x \in Walls(c)!Effective(firewallOp[r].inst)'
                    /\ ~firewallOp[r].force =>
                         \A i \in c.insts : Walls(c)!WayIn(i) => Walls(c)!WayIn(i)'
  BY DEF Walls!SelfKept, Walls!NoneShutOut
<1>1. /\ NetTyped(c) /\ MemTyped(c) /\ FreshRead(c) /\ Fit(c, r) /\ Cards(c)
      /\ Carries(c, r) /\ Spares(c, r)
  BY DEF RepairsHold, WallsTyped, MemTyped
<1>2. firewallOp[r].inst \in c.insts
  BY <1>1 DEF Fit, RepairOnly
<1>3. Walls(c)!Tighten(r)
  <2>1. PICK l \in Lists : /\ lists'[l] # lists[l]
                           /\ ~(firewallAt'[r] = firewallAt[r] /\ todo'[r] = todo[r])
    BY DEF Walls!Writes
  <2>2. PICK q \in c.requests : Walls(c)!Step(q)
    BY DEF Walls!Next, Walls!EditList, Walls!EditGroup
  <2>3. Walls(c)!Step(r)
    BY <1>1, <2>1, <2>2, OthersLeft
  <2>4. ~Walls(c)!Fails(r)
    BY <2>1, Zenon DEF Walls!Fails, Walls!net
  <2> QED BY <2>3, <2>4 DEF Walls!Step, Walls!Begin, Walls!Resolve, Walls!Scan, Walls!ReadList,
          Walls!WriteList, Walls!ReadLists, Walls!Precheck, Walls!Make, Walls!Attach,
          Walls!Again, Walls!Move, Walls!Empty, Walls!Fill
<1>4. PICK l \in todo[r] \cap fresh[r] :
        /\ lists' = [lists EXCEPT ![l] = Walls(c)!Tightened(l, read[r][l])]
        /\ rules' = rules /\ nic' = nic
  BY <1>3, Zenon DEF Walls!Tighten
<1>5. l \in Lists /\ \A m \in Lists \ {l} : lists'[m] = lists[m]
  BY <1>1, <1>4 DEF NetTyped, MemTyped
<1>6. ASSUME firewallOp[r].kind = "repair", NEW x \in Walls(c)!Effective(firewallOp[r].inst),
             Walls(c)!Movable(x)
      PROVE  x \in Walls(c)!Effective(firewallOp[r].inst)'
  <2>1. PICK i : i = firewallOp[r].inst
    OBVIOUS
  <2>2. CASE \E g \in nic[i] : x \in rules[g]
    <3>1. \E g \in nic'[i] : x \in rules'[g]
      BY <1>4, <2>2
    <3>2. x \in Walls(c)!Effective(i)'
      BY <3>1, EffectiveIs
    <3>3. firewallOp'[r] = firewallOp[r]
      BY <1>3, Zenon DEF Walls!Tighten, Walls!End
    <3> QED BY <2>1, <3>2, <3>3
  <2>3. CASE \E m \in ListsOf[c.subnetOf[i]] : x \in lists[m]
    BY <1>1, <1>6, <2>1, <2>2, <2>3 DEF Carries, Walls!MyLists
  <2> QED BY <1>6, <2>1, <2>2, <2>3, EffectiveIs
<1>7. ASSUME ~firewallOp[r].force, NEW i \in c.insts, Walls(c)!WayIn(i)
      PROVE  Walls(c)!WayIn(i)'
  <2>1. ListsOf[c.subnetOf[i]] \subseteq Lists
    BY DEF Walls!FirewallAssumption
  <2>2. CASE l \notin ListsOf[c.subnetOf[i]]
    <3>1. Walls(c)!Effective(i)' = Walls(c)!Effective(i)
      BY <1>4, <1>5, <2>1, <2>2 DEF Walls!Effective
    <3> QED BY <1>7, <3>1 DEF Walls!WayIn
  <2>3. CASE l \in ListsOf[c.subnetOf[i]]
    <3>1. PICK g \in nic[i] : rules[g] # {}
      BY <1>1, <1>4, <1>7, <2>3 DEF Spares
    <3>2. g \in Groups /\ rules[g] # None /\ rules[g] \subseteq AnyRule(c)
      BY <1>1, <3>1 DEF NetTyped, Cards
    <3>3. PICK x \in rules[g] : x # Walls(c)!Baseline
      BY <1>1, <3>1, <3>2 DEF Cards
    <3>4. x \in Walls(c)!Effective(i)'
      BY <1>4, <3>1, <3>3, EffectiveIs
    <3> QED BY <3>3, <3>4 DEF Walls!WayIn
  <2> QED BY <2>2, <2>3
<1> QED BY <1>6, <1>7

\* A group is on a card, or somebody is about to put it there.
LEMMA RepairsLeaveNone ==
    ASSUME NEW c, RepairsHold(c), WallsOf(c)
    PROVE  Walls(c)!NoOrphans
BY DEF RepairsHold, Cards, Walls!NoOrphans, Walls!Made, WallsOf

------------------------------------------------------------------------------
(* Tags *)

\* The steps of changes of tags and of terminations.
TagSteps == {"idle", "tags", "merge", "guard", "kill", "end"}

\* One request changes tags at a time, what it has read is so, and protection that the user
\* was told of is in the tags, which whoever has passed the guard has looked at.
TagsHold ==
    /\ instanceAt \in [TagRequests -> TagSteps]
    /\ instanceOp \in [TagRequests -> Tags!Kinds \cup {None}]
    /\ DOMAIN had = TagRequests /\ shield \in BOOLEAN
    /\ \A r \in TagRequests :
          /\ instanceAt[r] \in {"tags", "merge"} => instanceOp[r] \in Tags!TagKinds
          /\ instanceAt[r] \in {"guard", "kill"} => instanceOp[r] = "terminate"
          /\ instanceAt[r] = "merge" => had[r] = tags
          /\ r \in under => instanceAt[r] # "kill"
    /\ \A r, q \in Tags!Busy :
          instanceOp[r] \in Tags!TagKinds /\ instanceOp[q] \in Tags!TagKinds => r = q
    /\ shield \/ under # {} => "protected" \in tags

LEMMA TagsInit ==
    ASSUME Tags!Init
    PROVE  TagsHold
BY Zenon DEF Tags!Init, TagsHold, TagSteps, Tags!Busy

LEMMA TagsNext ==
    ASSUME TagsHold, Tags!Next
    PROVE  TagsHold'
<1>1. PICK r \in TagRequests :
         \/ Tags!Fails(r) \/ Tags!ReadTags(r) \/ Tags!WriteTags(r) \/ Tags!Guard(r)
         \/ Tags!Terminate(r)
         \/ \E kind \in {"protect", "release", "note", "clear note", "terminate"} : Tags!Begin(r, kind)
  <2>1. \A r \in TagRequests :
           /\ ~Tags!CheckPower(r) /\ ~Tags!Switch(r) /\ ~Tags!Clean(r) /\ ~Tags!Capture(r)
           /\ ~Tags!Poll(r) /\ ~Tags!ReadShot(r)
    BY DEF TagsHold, TagSteps, Tags!CheckPower, Tags!Switch, Tags!Clean, Tags!Capture,
       Tags!Poll, Tags!ReadShot
  <2> QED BY <2>1, Zenon DEF Tags!Next, Tags!Step
<1>2. CASE Tags!Fails(r)
  <2>1. /\ instanceAt' = [instanceAt EXCEPT ![r] = "end"] /\ Tags!Busy' \subseteq Tags!Busy
        /\ UNCHANGED <<tags, instanceOp, had, shield, under>>
    BY <1>2 DEF Tags!Fails, Tags!Go, Tags!Busy, TagsHold
  <2> QED BY <2>1 DEF TagsHold, TagSteps
<1>3. CASE Tags!ReadTags(r)
  <2>1. /\ instanceAt[r] = "tags" /\ instanceAt' = [instanceAt EXCEPT ![r] = "merge"]
        /\ had' = [had EXCEPT ![r] = tags] /\ UNCHANGED <<tags, instanceOp, shield, under>>
    BY <1>3 DEF Tags!ReadTags, Tags!Go
  <2>2. Tags!Busy' = Tags!Busy
    BY <2>1 DEF Tags!Busy, TagsHold
  <2> QED BY <2>1, <2>2 DEF TagsHold, TagSteps
<1>4. CASE Tags!WriteTags(r)
  <2>1. /\ instanceAt[r] = "merge" /\ instanceAt' = [instanceAt EXCEPT ![r] = "end"]
        /\ tags' = Tags!Merged(instanceOp[r], had[r]) /\ UNCHANGED <<instanceOp, had>>
        /\ under' = IF instanceOp[r] = "release" THEN {} ELSE under
        /\ shield' \in BOOLEAN /\ (instanceOp[r] = "release" => ~shield')
        /\ instanceOp[r] \notin {"protect", "release"} => shield' = shield
    BY <1>4, Zenon DEF Tags!WriteTags, Tags!Go, TagsHold
  <2>2. had[r] = tags /\ instanceOp[r] \in Tags!TagKinds /\ r \in Tags!Busy
    BY <2>1 DEF TagsHold, Tags!Busy
  <2>3. /\ Tags!Busy' \subseteq Tags!Busy \ {r}
        /\ \A q \in TagRequests \ {r} : instanceAt'[q] = instanceAt[q] /\ instanceAt[q] # "merge"
    BY <2>1, <2>2 DEF Tags!Busy, TagsHold
  <2>4. shield' \/ under' # {} => "protected" \in tags'
    BY <2>1, <2>2, Zenon DEF TagsHold, Tags!Merged, Tags!TagKinds
  <2>5. instanceAt' \in [TagRequests -> TagSteps] /\ instanceAt'[r] = "end" /\ under' \subseteq under
    BY <2>1 DEF TagsHold, TagSteps
  <2> QED BY <2>1, <2>3, <2>4, <2>5 DEF TagsHold
<1>5. CASE Tags!Guard(r)
  <2>1. /\ instanceAt[r] = "guard" /\ UNCHANGED <<tags, instanceOp, had, shield, under>>
        /\ instanceAt' = [instanceAt EXCEPT ![r] = IF "protected" \in tags THEN "end" ELSE "kill"]
    BY <1>5 DEF Tags!Guard, Tags!Go
  <2>2. Tags!Busy' \subseteq Tags!Busy
    BY <2>1 DEF Tags!Busy, TagsHold
  <2> QED BY <2>1, <2>2 DEF TagsHold, TagSteps
<1>6. CASE Tags!Terminate(r)
  <2>1. /\ instanceAt' = [instanceAt EXCEPT ![r] = "end"] /\ Tags!Busy' \subseteq Tags!Busy
        /\ UNCHANGED <<tags, instanceOp, had, shield, under>>
    BY <1>6 DEF Tags!Terminate, Tags!Go, Tags!Busy, TagsHold
  <2> QED BY <2>1 DEF TagsHold, TagSteps
<1>7. ASSUME NEW kind \in {"protect", "release", "note", "clear note", "terminate"},
             Tags!Begin(r, kind)
      PROVE  TagsHold'
  <2>1. /\ instanceAt[r] = "idle" /\ UNCHANGED <<tags, had, shield>>
        /\ instanceAt' = [instanceAt EXCEPT ![r] = IF kind = "terminate" THEN "guard" ELSE "tags"]
        /\ instanceOp' = [instanceOp EXCEPT ![r] = kind]
        /\ under' \subseteq under \cup {r} /\ (under' # {} => shield \/ under # {})
    BY <1>7, Zenon DEF Tags!Begin, Tags!First, Tags!TagKinds
  <2>2. kind # "terminate" =>
           kind \in Tags!TagKinds /\ \A q \in Tags!Busy : instanceOp[q] \notin Tags!TagKinds
    BY <1>7, Zenon DEF Tags!Begin, Tags!TagKinds
  <2>3. /\ Tags!Busy' \subseteq Tags!Busy \cup {r} /\ kind \in Tags!Kinds
        /\ \A q \in TagRequests \ {r} :
              instanceAt'[q] = instanceAt[q] /\ instanceOp'[q] = instanceOp[q]
        /\ instanceOp'[r] = kind
        /\ instanceAt'[r] = IF kind = "terminate" THEN "guard" ELSE "tags"
    BY <2>1, Zenon DEF Tags!Busy, TagsHold, Tags!Kinds
  <2>4. \A p, q \in Tags!Busy' :
           instanceOp'[p] \in Tags!TagKinds /\ instanceOp'[q] \in Tags!TagKinds => p = q
    <3>1. kind \in Tags!TagKinds => \A q \in Tags!Busy : instanceOp[q] \notin Tags!TagKinds
      BY <2>2, Zenon DEF Tags!TagKinds
    <3>2. r \in TagRequests /\ Tags!Busy \subseteq TagRequests /\ Tags!Busy' \subseteq TagRequests
      BY Zenon DEF Tags!Busy
    <3>3. \A p, q \in Tags!Busy :
             instanceOp[p] \in Tags!TagKinds /\ instanceOp[q] \in Tags!TagKinds => p = q
      BY Zenon DEF TagsHold
    <3> QED BY <2>3, <3>1, <3>2, <3>3, Zenon
  <2>5. /\ instanceAt' \in [TagRequests -> TagSteps]
        /\ instanceOp' \in [TagRequests -> Tags!Kinds \cup {None}]
    BY <2>1, <2>3, Zenon DEF TagsHold, TagSteps
  <2> QED BY <2>1, <2>2, <2>3, <2>4, <2>5, Zenon DEF TagsHold
<1> QED BY <1>1, <1>2, <1>3, <1>4, <1>5, <1>6, <1>7, Zenon

LEMMA TagsSay ==
    ASSUME TagsHold, Tags!Next
    PROVE  Tags!OthersKept /\ Tags!ShieldHolds
<1>1. Tags!ShieldHolds
  BY DEF TagsHold, Tags!ShieldHolds
<1>2. ASSUME NEW r \in TagRequests, instanceAt[r] = "merge", instanceAt'[r] = "end", tags' # tags
      PROVE  tags' = Tags!Merged(instanceOp[r], tags)
  <2>1. Tags!WriteTags(r)
    <3>1. PICK q \in TagRequests : Tags!WriteTags(q)
      BY <1>2, Zenon
         DEF Tags!Next, Tags!Step, Tags!Fails, Tags!Begin, Tags!ReadTags, Tags!CheckPower,
         Tags!Switch, Tags!Guard, Tags!Terminate, Tags!Clean, Tags!Capture, Tags!Poll,
         Tags!ReadShot
    <3>2. q = r
      BY <1>2, <3>1 DEF Tags!WriteTags, Tags!Go, TagsHold
    <3> QED BY <3>1, <3>2
  <2> QED BY <1>2, <2>1 DEF Tags!WriteTags, TagsHold
<1>3. Tags!OthersKept
  BY <1>2, Zenon DEF Tags!OthersKept, Tags!Merged, TagsHold, Tags!TagKinds
<1> QED BY <1>1, <1>3

FirewallRepairs ==
    /\ part = "repairs" => RepairsHold(Repairing)
    /\ part = "tags" => TagsHold

\* With repairs, tightenings and deletions for different instances at once: a repair leaves
\* what can be moved where it was reachable, and nobody in whatever subnet who had a way in
\* loses it unless that was asked for (auto_repair_network, tighten_security_lists, the check
\* of what is at risk). With changes of tags one at a time and terminations at any moment: a
\* protection the user was told of holds (ensure_instance_not_protected).
THEOREM RepairsHitNobody == PartSpec => NobodyIsHit
<1>a. /\ Walls(Repairing)!FirewallAssumption /\ WallsOf(Repairing) /\ RepairOnly(Repairing)
      /\ Repairing.apart /\ Repairing.console = {}
      /\ \A f \in Repairing.initGroups : \A g \in Groups : f[g] # None =>
            \A x \in f[g] : x # Walls(Repairing)!Baseline /\ ~x.source
  BY PartsAssumption, FirewallParts DEF RepairOnly
<1>1. PartInit => FirewallRepairs
  BY <1>a, RepairsInit, TagsInit, Zenon DEF PartInit, FirewallRepairs
<1>2. ASSUME FirewallRepairs, [PartNext]_all
      PROVE  FirewallRepairs'
  <2>1. CASE PartNext
    BY <1>a, <1>2, <2>1, StepsOfParts, RepairsNext, TagsNext, Zenon DEF FirewallRepairs
  <2>2. CASE UNCHANGED all
    <3>1. UNCHANGED part /\ UNCHANGED firewall /\ UNCHANGED instance
      BY <2>2 DEF all
    <3>2. RepairsHold(Repairing)' = RepairsHold(Repairing)
      BY <3>1 DEF firewall, RepairsHold, WallsTyped, NetTyped, MemTyped, Fit, FreshRead, Alone,
         Cards, Carries, Spares, Walls!Target, Walls!MyLists, Walls!Busy
    <3>3. TagsHold' = TagsHold
      BY <3>1 DEF instance, TagsHold, Tags!Busy
    <3> QED BY <1>2, <3>1, <3>2, <3>3 DEF FirewallRepairs
  <2> QED BY <1>2, <2>1, <2>2
<1>3. FirewallRepairs /\ [PartNext]_all =>
        [/\ part = "repairs" => Walls(Repairing)!SelfKept /\ Walls(Repairing)!NoneShutOut
         /\ part = "tags" => Tags!ShieldHolds]_all
  BY <1>a, StepsOfParts, RepairsSay, TagsSay, Zenon DEF FirewallRepairs
<1> QED BY <1>1, <1>2, <1>3, PTL DEF PartSpec, NobodyIsHit

==============================================================================
