------------------------------ MODULE Firewall ------------------------------
(***************************************************************************)
(* The firewall of an instance as the panel edits it (app/oci_client.py):  *)
(* the security lists of its subnet, which other subnets may use too, and  *)
(* the network security groups (NSGs) of its network card. What reaches an *)
(* instance is what any of them lets in. A list is read and written back   *)
(* whole, under the etag that was read; an NSG is changed rule by rule.    *)
(* "Repair" moves what the subnet lets in to the instance's own NSG and    *)
(* then tightens the subnet. Requests overlap, and the Oracle console      *)
(* changes the same resources. Oracle itself is external.                  *)
(*                                                                         *)
(* One address family; a rule of a list stands for its content (a set has  *)
(* no order and no duplicates), descriptions and stateless rules are left  *)
(* out; an NSG is the set of its ingress rules.                            *)
(***************************************************************************)
EXTENDS Naturals, FiniteSets, FiniteSetsExt, Functions

CONSTANTS
    Insts, Subnets, Lists, Groups, Requests, None,
    Rules,          \* the ingress rules of a run
    SubnetOf,       \* the subnet of each instance
    ListsOf,        \* the security lists of each subnet
    Mine,           \* the lists the panel made
    Ops,            \* what is asked for in a run
    InitLists, InitNics, InitGroups,    \* what there may be at first
    Limit,          \* ingress rules a list may have
    Lossy,          \* whether the read of a list, and the deletion of an NSG, may fail
    Apart,          \* whether requests for one instance do not overlap (an assumption of a run)
    Console,        \* what is changed from outside: "list", "group"
    MaxEdits        \* bound: changes from outside

Ports == {"any", "22", "80", "none"}

FirewallAssumption ==
    /\ Rules \subseteq [from: {"any", "lan", "cdn"}, proto: {"all", "tcp", "icmp"},
                        port: Ports, source: BOOLEAN]
    /\ SubnetOf \in [Insts -> Subnets] /\ ListsOf \in [Subnets -> SUBSET Lists]
    /\ Mine \subseteq Lists /\ Groups \subseteq Nat /\ {Limit, MaxEdits} \subseteq Nat
    /\ Lossy \in BOOLEAN /\ Apart \in BOOLEAN /\ Console \subseteq {"list", "group"}

VARIABLES
    lists,      \* the ingress rules of each security list
    out,        \* the lists that let everything out
    rules,      \* the ingress rules of each NSG, None if there is no such NSG
    nic,        \* the NSGs on each instance's card
    at, op,     \* of each request: its next step, and what it asks for
    seen,       \* the firewall as it last read it
    read,       \* the lists as it read them to write them back
    fresh,      \* the lists not written since it read them: their etag still matches
    todo,       \* the lists it has to tighten, the NSGs it has to empty
    move,       \* the rules it moves to the NSG
    new,        \* the NSG it has made and not attached yet
    told,       \* what it told of the reachability at its end
    edits       \* changes from outside so far

net == <<lists, out, rules, nic>>
mem == <<seen, read, fresh, todo, move, new>>
vars == <<net, at, op, mem, told, edits>>

-----------------------------------------------------------------------------
(* Rules *)

\* "Opens ports to the public": ICMP does not.
OpensPublic(x) == x.proto \in {"all", "tcp"} /\ x.from = "any"

\* What of a rule of a list can be moved: a source port cannot be written.
Movable(x) == OpensPublic(x) /\ ~x.source

\* Two rules are taken for one by this, which has no source port.
Effect(x) == [x EXCEPT !.source = FALSE]

WideOpen(x) == x.proto = "all" /\ x.from = "any"

\* The source port is not looked at.
Scope(x, port) ==
    IF x.proto \notin {"tcp", "all"} \/ (x.proto = "tcp" /\ x.port \notin {"any", port}) THEN ""
    ELSE IF x.from = "any" THEN "public" ELSE "narrow"

Baseline == [from |-> "any", proto |-> "icmp", port |-> "none", source |-> FALSE]
Everything == [from |-> "any", proto |-> "all", port |-> "none", source |-> FALSE]
Cdn == [from |-> "cdn", proto |-> "tcp", port |-> "80", source |-> FALSE]

\* A rule of a list as good as Cdn or better.
CoversCdn(x) == Scope(x, "80") # "" /\ x.from \in {"any", "cdn"}

Made == {g \in Groups: rules[g] # None}

Effective(i) == (UNION {lists[l]: l \in ListsOf[SubnetOf[i]]}) \cup (UNION {rules[g]: g \in nic[i]})

MyLists(r) == ListsOf[SubnetOf[op[r].inst]]

-----------------------------------------------------------------------------
(* What a request has read *)

Nothing == [lists |-> [l \in Lists |-> {}], unread |-> {}, rules |-> <<>>]

FirewallOf(i, lost) ==
    [lists |-> [l \in Lists |-> IF l \in ListsOf[SubnetOf[i]] \ lost THEN lists[l] ELSE {}],
     unread |-> lost,
     rules |-> [g \in nic[i] |-> rules[g]]]

SeenGroups(r) == DOMAIN seen[r].rules

SeenRules(r) == UNION {seen[r].rules[g]: g \in SeenGroups(r)}

-----------------------------------------------------------------------------
(* Beginning *)

\* What the routes ask for: to change one list, the subnet, or the instance's NSGs.
ListKinds == {"add", "delete", "clear", "open", "cdn"}
SubnetKinds == {"tighten", "repair"}
GroupKinds == {"wipe", "openall"}

Idle == [kind |-> "idle", inst |-> None, list |-> None, rules |-> {}, force |-> FALSE,
         foreign |-> FALSE, preview |-> FALSE]

Init ==
    /\ lists \in InitLists /\ nic \in InitNics /\ rules \in InitGroups
    /\ Made = UNION {nic[i]: i \in Insts}
    /\ out = {} /\ edits = 0
    /\ at = [r \in Requests |-> "idle"] /\ op = [r \in Requests |-> Idle]
    /\ seen = [r \in Requests |-> Nothing]
    /\ read = [r \in Requests |-> [l \in Lists |-> {}]]
    /\ fresh = [r \in Requests |-> {}] /\ todo = [r \in Requests |-> {}]
    /\ move = [r \in Requests |-> {}] /\ new = [r \in Requests |-> None] /\ told = [r \in Requests |-> ""]

Busy == {r \in Requests: at[r] \notin {"idle", "end"}}

Begin(r) ==
    /\ at[r] = "idle"
    /\ \E o \in Ops:
        /\ Apart => \A q \in Busy: op[q].inst # o.inst
        /\ op' = [op EXCEPT ![r] = o]
    /\ at' = [at EXCEPT ![r] = "resolve"]
    /\ UNCHANGED <<net, mem, told, edits>>

Go(r, step) == at' = [at EXCEPT ![r] = step]

\* What it read is of no more use.
Forget(r) ==
    /\ seen' = [seen EXCEPT ![r] = Nothing]
    /\ read' = [read EXCEPT ![r] = [l \in Lists |-> {}]]
    /\ todo' = [todo EXCEPT ![r] = {}] /\ move' = [move EXCEPT ![r] = {}]
    /\ new' = [new EXCEPT ![r] = None]

\* What r read is out of date no more than it was; what others read of ls is.
Lapse(r, ls) == fresh' = [q \in Requests |-> IF q = r THEN {} ELSE fresh[q] \ ls]

End(r, what) ==
    /\ Go(r, "end") /\ told' = [told EXCEPT ![r] = what]
    /\ Forget(r) /\ UNCHANGED <<op, edits>>

\* Any call to Oracle may fail: the request ends. What it wrote before stays.
Fails(r) ==
    /\ r \in Busy /\ at[r] \notin {"attach"}
    /\ End(r, "") /\ Lapse(r, {}) /\ UNCHANGED net

-----------------------------------------------------------------------------
(* Reading the firewall: every kind of request starts here. *)

\* Which of the lists the request asks for: the one it names, or the only one.
Target(r) == IF op[r].list = None /\ Cardinality(MyLists(r)) = 1
             THEN CHOOSE l \in MyLists(r): TRUE ELSE op[r].list

\* The rules of the subnet that go to the instance's own NSG.
Wanted(f) ==
    LET have == {Effect(x): x \in UNION {f.rules[g]: g \in DOMAIN f.rules}}
    IN  {x \in UNION {f.lists[l]: l \in Lists}: Movable(x) /\ Effect(x) \notin have}

\* Whether the wiped instance can be reached by SSH, for the audit trail: no
\* sentence of the verdict has a warning sign.
SshAfter(f) ==
    LET all == UNION {f.lists[l]: l \in Lists}
    IN  \/ f.unread # {}
        \/ (\E x \in all: Scope(x, "22") = "public") /\ ~ \E x \in all: WideOpen(x)

\* What comes after the firewall is read.
AfterRead(r, f) ==
    LET o == op[r] IN
    CASE o.kind \in ListKinds ->
            IF f.unread = {} /\ Target(r) \in MyLists(r)
            THEN IF o.kind = "cdn" THEN "scan" ELSE "list"
            ELSE "end"
      [] o.kind = "tighten" -> "lists"
      [] o.kind = "repair" ->
            IF \/ f.unread # {} \/ o.preview
               \/ DOMAIN f.rules # {} /\ ~ \E l \in Lists: \E x \in f.lists[l]: OpensPublic(x)
            THEN "end" ELSE IF DOMAIN f.rules = {} THEN "make" ELSE "move"
      [] o.kind = "wipe" -> IF DOMAIN f.rules = {} THEN "end" ELSE "empty"
      [] o.kind = "openall" -> IF DOMAIN f.rules = {} THEN "make" ELSE "empty"

Losses == IF Lossy THEN SUBSET Lists ELSE {{}}

Resolve(r) ==
    /\ at[r] = "resolve"
    /\ \E lost \in Losses:
        LET f == FirewallOf(op[r].inst, lost \cap MyLists(r))
        IN  IF AfterRead(r, f) = "end"
            THEN /\ End(r, IF op[r].kind # "wipe" THEN "" ELSE
                           IF SshAfter(f) THEN "ssh" ELSE "no ssh")
                 /\ Lapse(r, {})
            ELSE /\ Go(r, AfterRead(r, f)) /\ seen' = [seen EXCEPT ![r] = f]
                 /\ todo' = [todo EXCEPT ![r] =
                        IF op[r].kind \in GroupKinds THEN DOMAIN f.rules ELSE {}]
                 /\ move' = [move EXCEPT ![r] = IF op[r].kind = "repair" THEN Wanted(f) ELSE {}]
                 /\ UNCHANGED <<op, read, fresh, new, told, edits>>
    /\ UNCHANGED net

-----------------------------------------------------------------------------
(* The rules of one security list *)

\* Writing l: what others read of it no longer has its etag.
Put(r, l, xs) == lists' = [lists EXCEPT ![l] = xs] /\ Lapse(r, {l})

\* Mutant: only this list is looked at for what is open to anyone.
ScanOwn(r) ==
    LET l == Target(r)
        says == IF \E x \in lists[l]: Scope(x, "80") = "public" THEN "warned" ELSE "quiet"
    IN  /\ at[r] = "scan"
        /\ IF \E x \in lists[l]: CoversCdn(x)
           THEN End(r, says) /\ Lapse(r, {})
           ELSE Go(r, "list") /\ told' = [told EXCEPT ![r] = says] /\ UNCHANGED <<op, mem, edits>>
        /\ UNCHANGED net

\* What is in the list already lets the CDN in; or anyone, wherever it is.
Scan(r) ==
    LET l == Target(r)
        others == (UNION {seen[r].lists[m]: m \in Lists \ {l}}) \cup SeenRules(r)
        says == IF \E x \in lists[l] \cup others: Scope(x, "80") = "public" THEN "warned" ELSE "quiet"
    IN  /\ at[r] = "scan"
        /\ IF \E x \in lists[l]: CoversCdn(x)
           THEN End(r, says) /\ Lapse(r, {})
           ELSE Go(r, "list") /\ told' = [told EXCEPT ![r] = says] /\ UNCHANGED <<op, mem, edits>>
        /\ UNCHANGED net

\* What r makes of a list it read.
Changed(r, xs) ==
    CASE op[r].kind = "add" -> xs \cup op[r].rules
      [] op[r].kind = "cdn" -> xs \cup {Cdn}
      [] op[r].kind = "delete" -> xs \ op[r].rules
      [] op[r].kind = "clear" -> {}
      [] op[r].kind = "open" -> xs

Fits(r, xs) == op[r].kind \in {"add", "cdn"} => Cardinality(Changed(r, xs)) <= Limit

ReadList(r) ==
    LET l == Target(r) IN
    /\ at[r] = "list"
    /\ IF \/ ~Fits(r, lists[l])
          \/ IF op[r].kind = "open" THEN l \in out ELSE Changed(r, lists[l]) = lists[l]
       THEN End(r, told[r]) /\ Lapse(r, {})
       ELSE /\ Go(r, "write") /\ read' = [read EXCEPT ![r][l] = lists[l]]
            /\ fresh' = [fresh EXCEPT ![r] = {l}]
            /\ UNCHANGED <<op, seen, todo, move, new, told, edits>>
    /\ UNCHANGED net

\* Who else lets anything in: the other lists, the NSGs, what is left of this list.
Verdict(r, l, kept) ==
    LET left == kept \cup (UNION {seen[r].lists[m]: m \in Lists \ {l}}) \cup SeenRules(r)
    IN  IF left = {} THEN "shut" ELSE IF \E x \in left: WideOpen(x) THEN "wide" ELSE "others"

\* Mutant: the list is written without its etag.
WriteListBlind(r) ==
    LET l == Target(r)
        xs == Changed(r, read[r][l])
    IN  /\ at[r] = "write"
        /\ IF op[r].kind = "open"
           THEN out' = out \cup {l} /\ UNCHANGED lists /\ Lapse(r, {l})
           ELSE Put(r, l, xs) /\ UNCHANGED out
        /\ End(r, told[r])
        /\ UNCHANGED <<rules, nic>>

\* The list is written if its etag is the one that was read; the answer may be lost.
WriteList(r) ==
    LET l == Target(r)
        xs == Changed(r, read[r][l])
    IN  /\ at[r] = "write" /\ l \in fresh[r]
        /\ IF op[r].kind = "open"
           THEN out' = out \cup {l} /\ UNCHANGED lists /\ Lapse(r, {l})
           ELSE Put(r, l, xs) /\ UNCHANGED out
        /\ \E answered \in BOOLEAN:
            End(r, IF ~answered THEN ""
                   ELSE IF op[r].kind \in {"delete", "clear"} THEN Verdict(r, l, xs) ELSE told[r])
        /\ UNCHANGED <<rules, nic>>

-----------------------------------------------------------------------------
(* Tightening the subnet *)

Drop(xs) == {x \in xs: OpensPublic(x)}

ReadLists(r) ==
    LET targets == {l \in MyLists(r): Drop(lists[l]) # {}} IN
    /\ at[r] = "lists"
    /\ IF targets = {} \/ (targets \ Mine # {} /\ ~op[r].foreign)
       THEN End(r, IF targets = {} THEN "tight" ELSE "") /\ Lapse(r, {})
       ELSE /\ Go(r, "check") /\ todo' = [todo EXCEPT ![r] = targets]
            /\ read' = [read EXCEPT ![r] = [l \in Lists |-> IF l \in targets THEN lists[l] ELSE {}]]
            /\ fresh' = [fresh EXCEPT ![r] = targets]
            /\ UNCHANGED <<op, seen, move, new, told, edits>>
    /\ UNCHANGED net

\* A card nothing but the subnet lets anything in to.
Bare(i) == \A g \in nic[i]: rules[g] = {}

\* Mutant: only the instance's own subnet is looked at.
AtRiskHere(r) == {i \in Insts: SubnetOf[i] = SubnetOf[op[r].inst] /\ Bare(i)}

\* The instances of the subnets that use a list to be tightened.
AtRisk(r) ==
    {i \in Insts: /\ \/ SubnetOf[i] = SubnetOf[op[r].inst]
                     \/ ListsOf[SubnetOf[i]] \cap todo[r] # {}
                  /\ Bare(i)}

Precheck(r) ==
    /\ at[r] = "check"
    /\ IF (AtRisk(r) = {} \/ op[r].force) /\ ~op[r].preview
       THEN Go(r, "tighten") /\ UNCHANGED <<op, mem, told, edits>>
       ELSE End(r, "") /\ Lapse(r, {})
    /\ UNCHANGED net

\* What a list becomes: one of the panel's gets back its ICMP rules.
Tightened(l, xs) ==
    LET kept == xs \ Drop(xs)
    IN  IF l \in Mine /\ ~ \E x \in kept: x.proto = Baseline.proto /\ x.from = Baseline.from
        THEN kept \cup {Baseline} ELSE kept

\* The lists are written one by one; the answer may be lost, and then the rest stays.
Tighten(r) ==
    /\ at[r] = "tighten"
    /\ \E l \in todo[r] \cap fresh[r]:
        /\ lists' = [lists EXCEPT ![l] = Tightened(l, read[r][l])]
        /\ \/ /\ todo[r] # {l}
              /\ todo' = [todo EXCEPT ![r] = @ \ {l}]
              /\ fresh' = [q \in Requests |-> fresh[q] \ {l}]
              /\ UNCHANGED <<at, op, seen, read, move, new, told, edits>>
           \/ todo[r] = {l} /\ End(r, "tight") /\ Lapse(r, {l})
           \/ End(r, "") /\ Lapse(r, {l})
    /\ UNCHANGED <<out, rules, nic>>

-----------------------------------------------------------------------------
(* The instance's own NSG *)

\* An NSG for an instance without one: empty for a repair, open otherwise. If
\* its rules cannot be written it is deleted, which may fail.
Make(r) ==
    /\ at[r] = "make"
    /\ IF nic[op[r].inst] # {}
       THEN Go(r, "again") /\ UNCHANGED <<rules, op, mem, told, edits>>
       ELSE \E g \in Groups \ Made:
              /\ rules' = [rules EXCEPT ![g] = IF op[r].kind = "repair" THEN {} ELSE {Everything}]
              /\ Go(r, "attach") /\ new' = [new EXCEPT ![r] = g]
              /\ UNCHANGED <<op, seen, read, fresh, todo, move, told, edits>>
    /\ UNCHANGED <<lists, out, nic>>

\* The card gets this NSG for all it had. If that fails, the NSG is deleted:
\* Oracle refuses if it is on the card after all.
Attach(r) ==
    /\ at[r] = "attach"
    /\ \/ /\ nic' = [nic EXCEPT ![op[r].inst] = {new[r]}]
          /\ \/ /\ Go(r, "again") /\ new' = [new EXCEPT ![r] = None]
                /\ UNCHANGED <<op, seen, read, fresh, todo, move, told, edits>>
             \/ End(r, "") /\ Lapse(r, {})
          /\ UNCHANGED rules
       \/ /\ \/ rules' = [rules EXCEPT ![new[r]] = None]
             \/ Lossy /\ UNCHANGED rules
          /\ End(r, "") /\ Lapse(r, {}) /\ UNCHANGED nic
    /\ UNCHANGED <<lists, out>>

\* The firewall is read again, for the NSG there is now.
Again(r) ==
    LET f == FirewallOf(op[r].inst, {}) IN
    /\ at[r] = "again"
    /\ IF DOMAIN f.rules = {} THEN End(r, "") /\ Lapse(r, {})
       ELSE /\ Go(r, IF op[r].kind = "repair" THEN "move" ELSE "empty")
            /\ seen' = [seen EXCEPT ![r] = f]
            /\ todo' = [todo EXCEPT ![r] = IF op[r].kind = "repair" THEN {} ELSE DOMAIN f.rules]
            /\ UNCHANGED <<op, read, fresh, move, new, told, edits>>
    /\ UNCHANGED net

Own(r) == Min(SeenGroups(r))

\* The rules of the subnet are added to the first NSG; a failure may leave some.
Move(r) ==
    /\ at[r] = "move" /\ rules[Own(r)] # None
    /\ \/ /\ rules' = [rules EXCEPT ![Own(r)] = @ \cup move[r]]
          /\ Go(r, "lists") /\ UNCHANGED <<op, mem, told, edits>>
       \/ /\ move[r] # {}
          /\ \E xs \in SUBSET move[r]: rules' = [rules EXCEPT ![Own(r)] = @ \cup xs]
          /\ End(r, "") /\ Lapse(r, {})
    /\ UNCHANGED <<lists, out, nic>>

-----------------------------------------------------------------------------
(* Emptying the NSGs, and opening them *)

\* What is told in the end: a wipe says what the lists it read let in; opening
\* says so only if every NSG was emptied and opened.
Finish(r, ok) ==
    IF op[r].kind = "wipe" THEN IF SshAfter(seen[r]) THEN "ssh" ELSE "no ssh"
    ELSE IF ok /\ told[r] = "" THEN "opened" ELSE "part"

Next1(r, g, ok) ==
    IF todo[r] = {g} THEN End(r, Finish(r, ok)) /\ Lapse(r, {})
    ELSE /\ Go(r, "empty") /\ todo' = [todo EXCEPT ![r] = @ \ {g}]
         /\ told' = [told EXCEPT ![r] = IF op[r].kind = "wipe" \/ ok THEN @ ELSE "part"]
         /\ UNCHANGED <<op, seen, read, fresh, move, new, edits>>

\* The rules it saw are deleted; a failure may have deleted some.
Empty(r) ==
    LET g == Min(todo[r]) IN
    /\ at[r] = "empty" /\ rules[g] # None
    /\ \/ /\ rules' = [rules EXCEPT ![g] = @ \ seen[r].rules[g]]
          /\ IF op[r].kind = "wipe" THEN Next1(r, g, TRUE)
             ELSE Go(r, "fill") /\ UNCHANGED <<op, mem, told, edits>>
       \/ /\ \E xs \in SUBSET seen[r].rules[g]: rules' = [rules EXCEPT ![g] = @ \ xs]
          /\ Next1(r, g, FALSE)
    /\ UNCHANGED <<lists, out, nic>>

Fill(r) ==
    LET g == Min(todo[r]) IN
    /\ at[r] = "fill" /\ rules[g] # None
    /\ \E ok \in BOOLEAN:
        /\ rules' = IF ok THEN [rules EXCEPT ![g] = @ \cup {Everything}] ELSE rules
        /\ Next1(r, g, ok)
    /\ UNCHANGED <<lists, out, nic>>

-----------------------------------------------------------------------------
(* The Oracle console, and the routes of the panel that add or delete rules   *)
(* of an NSG by its id: one call of Oracle each.                              *)

EditList ==
    /\ "list" \in Console /\ edits < MaxEdits
    /\ \E l \in Lists: \E x \in Rules:
        /\ lists' = [lists EXCEPT ![l] = IF x \in @ THEN @ \ {x} ELSE @ \cup {x}]
        /\ Cardinality(lists'[l]) <= Limit
        /\ fresh' = [q \in Requests |-> fresh[q] \ {l}]
    /\ edits' = edits + 1
    /\ UNCHANGED <<out, rules, nic, at, op, seen, read, todo, move, new, told>>

EditGroup ==
    /\ "group" \in Console /\ edits < MaxEdits
    /\ \E g \in Made: \E x \in Rules:
        rules' = [rules EXCEPT ![g] = IF x \in @ THEN @ \ {x} ELSE @ \cup {x}]
    /\ edits' = edits + 1
    /\ UNCHANGED <<lists, out, nic, at, op, mem, told>>

-----------------------------------------------------------------------------

Step(r) ==
    \/ Begin(r) \/ Fails(r) \/ Resolve(r) \/ Scan(r) \/ ReadList(r) \/ WriteList(r)
    \/ ReadLists(r) \/ Precheck(r) \/ Tighten(r) \/ Make(r) \/ Attach(r) \/ Again(r)
    \/ Move(r) \/ Empty(r) \/ Fill(r)

Next == EditList \/ EditGroup \/ \E r \in Requests: Step(r)

Spec == Init /\ [][Next]_vars

-----------------------------------------------------------------------------
(* Properties *)

Steps == {"idle", "resolve", "scan", "list", "write", "lists", "check", "tighten", "make",
          "attach", "again", "move", "empty", "fill", "end"}

\* Types. No list has more rules than Oracle takes, and what a request is about
\* to write back fits.
TypeOK ==
    /\ \A l \in Lists: lists[l] \subseteq Rules \cup {Baseline, Cdn} /\ Cardinality(lists[l]) <= Limit
    /\ out \subseteq Lists /\ edits \in 0..MaxEdits
    /\ nic \in [Insts -> SUBSET Made]
    /\ \A g \in Made: rules[g] \subseteq Rules \cup {Everything}
    /\ \A r \in Requests:
        /\ at[r] \in Steps /\ op[r] \in Ops \cup {Idle} /\ fresh[r] \subseteq Lists
        /\ at[r] = "write" => Cardinality(Changed(r, read[r][Target(r)])) <= Limit
        /\ at[r] = "attach" => new[r] \in Made

\* A step in which r writes l.
Writes(r, l) ==
    /\ at[r] \in {"write", "tighten"} /\ <<at[r], todo[r]>>' # <<at[r], todo[r]>>
    /\ lists'[l] # lists[l]

\* Nothing is lost when two write the same list: a rule that goes is one the
\* request was asked to take out and had read there, and a rule that comes is one
\* it was asked to put in (or the ICMP rule of the panel's own lists).
NoLostUpdate ==
    \A r \in Requests: \A l \in Lists: Writes(r, l) =>
        /\ \A x \in lists[l] \ lists'[l]:
            /\ x \in read[r][l]
            /\ \/ op[r].kind = "delete" /\ x \in op[r].rules
               \/ op[r].kind = "clear"
               \/ op[r].kind \in SubnetKinds /\ OpensPublic(x)
        /\ \A x \in lists'[l] \ lists[l]:
            \/ op[r].kind = "add" /\ x \in op[r].rules
            \/ op[r].kind = "cdn" /\ x = Cdn
            \/ op[r].kind \in SubnetKinds /\ x = Baseline /\ l \in Mine

\* A repair leaves what can be moved where it was reachable: "what is moved in
\* and what is deleted are the same, so what can be reached is the same".
SelfKept ==
    \A r \in Requests:
        at[r] = "tighten" /\ op[r].kind = "repair" /\ (\E l \in Lists: Writes(r, l)) =>
            \A x \in Effective(op[r].inst): Movable(x) => x \in Effective(op[r].inst)'

\* Something other than the ICMP the panel leaves in its lists.
WayIn(i) == Effective(i) \ {Baseline} # {}

\* A subnet is never tightened over an instance that had a way in, in whatever
\* subnet it is, and then has none, unless that was asked for.
NoneShutOut ==
    \A r \in Requests:
        at[r] = "tighten" /\ ~op[r].force /\ (\E l \in Lists: Writes(r, l)) =>
            \A i \in Insts: WayIn(i) => WayIn(i)'

\* What is told of a list that was cleared, or had a rule deleted, is so: "nothing
\* else lets anything in" or "this has closed no port"; and "all ports are open now"
\* (with no other request).
ToldTrue ==
    \A r \in Requests: at[r] # "end" /\ at'[r] = "end" =>
        /\ told'[r] = "shut" => Effective(op[r].inst)' = {}
        /\ told'[r] \in {"wide", "opened"} => \E x \in Effective(op[r].inst)': WideOpen(x)

\* No warning that the port is open to everyone means it is not, once the CDN is
\* let in (with no other request).
CdnTold ==
    \A r \in Requests: op[r].kind = "cdn" /\ at[r] # "end" /\ at'[r] = "end" /\ told'[r] = "quiet" =>
        ~ \E x \in Effective(op[r].inst)': Scope(x, "80") = "public"

\* The instance lets SSH in from everywhere, whatever the port it comes from.
SshOpen(i) ==
    \E x \in Effective(i): Scope(x, "22") = "public" /\ ~x.source

\* What the audit trail keeps of a wipe, "SSH works afterwards", is true (with no
\* other request).
SshSure ==
    \A r \in Requests: at[r] # "end" /\ at'[r] = "end" /\ told'[r] = "ssh" =>
        SshOpen(op[r].inst)'

\* And "SSH does not work afterwards" too.
\* TLC refutes it: the warning about a rule that is too wide counts as "no".
SshDenied ==
    \A r \in Requests: at[r] # "end" /\ at'[r] = "end" /\ told'[r] = "no ssh" =>
        ~SshOpen(op[r].inst)'

\* An NSG the panel made is on a card, or its request is about to attach it.
NoOrphans ==
    \A g \in Made: (\E i \in Insts: g \in nic[i]) \/ (\E r \in Requests: new[r] = g)

=============================================================================
