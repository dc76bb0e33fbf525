---------------------------- MODULE AccessProofs ----------------------------
(***************************************************************************)
(* Theorems about who gets in: accounts, sessions and API keys             *)
(* (WhoIsSignedIn, RevocationLasts), the slots of browser terminals, the   *)
(* host keys that they trust and the bans of addresses (GuardsAreUp,       *)
(* OneKey), the limits of attempts and the audit trail (LimitsAreKept).    *)
(* They hold for any number of names, browsers, terminals, instances,      *)
(* attempts, keys, addresses, threads and rows, and any limits.            *)
(***************************************************************************)
EXTENDS MCAccess, Sequences, TLAPS, FiniteSetTheorems, WellFoundedInduction

------------------------------------------------------------------------------
(* The slots of web SSH *)

UserHolders(u) == {s \in Sessions : Shells!HoldsUser(s) /\ session[s].user = u}
InstanceHolders(i) == {s \in Sessions : Shells!HoldsInstance(s) /\ session[s].inst = i}

\* What a session holds at each point of its way, and that an instance it has a slot of is
\* one of its user.
OnItsWay(s) ==
    /\ session[s].at \in {"none", "accepted", "admitted"} =>
          ~session[s].userHeld /\ ~session[s].instanceHeld
    /\ session[s].at \in {"prepare", "owned"} => session[s].userHeld /\ ~session[s].instanceHeld
    /\ session[s].at \in {"ready", "host", "connect", "live", "drain", "cleanup"} =>
          session[s].userHeld /\ session[s].instanceHeld
    /\ session[s].ssh =>
          session[s].instanceHeld /\ session[s].at \in {"live", "drain", "cleanup", "finally"}
    /\ session[s].instanceHeld \/ session[s].at = "owned" =>
          session[s].inst \in Owned[session[s].user]

Slotted ==
    /\ userSlots \in [Users -> 0..MaxPerUser]
    /\ instanceSlots \in [Instances -> 0..MaxPerInstance]
    /\ session \in [Sessions -> Shells!Record]
    /\ \A u \in Users : userSlots[u] = Cardinality(UserHolders(u))
    /\ \A i \in Instances : instanceSlots[i] = Cardinality(InstanceHolders(i))
    /\ \A s \in Sessions : OnItsWay(s)

LEMMA ShellsConstants ==
    /\ IsFiniteSet(Sessions) /\ Owned \in [Users -> SUBSET Instances]
    /\ MaxPerUser \in Nat \ {0} /\ MaxPerInstance \in Nat \ {0}
    /\ \A S : Shells!Cardinality(S) = Cardinality(S)
BY PartsAssumption
DEF Shells!WebSshAssumption, Shells!IsFiniteSet, IsFiniteSet, Shells!Cardinality, Cardinality

LEMMA InitSlotted == Shells!Init => Slotted
<1> SUFFICES ASSUME Shells!Init PROVE Slotted
  OBVIOUS
<1>1. /\ session \in [Sessions -> Shells!Record]
      /\ \A s \in Sessions : /\ session[s].at = "none" /\ ~session[s].ssh
                             /\ ~session[s].userHeld /\ ~session[s].instanceHeld
  BY DEF Shells!Init
<1>2. \A s \in Sessions : OnItsWay(s)
  BY <1>1 DEF OnItsWay
<1>3. /\ \A u \in Users : UserHolders(u) = {}
      /\ \A i \in Instances : InstanceHolders(i) = {}
  BY <1>1 DEF UserHolders, InstanceHolders, Shells!HoldsUser, Shells!HoldsInstance
<1>4. /\ \A u \in Users : userSlots[u] = 0
      /\ \A i \in Instances : instanceSlots[i] = 0
      /\ userSlots \in [Users -> 0..MaxPerUser] /\ instanceSlots \in [Instances -> 0..MaxPerInstance]
  BY ShellsConstants DEF Shells!Init
<1> QED BY <1>1, <1>2, <1>3, <1>4, FS_EmptySet DEF Slotted

\* One more, one fewer, or as many as before.
LEMMA OneCounts ==
    ASSUME NEW S, IsFiniteSet(S), NEW before \in SUBSET S, NEW after \in SUBSET S, NEW s \in S,
           \A t \in S \ {s} : t \in before <=> t \in after
    PROVE  /\ Cardinality(before) \in Nat /\ Cardinality(after) \in Nat
           /\ s \in before /\ s \notin after => Cardinality(after) = Cardinality(before) - 1
           /\ s \notin before /\ s \in after => Cardinality(after) = Cardinality(before) + 1
           /\ (s \in before <=> s \in after) => Cardinality(after) = Cardinality(before)
<1>1. IsFiniteSet(before) /\ IsFiniteSet(after)
  BY FS_Subset
<1>2. Cardinality(before) \in Nat /\ Cardinality(after) \in Nat
  BY <1>1, FS_CardinalityType
<1>3. s \in before /\ s \notin after => after = before \ {s}
  OBVIOUS
<1>4. s \notin before /\ s \in after => after = before \cup {s}
  OBVIOUS
<1>5. (s \in before <=> s \in after) => after = before
  OBVIOUS
<1>6. s \in before => Cardinality(before \ {s}) = Cardinality(before) - 1
  BY <1>1, FS_RemoveElement
<1>7. s \notin before => Cardinality(before \cup {s}) = Cardinality(before) + 1
  BY <1>1, FS_AddElement
<1> QED BY <1>2, <1>3, <1>4, <1>5, <1>6, <1>7

\* Session s goes on; the others stay, and whose it is and what it is of.
Moves(s) ==
    /\ session' \in [Sessions -> Shells!Record]
    /\ \A t \in Sessions \ {s} : session'[t] = session[t]
    /\ session'[s].user = session[s].user /\ session'[s].inst = session[s].inst

LEMMA UserSlotsFollow ==
    ASSUME Slotted, NEW s \in Sessions, Moves(s),
           \/ (Shells!HoldsUser(s)' <=> Shells!HoldsUser(s)) /\ UNCHANGED userSlots
           \/ /\ ~Shells!HoldsUser(s) /\ Shells!HoldsUser(s)'
              /\ userSlots[session[s].user] < MaxPerUser
              /\ userSlots' = [userSlots EXCEPT ![session[s].user] = @ + 1]
           \/ /\ Shells!HoldsUser(s) /\ ~Shells!HoldsUser(s)'
              /\ userSlots' = [userSlots EXCEPT ![session[s].user] = @ - 1]
    PROVE  /\ userSlots' \in [Users -> 0..MaxPerUser]
           /\ \A u \in Users : userSlots'[u] = Cardinality(UserHolders(u)')
<1> DEFINE me == session[s].user
<1>1. me \in Users /\ session[s] \in Shells!Record
  BY DEF Slotted, Shells!Record
<1>2. ASSUME NEW u \in Users
      PROVE  /\ UserHolders(u) \in SUBSET Sessions /\ UserHolders(u)' \in SUBSET Sessions
             /\ \A t \in Sessions \ {s} : t \in UserHolders(u) <=> t \in UserHolders(u)'
             /\ s \in UserHolders(u) <=> Shells!HoldsUser(s) /\ u = me
             /\ s \in UserHolders(u)' <=> Shells!HoldsUser(s)' /\ u = me
  BY DEF Moves, UserHolders, Shells!HoldsUser
<1>3. ASSUME NEW u \in Users
      PROVE  /\ Cardinality(UserHolders(u)) \in Nat /\ Cardinality(UserHolders(u)') \in Nat
             /\ s \in UserHolders(u) /\ s \notin UserHolders(u)' =>
                   Cardinality(UserHolders(u)') = Cardinality(UserHolders(u)) - 1
             /\ s \notin UserHolders(u) /\ s \in UserHolders(u)' =>
                   Cardinality(UserHolders(u)') = Cardinality(UserHolders(u)) + 1
             /\ (s \in UserHolders(u) <=> s \in UserHolders(u)') =>
                   Cardinality(UserHolders(u)') = Cardinality(UserHolders(u))
  <2> HIDE DEF UserHolders
  <2> QED BY <1>2, ShellsConstants, OneCounts
<1>4. CASE (Shells!HoldsUser(s)' <=> Shells!HoldsUser(s)) /\ UNCHANGED userSlots
  BY <1>2, <1>3, <1>4 DEF Slotted
<1>5. CASE /\ ~Shells!HoldsUser(s) /\ Shells!HoldsUser(s)'
           /\ userSlots[me] < MaxPerUser
           /\ userSlots' = [userSlots EXCEPT ![me] = @ + 1]
  <2>1. userSlots' \in [Users -> 0..MaxPerUser]
    BY <1>1, <1>5, ShellsConstants DEF Slotted
  <2>2. \A u \in Users : userSlots'[u] = IF u = me THEN userSlots[u] + 1 ELSE userSlots[u]
    BY <1>5 DEF Slotted
  <2> QED BY <1>2, <1>3, <1>5, <2>1, <2>2 DEF Slotted
<1>6. CASE /\ Shells!HoldsUser(s) /\ ~Shells!HoldsUser(s)'
           /\ userSlots' = [userSlots EXCEPT ![me] = @ - 1]
  <2>1. userSlots[me] \in 1..MaxPerUser
    BY <1>1, <1>2, <1>3, <1>6, ShellsConstants DEF Slotted
  <2>2. userSlots' \in [Users -> 0..MaxPerUser]
    BY <1>1, <1>6, <2>1, ShellsConstants DEF Slotted
  <2>3. \A u \in Users : userSlots'[u] = IF u = me THEN userSlots[u] - 1 ELSE userSlots[u]
    BY <1>6 DEF Slotted
  <2> QED BY <1>2, <1>3, <1>6, <2>2, <2>3 DEF Slotted
<1> QED BY <1>4, <1>5, <1>6

LEMMA InstanceSlotsFollow ==
    ASSUME Slotted, NEW s \in Sessions, Moves(s),
           \/ (Shells!HoldsInstance(s)' <=> Shells!HoldsInstance(s)) /\ UNCHANGED instanceSlots
           \/ /\ ~Shells!HoldsInstance(s) /\ Shells!HoldsInstance(s)'
              /\ instanceSlots[session[s].inst] < MaxPerInstance
              /\ instanceSlots' = [instanceSlots EXCEPT ![session[s].inst] = @ + 1]
           \/ /\ Shells!HoldsInstance(s) /\ ~Shells!HoldsInstance(s)'
              /\ instanceSlots' = [instanceSlots EXCEPT ![session[s].inst] = @ - 1]
    PROVE  /\ instanceSlots' \in [Instances -> 0..MaxPerInstance]
           /\ \A i \in Instances : instanceSlots'[i] = Cardinality(InstanceHolders(i)')
<1> DEFINE me == session[s].inst
<1>1. me \in Instances /\ session[s] \in Shells!Record
  BY DEF Slotted, Shells!Record
<1>2. ASSUME NEW i \in Instances
      PROVE  /\ InstanceHolders(i) \in SUBSET Sessions /\ InstanceHolders(i)' \in SUBSET Sessions
             /\ \A t \in Sessions \ {s} : t \in InstanceHolders(i) <=> t \in InstanceHolders(i)'
             /\ s \in InstanceHolders(i) <=> Shells!HoldsInstance(s) /\ i = me
             /\ s \in InstanceHolders(i)' <=> Shells!HoldsInstance(s)' /\ i = me
  BY DEF Moves, InstanceHolders, Shells!HoldsInstance
<1>3. ASSUME NEW i \in Instances
      PROVE  /\ Cardinality(InstanceHolders(i)) \in Nat /\ Cardinality(InstanceHolders(i)') \in Nat
             /\ s \in InstanceHolders(i) /\ s \notin InstanceHolders(i)' =>
                   Cardinality(InstanceHolders(i)') = Cardinality(InstanceHolders(i)) - 1
             /\ s \notin InstanceHolders(i) /\ s \in InstanceHolders(i)' =>
                   Cardinality(InstanceHolders(i)') = Cardinality(InstanceHolders(i)) + 1
             /\ (s \in InstanceHolders(i) <=> s \in InstanceHolders(i)') =>
                   Cardinality(InstanceHolders(i)') = Cardinality(InstanceHolders(i))
  <2> HIDE DEF InstanceHolders
  <2> QED BY <1>2, ShellsConstants, OneCounts
<1>4. CASE (Shells!HoldsInstance(s)' <=> Shells!HoldsInstance(s)) /\ UNCHANGED instanceSlots
  BY <1>2, <1>3, <1>4 DEF Slotted
<1>5. CASE /\ ~Shells!HoldsInstance(s) /\ Shells!HoldsInstance(s)'
           /\ instanceSlots[me] < MaxPerInstance
           /\ instanceSlots' = [instanceSlots EXCEPT ![me] = @ + 1]
  <2>1. instanceSlots' \in [Instances -> 0..MaxPerInstance]
    BY <1>1, <1>5, ShellsConstants DEF Slotted
  <2>2. \A i \in Instances : instanceSlots'[i] = IF i = me THEN instanceSlots[i] + 1 ELSE instanceSlots[i]
    BY <1>5 DEF Slotted
  <2> QED BY <1>2, <1>3, <1>5, <2>1, <2>2 DEF Slotted
<1>6. CASE /\ Shells!HoldsInstance(s) /\ ~Shells!HoldsInstance(s)'
           /\ instanceSlots' = [instanceSlots EXCEPT ![me] = @ - 1]
  <2>1. instanceSlots[me] \in 1..MaxPerInstance
    BY <1>1, <1>2, <1>3, <1>6, ShellsConstants DEF Slotted
  <2>2. instanceSlots' \in [Instances -> 0..MaxPerInstance]
    BY <1>1, <1>6, <2>1, ShellsConstants DEF Slotted
  <2>3. \A i \in Instances : instanceSlots'[i] = IF i = me THEN instanceSlots[i] - 1 ELSE instanceSlots[i]
    BY <1>6 DEF Slotted
  <2> QED BY <1>2, <1>3, <1>6, <2>2, <2>3 DEF Slotted
<1> QED BY <1>4, <1>5, <1>6

\* No slot is taken or given back.
LEMMA SlotsStay ==
    ASSUME Slotted, NEW s \in Sessions, Moves(s), UNCHANGED <<userSlots, instanceSlots>>,
           Shells!HoldsUser(s)' <=> Shells!HoldsUser(s),
           Shells!HoldsInstance(s)' <=> Shells!HoldsInstance(s),
           OnItsWay(s)'
    PROVE  Slotted'
<1>1. /\ userSlots' \in [Users -> 0..MaxPerUser]
      /\ \A u \in Users : userSlots'[u] = Cardinality(UserHolders(u)')
  BY UserSlotsFollow
<1>2. /\ instanceSlots' \in [Instances -> 0..MaxPerInstance]
      /\ \A i \in Instances : instanceSlots'[i] = Cardinality(InstanceHolders(i)')
  BY InstanceSlotsFollow
<1>3. \A t \in Sessions : OnItsWay(t)'
  BY DEF Slotted, Moves, OnItsWay
<1> QED BY <1>1, <1>2, <1>3 DEF Slotted, Moves

\* Session s is at step `to` next, and its connection may change.
GoesTo(s, to) ==
    /\ Moves(s) /\ session'[s].at = to
    /\ session'[s].userHeld = session[s].userHeld
    /\ session'[s].instanceHeld = session[s].instanceHeld

LEMMA GoesMoves ==
    ASSUME Slotted, NEW s \in Sessions, NEW to \in Shells!Steps
    PROVE  /\ Shells!Goes(s, to) => GoesTo(s, to) /\ session'[s].ssh = session[s].ssh
           /\ \A opened \in BOOLEAN :
                 session' = [session EXCEPT ![s].at = to, ![s].ssh = opened] =>
                    GoesTo(s, to) /\ session'[s].ssh = opened
<1>1. session[s] \in Shells!Record
  BY DEF Slotted
<1>2. Shells!Goes(s, to) => GoesTo(s, to) /\ session'[s].ssh = session[s].ssh
  BY <1>1 DEF Shells!Goes, Slotted, GoesTo, Moves, Shells!Record
<1>3. ASSUME NEW opened \in BOOLEAN, session' = [session EXCEPT ![s].at = to, ![s].ssh = opened]
      PROVE  GoesTo(s, to) /\ session'[s].ssh = opened
  BY <1>1, <1>3 DEF Slotted, GoesTo, Moves, Shells!Record
<1> QED BY <1>2, <1>3

LEMMA StepStays ==
    ASSUME Slotted, NEW s \in Sessions, NEW to \in Shells!Steps, GoesTo(s, to), OnItsWay(s)',
           UNCHANGED <<userSlots, instanceSlots>>,
           session[s].at \notin {"release", "releaseInstance", "done"},
           to \notin {"releaseInstance", "done"}
    PROVE  Slotted'
BY SlotsStay DEF GoesTo, Shells!HoldsUser, Shells!HoldsInstance

\* The steps of a session that only go on.
LEMMA HandshakeStays ==
    ASSUME Slotted, NEW s \in Sessions, UNCHANGED <<userSlots, instanceSlots>>,
           \/ Shells!Accept(s) \/ Shells!Authenticate(s) \/ Shells!Prepare(s)
           \/ Shells!FirstFrame(s) \/ Shells!CheckHost(s) \/ Shells!Fails(s)
           \/ Shells!Input(s) \/ Shells!Drained(s) \/ Shells!BigFrame(s)
           \/ Shells!Disconnected(s) \/ Shells!Cleanup(s)
    PROVE  Slotted'
<1>1. PICK to \in {"accepted", "admitted", "finally", "owned", "host", "connect", "drain",
                   "cleanup", "live"} :
         /\ Shells!Goes(s, to)
         /\ to \in {"accepted", "admitted"} => session[s].at \in {"none", "accepted"}
         /\ to = "owned" =>
               session[s].at = "prepare" /\ session[s].inst \in Owned[session[s].user]
         /\ to = "host" => session[s].at = "ready"
         /\ to = "connect" => session[s].at = "host"
         /\ to \in {"drain", "live", "cleanup"} => session[s].at \in {"drain", "live"}
         /\ to = "finally" =>
               session[s].at \in {"accepted", "prepare", "ready", "host", "admitted", "owned",
                                  "connect", "cleanup"}
  BY DEF Shells!Accept, Shells!Authenticate, Shells!Prepare, Shells!FirstFrame,
         Shells!CheckHost, Shells!Fails, Shells!Input, Shells!Drained, Shells!BigFrame,
         Shells!Disconnected, Shells!Cleanup, Shells!At
<1>2. to \in Shells!Steps
  BY <1>1 DEF Shells!Steps
<1>3. GoesTo(s, to) /\ session'[s].ssh = session[s].ssh
  BY <1>1, <1>2, GoesMoves
<1>4. OnItsWay(s)
  BY DEF Slotted
<1>5. OnItsWay(s)'
  BY <1>1, <1>3, <1>4 DEF OnItsWay, GoesTo, Moves
<1>6. session[s].at \notin {"release", "releaseInstance", "done"}
  BY <1>1
<1> QED BY <1>1, <1>2, <1>3, <1>5, <1>6, StepStays

LEMMA NextSlotted == ASSUME Slotted, [Shells!Next]_shells PROVE Slotted'
<1>1. ASSUME UNCHANGED <<userSlots, instanceSlots, session>> PROVE Slotted'
  BY <1>1 DEF Slotted, UserHolders, InstanceHolders, OnItsWay, Shells!HoldsUser, Shells!HoldsInstance
<1>2. ASSUME NEW s \in Sessions, Shells!Connect(s) \/ Shells!Finally(s) PROVE Slotted'
  <2>1. PICK to \in {"live", "finally", "release"} : \E opened \in BOOLEAN :
          /\ session' = [session EXCEPT ![s].at = to, ![s].ssh = opened]
          /\ to \in {"live", "finally"} => session[s].at = "connect"
          /\ to = "release" => session[s].at = "finally" /\ ~opened
          /\ UNCHANGED <<userSlots, instanceSlots>>
    BY <1>2 DEF Shells!Connect, Shells!Finally, Shells!At, Shells!Slots
  <2>2. PICK opened \in BOOLEAN :
          /\ session' = [session EXCEPT ![s].at = to, ![s].ssh = opened]
          /\ to \in {"live", "finally"} => session[s].at = "connect"
          /\ to = "release" => session[s].at = "finally" /\ ~opened
          /\ UNCHANGED <<userSlots, instanceSlots>>
    BY <2>1
  <2>3. to \in Shells!Steps /\ OnItsWay(s)
    BY DEF Shells!Steps, Slotted
  <2>4. GoesTo(s, to) /\ session'[s].ssh = opened
    BY <2>2, <2>3, GoesMoves
  <2>5. OnItsWay(s)'
    BY <2>2, <2>3, <2>4 DEF OnItsWay, GoesTo, Moves
  <2> QED BY <2>2, <2>3, <2>4, <2>5, StepStays
<1>3. ASSUME NEW s \in Sessions, NEW to \in {"finally"}, Shells!Goes(s, to),
             session[s].at \in {"admitted", "owned"}, UNCHANGED <<userSlots, instanceSlots>>
      PROVE  Slotted'
  <2>1. to \in Shells!Steps /\ GoesTo(s, to) /\ session'[s].ssh = session[s].ssh /\ OnItsWay(s)
    BY <1>3, GoesMoves DEF Shells!Steps, Slotted
  <2>2. OnItsWay(s)'
    BY <1>3, <2>1 DEF OnItsWay, GoesTo, Moves
  <2> QED BY <1>3, <2>1, <2>2, StepStays
<1>4. ASSUME NEW s \in Sessions, Shells!AcquireUserSlot(s) PROVE Slotted'
  <2>1. CASE /\ userSlots[session[s].user] < MaxPerUser
             /\ userSlots' = [userSlots EXCEPT ![session[s].user] = @ + 1]
             /\ session' = [session EXCEPT ![s].at = "prepare", ![s].userHeld = TRUE]
    <3>1. OnItsWay(s) /\ session[s] \in Shells!Record /\ session[s].at = "admitted"
          /\ UNCHANGED instanceSlots
      BY <1>4 DEF Slotted, Shells!AcquireUserSlot, Shells!At
    <3>2. /\ Moves(s) /\ session'[s].at = "prepare" /\ session'[s].userHeld
          /\ session'[s].instanceHeld = session[s].instanceHeld
          /\ session'[s].ssh = session[s].ssh
      BY <2>1, <3>1 DEF Slotted, Moves, Shells!Record, Shells!Steps
    <3>3. OnItsWay(s)' /\ ~Shells!HoldsUser(s) /\ Shells!HoldsUser(s)'
          /\ (Shells!HoldsInstance(s)' <=> Shells!HoldsInstance(s))
      BY <3>1, <3>2 DEF OnItsWay, Moves, Shells!HoldsUser, Shells!HoldsInstance
    <3>4. /\ userSlots' \in [Users -> 0..MaxPerUser]
          /\ \A u \in Users : userSlots'[u] = Cardinality(UserHolders(u)')
      BY <2>1, <3>2, <3>3, UserSlotsFollow
    <3>5. /\ instanceSlots' \in [Instances -> 0..MaxPerInstance]
          /\ \A i \in Instances : instanceSlots'[i] = Cardinality(InstanceHolders(i)')
      BY <3>1, <3>2, <3>3, InstanceSlotsFollow
    <3>6. \A t \in Sessions : OnItsWay(t)'
      BY <3>2, <3>3 DEF Slotted, Moves, OnItsWay
    <3> QED BY <3>2, <3>4, <3>5, <3>6 DEF Slotted, Moves
  <2> QED BY <1>3, <1>4, <2>1 DEF Shells!AcquireUserSlot, Shells!At
<1>5. ASSUME NEW s \in Sessions, Shells!AcquireInstanceSlot(s) PROVE Slotted'
  <2>1. CASE /\ instanceSlots[session[s].inst] < MaxPerInstance
             /\ instanceSlots' = [instanceSlots EXCEPT ![session[s].inst] = @ + 1]
             /\ session' = [session EXCEPT ![s].at = "ready", ![s].instanceHeld = TRUE]
    <3>1. OnItsWay(s) /\ session[s] \in Shells!Record /\ session[s].at = "owned"
          /\ UNCHANGED userSlots
      BY <1>5 DEF Slotted, Shells!AcquireInstanceSlot, Shells!At
    <3>2. /\ Moves(s) /\ session'[s].at = "ready" /\ session'[s].instanceHeld
          /\ session'[s].userHeld = session[s].userHeld
          /\ session'[s].ssh = session[s].ssh
      BY <2>1, <3>1 DEF Slotted, Moves, Shells!Record, Shells!Steps
    <3>3. OnItsWay(s)' /\ ~Shells!HoldsInstance(s) /\ Shells!HoldsInstance(s)'
          /\ (Shells!HoldsUser(s)' <=> Shells!HoldsUser(s))
      BY <3>1, <3>2 DEF OnItsWay, Moves, Shells!HoldsUser, Shells!HoldsInstance
    <3>4. /\ userSlots' \in [Users -> 0..MaxPerUser]
          /\ \A u \in Users : userSlots'[u] = Cardinality(UserHolders(u)')
      BY <3>1, <3>2, <3>3, UserSlotsFollow
    <3>5. /\ instanceSlots' \in [Instances -> 0..MaxPerInstance]
          /\ \A i \in Instances : instanceSlots'[i] = Cardinality(InstanceHolders(i)')
      BY <2>1, <3>2, <3>3, InstanceSlotsFollow
    <3>6. \A t \in Sessions : OnItsWay(t)'
      BY <3>2, <3>3 DEF Slotted, Moves, OnItsWay
    <3> QED BY <3>2, <3>4, <3>5, <3>6 DEF Slotted, Moves
  <2> QED BY <1>3, <1>5, <2>1 DEF Shells!AcquireInstanceSlot, Shells!At
<1>6. ASSUME NEW s \in Sessions, Shells!ReleaseUserSlot(s) \/ Shells!ReleaseInstanceSlot(s)
      PROVE  Slotted'
  <2>1. PICK to \in {"releaseInstance", "done"} :
          /\ Shells!Goes(s, to)
          /\ to = "releaseInstance" =>
                /\ session[s].at = "release" /\ UNCHANGED instanceSlots
                /\ IF session[s].userHeld
                   THEN userSlots' = [userSlots EXCEPT ![session[s].user] = @ - 1]
                   ELSE UNCHANGED userSlots
          /\ to = "done" =>
                /\ session[s].at = "releaseInstance" /\ UNCHANGED userSlots
                /\ IF session[s].instanceHeld
                   THEN instanceSlots' = [instanceSlots EXCEPT ![session[s].inst] = @ - 1]
                   ELSE UNCHANGED instanceSlots
    BY <1>6 DEF Shells!ReleaseUserSlot, Shells!ReleaseInstanceSlot, Shells!At
  <2>2. to \in Shells!Steps /\ GoesTo(s, to) /\ session'[s].ssh = session[s].ssh /\ OnItsWay(s)
    BY <2>1, GoesMoves DEF Shells!Steps, Slotted
  <2>3. OnItsWay(s)'
    BY <2>1, <2>2 DEF OnItsWay, GoesTo, Moves
  <2>4. \A t \in Sessions : OnItsWay(t)'
    BY <2>2, <2>3 DEF Slotted, GoesTo, Moves, OnItsWay
  <2>5. /\ userSlots' \in [Users -> 0..MaxPerUser]
        /\ \A u \in Users : userSlots'[u] = Cardinality(UserHolders(u)')
    BY <2>1, <2>2, UserSlotsFollow DEF GoesTo, Shells!HoldsUser
  <2>6. /\ instanceSlots' \in [Instances -> 0..MaxPerInstance]
        /\ \A i \in Instances : instanceSlots'[i] = Cardinality(InstanceHolders(i)')
    BY <2>1, <2>2, InstanceSlotsFollow DEF GoesTo, Shells!HoldsInstance
  <2> QED BY <2>2, <2>4, <2>5, <2>6 DEF Slotted, GoesTo, Moves
<1>7. ASSUME NEW s \in Sessions,
             \/ Shells!PumpEnds(s) \/ Shells!WatchRevoked(s) \/ Shells!WatchIdle(s)
             \/ Shells!Leaves(s) \/ Shells!Stalls(s) \/ Shells!Resumes(s) \/ Shells!Exits(s)
      PROVE  Slotted'
  BY <1>1, <1>7
  DEF Shells!PumpEnds, Shells!WatchRevoked, Shells!WatchIdle, Shells!EndSession, Shells!Leaves,
      Shells!Stalls, Shells!Resumes, Shells!Exits, Shells!Slots
<1>8. ASSUME NEW u \in Users, Shells!Revoke(u) PROVE Slotted'
  BY <1>1, <1>8 DEF Shells!Revoke, Shells!Slots
<1>9. ASSUME NEW s \in Sessions,
             \/ Shells!Accept(s) \/ Shells!Authenticate(s) \/ Shells!Prepare(s)
             \/ Shells!FirstFrame(s) \/ Shells!CheckHost(s) \/ Shells!Fails(s)
             \/ Shells!Input(s) \/ Shells!Drained(s) \/ Shells!BigFrame(s)
             \/ Shells!Disconnected(s) \/ Shells!Cleanup(s)
      PROVE  Slotted'
  <2>1. UNCHANGED <<userSlots, instanceSlots>>
    BY <1>9 DEF Shells!Accept, Shells!Authenticate, Shells!Prepare, Shells!FirstFrame,
         Shells!CheckHost, Shells!Fails, Shells!Input, Shells!Drained, Shells!BigFrame,
         Shells!Disconnected, Shells!Cleanup, Shells!Slots
  <2> QED BY <1>9, <2>1, HandshakeStays
<1>10. CASE Shells!Next
  BY <1>2, <1>4, <1>5, <1>6, <1>7, <1>8, <1>9, <1>10 DEF Shells!Next, Shells!Own
<1> QED BY <1>1, <1>10 DEF shells

\* What the invariant says of the counters, the owners and the limits.
LEMMA SlottedHolds ==
    ASSUME Slotted PROVE Shells!SlotsAreHeld /\ Shells!OwnersOnly /\ Shells!Caps
<1>1. Shells!SlotsAreHeld
  BY ShellsConstants DEF Slotted, Shells!SlotsAreHeld, UserHolders, InstanceHolders
<1>2. Shells!OwnersOnly
  BY DEF Slotted, OnItsWay, Shells!OwnersOnly, Shells!HoldsInstance
<1>3. ASSUME NEW u \in Users
      PROVE  Cardinality({s \in Sessions : Shells!At(s, "prepare") /\ session[s].user = u})
                <= MaxPerUser
  <2> DEFINE asked == {s \in Sessions : Shells!At(s, "prepare") /\ session[s].user = u}
  <2>1. asked \in SUBSET UserHolders(u)
    BY DEF Slotted, OnItsWay, UserHolders, Shells!At, Shells!HoldsUser
  <2>2. UserHolders(u) \in SUBSET Sessions
    BY DEF UserHolders
  <2>3. IsFiniteSet(UserHolders(u))
    BY <2>2, ShellsConstants, FS_Subset
  <2>4. Cardinality(asked) <= Cardinality(UserHolders(u)) /\ IsFiniteSet(asked)
    BY <2>1, <2>3, FS_Subset
  <2>5. Cardinality(asked) \in Nat
    BY <2>4, FS_CardinalityType
  <2>6. Cardinality(UserHolders(u)) \in 0..MaxPerUser
    BY DEF Slotted
  <2> QED BY <2>4, <2>5, <2>6, ShellsConstants
<1>4. ASSUME NEW i \in Instances
      PROVE  Cardinality({s \in Sessions : session[s].ssh /\ session[s].inst = i})
                <= MaxPerInstance
  <2> DEFINE opened == {s \in Sessions : session[s].ssh /\ session[s].inst = i}
  <2>1. opened \in SUBSET InstanceHolders(i)
    BY DEF Slotted, OnItsWay, InstanceHolders, Shells!HoldsInstance
  <2>2. InstanceHolders(i) \in SUBSET Sessions
    BY DEF InstanceHolders
  <2>3. IsFiniteSet(InstanceHolders(i))
    BY <2>2, ShellsConstants, FS_Subset
  <2>4. Cardinality(opened) <= Cardinality(InstanceHolders(i)) /\ IsFiniteSet(opened)
    BY <2>1, <2>3, FS_Subset
  <2>5. Cardinality(opened) \in Nat
    BY <2>4, FS_CardinalityType
  <2>6. Cardinality(InstanceHolders(i)) \in 0..MaxPerInstance
    BY DEF Slotted
  <2> QED BY <2>4, <2>5, <2>6, ShellsConstants
<1>5. Shells!Caps
  BY <1>3, <1>4, ShellsConstants DEF Shells!Caps
<1> QED BY <1>1, <1>2, <1>5

------------------------------------------------------------------------------
(* Host keys.  OneKeyPerPin is not inductive: what an attempt holds between its judgement and
   its connection must be what was recorded in the epoch of that judgement, and an epoch
   without a record has pinned nothing. *)

\* What the record says is pinned now; without a record nothing is, and nothing ahead.
RecordPinned ==
    /\ row # NoKey => [epoch |-> epoch, key |-> row] \in pinned
    /\ \A p \in pinned : p.epoch <= epoch /\ (row = NoKey => p.epoch < epoch)

\* An attempt that may connect holds the key that was recorded when it was judged.
JudgedPinned ==
    \A c \in Conns : step[c] = "connect" =>
        [epoch |-> since[c], key |-> key[c]] \in pinned

\* An attempt past its probe holds a key.
Probed ==
    \A c \in Conns : step[c] \in {"select", "insert", "reread", "connect"} => key[c] \in Key

IInv == TypeOK /\ RecordPinned /\ JudgedPinned /\ Probed /\ OneKeyPerPin

LEMMA OfferedKeys ==
    ASSUME host \in [Types -> 0..MaxGen]
    PROVE  Offered \subseteq Key
  <1>1. \A t \in Types : host[t] > 0 => host[t] \in 1..MaxGen
    BY HostKeyAssumption
  <1> QED BY <1>1 DEF Offered, Has, Key

LEMMA NoKeyIsNone == NoKey \notin Key /\ NoKey.type = "none" /\ \A k \in Key : k.type \in Types
  BY HostKeyAssumption DEF Key, NoKey

LEMMA InitIInv == Init => IInv
  <1> SUFFICES ASSUME Init PROVE IInv
    OBVIOUS
  <1> USE HostKeyAssumption DEF Init
  <1>1. host \in [Types -> 0..MaxGen]
    OBVIOUS
  <1>2. row \in Key \cup {NoKey}
    BY <1>1, OfferedKeys
  <1>3. pinned \subseteq [epoch: 0..MaxForgets, key: Key]
    BY <1>2
  <1>4. TypeOK
    BY <1>1, <1>2, <1>3 DEF TypeOK, Steps
  <1>5. RecordPinned
    <2>1. row # NoKey => [epoch |-> epoch, key |-> row] \in pinned
      OBVIOUS
    <2>2. \A p \in pinned : p.epoch = 0 /\ row # NoKey
      OBVIOUS
    <2> QED BY <2>1, <2>2 DEF RecordPinned
  <1>6. JudgedPinned /\ Probed
    BY DEF JudgedPinned, Probed
  <1>7. OneKeyPerPin
    <2>1. \A p \in pinned : p.key = row
      OBVIOUS
    <2> QED BY <2>1 DEF OneKeyPerPin
  <1> QED BY <1>4, <1>5, <1>6, <1>7 DEF IInv

LEMMA NextIInv == IInv /\ [Next]_vars => IInv'
  <1> SUFFICES ASSUME IInv, [Next]_vars PROVE IInv'
    OBVIOUS
  <1> USE HostKeyAssumption DEF IInv, TypeOK, RecordPinned, JudgedPinned, Probed, OneKeyPerPin,
                                Steps, Goes, Verdict, Attempts
  <1>1. ASSUME NEW c \in Conns, ReadType(c) PROVE IInv'
    BY <1>1, NoKeyIsNone DEF ReadType
  <1>2. ASSUME NEW c \in Conns, Probe(c) PROVE IInv'
    <2>1. CASE step' = [step EXCEPT ![c] = "unreachable"] /\ UNCHANGED <<key, offered>>
      BY <1>2, <2>1 DEF Probe
    <2>2. ASSUME NEW t \in Types, First(t, prefer[c]), Goes(c, "select"),
                 key' = [key EXCEPT ![c] = [type |-> t, gen |-> host[t]]],
                 offered' = [offered EXCEPT ![c] = Offered]
          PROVE IInv'
      <3>1. [type |-> t, gen |-> host[t]] \in Key
        BY <2>2 DEF First, Key
      <3>2. key' \in [Conns -> Key \cup {NoKey}] /\ offered' \in [Conns -> SUBSET Key]
        BY <2>2, <3>1, OfferedKeys
      <3> QED BY <1>2, <2>2, <3>1, <3>2 DEF Probe
    <2> QED BY <1>2, <2>1, <2>2 DEF Probe
  <1>3. ASSUME NEW c \in Conns, step[c] \in {"select", "reread"}, row # NoKey, Judged(c),
               UNCHANGED <<host, row, epoch, pinned, prefer, key, tries, offered>>
        PROVE IInv'
    BY <1>3 DEF Judged
  <1>4. ASSUME NEW c \in Conns, Select(c) PROVE IInv'
    BY <1>3, <1>4 DEF Select
  <1>5. ASSUME NEW c \in Conns, Insert(c) PROVE IInv'
    <2>1. CASE row = NoKey /\ Learn(c)
      <3>1. key[c] \in Key /\ key[c] # NoKey
        BY <1>5, <2>1, NoKeyIsNone DEF Insert
      <3> QED BY <1>5, <2>1, <3>1 DEF Insert, Learn
    <2>2. CASE row # NoKey
      BY <1>5, <2>2 DEF Insert
    <2> QED BY <1>5, <2>1, <2>2 DEF Insert
  <1>6. ASSUME NEW c \in Conns, Reread(c) PROVE IInv'
    BY <1>3, <1>6 DEF Reread
  <1>7. ASSUME NEW c \in Conns, Connect(c) PROVE IInv'
    <2>1. pinned' = pinned
      BY <1>7 DEF Connect, Gives, Trusted
    <2> QED BY <1>7, <2>1 DEF Connect
  <1>8. ASSUME Forget PROVE IInv'
    BY <1>8 DEF Forget
  <1>9. ASSUME NEW t \in Types, Rekey(t) \/ Drop(t) PROVE IInv'
    BY <1>9 DEF Rekey, Drop
  <1>10. ASSUME UNCHANGED vars PROVE IInv'
    BY <1>10 DEF vars
  <1> QED BY <1>1, <1>2, <1>4, <1>5, <1>6, <1>7, <1>8, <1>9, <1>10 DEF Next

\* Between two resets of the record one key is recorded and given credentials.
THEOREM OneKey == Spec => []OneKeyPerPin
  <1>1. IInv => OneKeyPerPin
    BY DEF IInv
  <1> QED BY InitIInv, NextIInv, <1>1, PTL DEF Spec

\* The variables have their types, whatever the host offers.
THEOREM TypeCorrect == Spec => []TypeOK
  <1>1. IInv => TypeOK
    BY DEF IInv
  <1> QED BY InitIInv, NextIInv, <1>1, PTL DEF Spec

------------------------------------------------------------------------------
(* What a mismatch of host keys is judged by *)

Judging == {"select", "insert", "reread", "connect", "refused", "open", "failed"}

\* An attempt past its probe has a key that the host offered, the one of the type it asked for
\* if the host offered any; what it was refused for is another key.
JudgedBy(c) ==
    /\ step[c] \in Judging =>
          key[c] \in offered[c] /\ \A k \in offered[c] : k.type = prefer[c] => k = key[c]
    /\ IF step[c] = "refused" THEN expected[c] # key[c] ELSE expected[c] = NoKey

Alarmed == \A c \in Conns : JudgedBy(c)

LEMMA InitAlarmed == Init => Alarmed
BY DEF Init, Alarmed, JudgedBy, Judging

\* The others stay as they are.
OnlyOne(c) ==
    \A d \in Conns \ {c} :
        /\ step'[d] = step[d] /\ prefer'[d] = prefer[d] /\ key'[d] = key[d]
        /\ offered'[d] = offered[d] /\ expected'[d] = expected[d]

LEMMA AlarmedFrom ==
    ASSUME Alarmed, NEW c \in Conns, OnlyOne(c), JudgedBy(c)' PROVE Alarmed'
BY DEF Alarmed, OnlyOne, JudgedBy

LEMMA NextAlarmed == ASSUME IInv, Alarmed, [Next]_vars PROVE Alarmed'
<1> USE DEF IInv, TypeOK
<1>1. ASSUME UNCHANGED Attempts PROVE Alarmed'
  BY <1>1 DEF Attempts, Verdict, Alarmed, JudgedBy
<1>2. ASSUME NEW c \in Conns, ReadType(c) PROVE Alarmed'
  <2>1. OnlyOne(c)
    BY <1>2 DEF ReadType, Goes, OnlyOne, Verdict
  <2>2. JudgedBy(c)'
    BY <1>2 DEF ReadType, Goes, JudgedBy, Judging, Alarmed, Verdict, Steps
  <2> QED BY <2>1, <2>2, AlarmedFrom
<1>3. ASSUME NEW c \in Conns, Probe(c) PROVE Alarmed'
  <2>1. OnlyOne(c)
    BY <1>3 DEF Probe, Goes, OnlyOne, Verdict
  <2>2. expected'[c] = NoKey
    BY <1>3 DEF Probe, Verdict, Alarmed, JudgedBy
  <2>3. CASE Goes(c, "unreachable") /\ UNCHANGED <<key, offered>>
    BY <1>3, <2>1, <2>2, <2>3, AlarmedFrom DEF Probe, Goes, JudgedBy, Judging
  <2>4. ASSUME NEW t \in Types, First(t, prefer[c]),
               key' = [key EXCEPT ![c] = [type |-> t, gen |-> host[t]]],
               offered' = [offered EXCEPT ![c] = Offered], Goes(c, "select")
        PROVE  JudgedBy(c)'
    <3>1. /\ key'[c] = [type |-> t, gen |-> host[t]] /\ offered'[c] = Offered
          /\ step'[c] = "select" /\ prefer'[c] = prefer[c]
      BY <1>3, <2>4 DEF Probe, Goes
    <3>2. key'[c] \in Offered
      BY <2>4, <3>1 DEF Offered, Has, First
    <3>3. \A k \in Offered : k.type = prefer[c] => k = key'[c]
      BY <2>4, <3>1 DEF Offered, Has, First
    <3> QED BY <2>2, <3>1, <3>2, <3>3 DEF JudgedBy
  <2> QED BY <1>3, <2>1, <2>3, <2>4, AlarmedFrom DEF Probe
<1>4. ASSUME NEW c \in Conns, step[c] \in {"select", "insert", "reread"},
             UNCHANGED <<prefer, key, offered>>,
             \/ \E to \in {"insert", "reread", "connect"} :
                   Goes(c, to) /\ UNCHANGED expected
             \/ Goes(c, "refused") /\ UNCHANGED expected
             \/ row # key[c] /\ Goes(c, "refused") /\ expected' = [expected EXCEPT ![c] = row]
      PROVE  Alarmed'
  <2>1. OnlyOne(c)
    BY <1>4 DEF Goes, OnlyOne
  <2>2. key[c] # NoKey
    BY <1>4, NoKeyIsNone DEF Probed
  <2>3. JudgedBy(c)'
    BY <1>4, <2>2 DEF Goes, JudgedBy, Judging, Alarmed
  <2> QED BY <2>1, <2>3, AlarmedFrom
<1>5. ASSUME NEW c \in Conns, Select(c) \/ Insert(c) \/ Reread(c) PROVE Alarmed'
  BY <1>4, <1>5 DEF Select, Insert, Reread, Judged, Learn, Verdict
<1>6. ASSUME NEW c \in Conns, Connect(c) PROVE Alarmed'
  <2>1. OnlyOne(c)
    BY <1>6 DEF Connect, Goes, OnlyOne, Verdict
  <2>2. JudgedBy(c)'
    BY <1>6 DEF Connect, Goes, JudgedBy, Judging, Alarmed, Verdict
  <2> QED BY <2>1, <2>2, AlarmedFrom
<1>7. ASSUME Forget \/ \E t \in Types : Rekey(t) \/ Drop(t) PROVE Alarmed'
  BY <1>1, <1>7 DEF Forget, Rekey, Drop
<1>8. UNCHANGED vars => UNCHANGED Attempts
  BY DEF vars, Attempts, Verdict
<1> QED BY <1>1, <1>2, <1>3, <1>5, <1>6, <1>7, <1>8 DEF Next

LEMMA AlarmedHolds == ASSUME IInv, Alarmed PROVE AlarmIsReal
<1> SUFFICES ASSUME NEW c \in Conns, step[c] = "refused", prefer[c] = expected[c].type
             PROVE  expected[c] \notin offered[c]
  BY DEF AlarmIsReal
<1> QED BY DEF Alarmed, JudgedBy, Judging

------------------------------------------------------------------------------
(* Accounts and sessions: c is what a run asks of a panel *)

Rows(c) == [pw: Password, ver: Nat, active: BOOLEAN, admin: BOOLEAN,
            totp: BOOLEAN, secret: c.secrets \cup {None}]

Requests(c) ==
    [pc: Panel(c)!Pc, op: Panel(c)!AllOps, user: c.names \cup {None}, me: Rows(c) \cup {None},
     pw: Password \cup {None}, code: c.secrets \cup {None},
     what: Panel(c)!Changes \cup {"first", "later", None}]

\* Only registrations and the making of keys let others come in between.
Proper(c) ==
    /\ c.overlaps \subseteq {"register", "key"}
    /\ None \notin c.names \cup Password \cup c.secrets /\ None \notin Rows(c)

LEMMA PanelsProper == Proper(OneByOne) /\ Proper(SecondFactor) /\ Proper(Elected)
<1>1. /\ Panel(OneByOne)!AccountsAssumption /\ Panel(SecondFactor)!AccountsAssumption
      /\ Panel(Elected)!AccountsAssumption
  BY PartsAssumption
<1>2. Proper(OneByOne)
  BY <1>1 DEF Panel!AccountsAssumption, Proper, Rows, OneByOne
<1>3. Proper(SecondFactor)
  BY <1>1 DEF Panel!AccountsAssumption, Proper, Rows, SecondFactor
<1>4. Proper(Elected)
  BY <1>1 DEF Panel!AccountsAssumption, Proper, Rows, Elected
<1> QED BY <1>2, <1>3, <1>4

\* A version stands for one password, and for one second factor while it is on.
AsEarned(c, t) ==
    /\ t.user \in Panel(c)!Accounts /\ t.ver \in Nat /\ t.ver <= accountsRow[t.user].ver
    /\ c.overlaps = {} /\ t.ver = accountsRow[t.user].ver =>
          /\ t.pw = accountsRow[t.user].pw
          /\ accountsRow[t.user].totp => t.code = accountsRow[t.user].secret

AsMade(c, n, ver, pw) ==
    /\ n \in Panel(c)!Accounts /\ ver \in Nat /\ ver <= accountsRow[n].ver
    /\ ver = accountsRow[n].ver => pw = accountsRow[n].pw

Ledger(c) ==
    /\ accountsRow \in [c.names -> Rows(c) \cup {None}]
    /\ \A t \in tokens : AsEarned(c, t)
    /\ \A k \in keys : AsMade(c, k.user, k.ver, k.pw)
    /\ confirmed \in [c.names -> c.secrets \cup {None}]
    /\ \A n \in Panel(c)!Accounts : accountsRow[n].totp => accountsRow[n].secret = confirmed[n]
    /\ elected \subseteq Panel(c)!Accounts /\ (elected = {} \/ \E n \in elected : elected = {n})
    /\ Panel(c)!SomeAdmin

\* The lock screen: the generation is the number of the request that has set it.
Door(c) ==
    /\ lock \in Nat /\ ops \in Nat /\ lock <= ops
    /\ cookie \in [c.browsers -> Nat] /\ unlocks \in [c.browsers -> Nat]
    /\ \A r \in c.browsers : cookie[r] <= ops
    /\ Panel(c)!UnlockIsSpent

\* What a request that is under way has seen is so still, where it matters.
Commits(c, q) ==
    /\ q.op # "register" /\ q.user \in Panel(c)!Accounts /\ q.me \in Rows(c)
    /\ IF q.op = "key" THEN AsMade(c, q.user, q.me.ver, q.me.pw) ELSE q.me = accountsRow[q.user]
    /\ q.op = "change" => q.pw \in Password /\ (q.me.totp => q.code = q.me.secret)
    /\ q.op = "setup" => ~q.me.totp
    /\ q.op = "enable" => q.pw = q.me.pw /\ q.code = q.me.secret
    /\ q.op = "patch" =>
          /\ q.what \in Panel(c)!Changes /\ q.pw \in Password
          /\ q.what \in {"disable", "demote"} =>
                \E a \in Panel(c)!Accounts \ {q.user} : accountsRow[a].admin /\ accountsRow[a].active
    /\ q.op = "reset" => q.pw \in Password

Shown(c, q) ==
    /\ q.user \in Panel(c)!Accounts /\ q.pw \in Password
    /\ c.overlaps = {} =>
          /\ q.pw = accountsRow[q.user].pw
          /\ accountsRow[q.user].totp => q.code = accountsRow[q.user].secret

Waits(c, q) ==
    /\ q.pc \in {"count", "insert"} => q.op = "register" /\ q.user \in c.names /\ q.pw \in Password
    /\ q.pc = "insert" =>
          q.what \in {"first", "later"} /\ (q.what = "first" <=> Panel(c)!Accounts = {})
    /\ q.pc = "checked" =>
          q.op = "login" /\ q.user \in Panel(c)!Accounts /\ q.me = accountsRow[q.user] /\ q.pw \in Password
    /\ q.pc = "cookie" => q.op = "unlock"
    /\ q.pc = "commit" => Commits(c, q)
    /\ q.pc = "issue" => q.op \in {"register", "login", "change", "enable"} /\ Shown(c, q)

\* One request at a time counts the accounts and inserts one.
OneInserts(c) ==
    \A r, q \in c.browsers : req[r].pc = "insert" /\ req[q].pc = "insert" => r = q

Asked(c) ==
    /\ req \in [c.browsers -> Requests(c)] /\ OneInserts(c)
    /\ \A r \in c.browsers : Waits(c, req[r])

SignedIn(c) == Ledger(c) /\ Door(c) /\ Asked(c)

LEMMA InitSignedIn == ASSUME NEW c, Proper(c), Panel(c)!Init PROVE SignedIn(c)
<1>1. Panel(c)!Accounts = {}
  BY DEF Panel!Init, Panel!Accounts
<1>2. Ledger(c)
  BY <1>1 DEF Panel!Init, Ledger, Panel!SomeAdmin
<1>3. Door(c)
  BY DEF Panel!Init, Door, Panel!UnlockIsSpent
<1>4. Asked(c)
  BY DEF Panel!Init, Asked, Panel!Idle, Waits, OneInserts, Requests, Panel!Pc, Panel!AllOps
<1> QED BY <1>2, <1>3, <1>4 DEF SignedIn

\* A flush of a row that is as it was read writes the row as it is to be.
LEMMA FlushWrites ==
    ASSUME NEW c, NEW n \in c.names, NEW me \in Rows(c), NEW to \in Rows(c),
           accountsRow \in [c.names -> Rows(c) \cup {None}], accountsRow[n] = me,
           Panel(c)!Flush(n, me, to)
    PROVE  accountsRow' = [accountsRow EXCEPT ![n] = to]
<1>1. DOMAIN to = {"pw", "ver", "active", "admin", "totp", "secret"}
  BY DEF Rows
<1>2. to = [f \in DOMAIN to |-> to[f]]
  BY DEF Rows
<1>3. [f \in DOMAIN to |-> IF to[f] # me[f] THEN to[f] ELSE accountsRow[n][f]] = [f \in DOMAIN to |-> to[f]]
  OBVIOUS
<1> QED BY <1>2, <1>3 DEF Panel!Flush

\* Accounts stay, and a version is never taken back: where it stays, the password stays, and
\* a second factor that is on has been.
Grown(c) ==
    \A n \in Panel(c)!Accounts :
        /\ n \in Panel(c)!Accounts'
        /\ accountsRow'[n].ver \in Nat /\ accountsRow[n].ver <= accountsRow'[n].ver
        /\ accountsRow'[n].ver = accountsRow[n].ver =>
              /\ accountsRow'[n].pw = accountsRow[n].pw
              /\ accountsRow'[n].totp =>
                    accountsRow[n].totp /\ accountsRow'[n].secret = accountsRow[n].secret

LEMMA RowsTyped ==
    ASSUME NEW c, Proper(c), accountsRow \in [c.names -> Rows(c) \cup {None}]
    PROVE  /\ Panel(c)!Accounts \subseteq c.names
           /\ \A n \in Panel(c)!Accounts :
                 accountsRow[n] \in Rows(c) /\ accountsRow[n].ver \in Nat
BY DEF Panel!Accounts, Rows

LEMMA GrownKeeps ==
    ASSUME NEW c, Proper(c), Ledger(c), Grown(c)
    PROVE  /\ \A t : AsEarned(c, t) => AsEarned(c, t)'
           /\ \A n, ver, pw : AsMade(c, n, ver, pw) => AsMade(c, n, ver, pw)'
<1>1. \A n \in Panel(c)!Accounts : accountsRow[n].ver \in Nat
  BY RowsTyped DEF Ledger
<1>2. ASSUME NEW t, AsEarned(c, t) PROVE AsEarned(c, t)'
  <2> DEFINE u == t.user
  <2>1. /\ u \in Panel(c)!Accounts /\ u \in Panel(c)!Accounts' /\ t.ver \in Nat
        /\ t.ver <= accountsRow[u].ver /\ accountsRow[u].ver <= accountsRow'[u].ver
        /\ accountsRow[u].ver \in Nat /\ accountsRow'[u].ver \in Nat
    BY <1>1, <1>2 DEF AsEarned, Grown
  <2>2. t.ver <= accountsRow'[u].ver
        /\ (t.ver = accountsRow'[u].ver => t.ver = accountsRow[u].ver)
    BY <2>1
  <2> QED BY <1>2, <2>1, <2>2 DEF AsEarned, Grown
<1>3. ASSUME NEW n, NEW ver, NEW pw, AsMade(c, n, ver, pw) PROVE AsMade(c, n, ver, pw)'
  <2>1. /\ n \in Panel(c)!Accounts /\ n \in Panel(c)!Accounts' /\ ver \in Nat
        /\ ver <= accountsRow[n].ver /\ accountsRow[n].ver <= accountsRow'[n].ver
        /\ accountsRow[n].ver \in Nat /\ accountsRow'[n].ver \in Nat
    BY <1>1, <1>3 DEF AsMade, Grown
  <2>2. ver <= accountsRow'[n].ver /\ (ver = accountsRow'[n].ver => ver = accountsRow[n].ver)
    BY <2>1
  <2> QED BY <1>3, <2>1, <2>2 DEF AsMade, Grown
<1> QED BY <1>2, <1>3

\* Another admin who is not the account n.
Another(c, n) == \E a \in Panel(c)!Accounts \ {n} : accountsRow[a].admin /\ accountsRow[a].active

\* One account is rewritten.
LEMMA LedgerRewritten ==
    ASSUME NEW c, Proper(c), Ledger(c), NEW n \in Panel(c)!Accounts, NEW to \in Rows(c),
           accountsRow' = [accountsRow EXCEPT ![n] = to], UNCHANGED <<tokens, keys, elected>>,
           accountsRow[n].ver <= to.ver,
           to.ver = accountsRow[n].ver =>
              /\ to.pw = accountsRow[n].pw
              /\ to.totp => accountsRow[n].totp /\ to.secret = accountsRow[n].secret,
           confirmed' \in [c.names -> c.secrets \cup {None}],
           \A m \in Panel(c)!Accounts \ {n} : confirmed'[m] = confirmed[m],
           to.totp => to.secret = confirmed'[n],
           accountsRow[n].admin /\ accountsRow[n].active =>
              (to.admin /\ to.active) \/ Another(c, n)
    PROVE  Ledger(c)' /\ Grown(c) /\ UNCHANGED Panel(c)!Accounts
<1>1. accountsRow' \in [c.names -> Rows(c) \cup {None}]
      /\ n \in c.names /\ accountsRow'[n] = to /\ to.ver \in Nat
      /\ \A m \in c.names \ {n} : accountsRow'[m] = accountsRow[m]
  BY RowsTyped DEF Ledger, Rows
<1>2. UNCHANGED Panel(c)!Accounts
  BY <1>1 DEF Panel!Accounts, Proper
<1>3. Grown(c)
  BY <1>1, <1>2, RowsTyped DEF Grown, Ledger
<1>4. /\ \A t \in tokens : AsEarned(c, t)'
      /\ \A k \in keys : AsMade(c, k.user, k.ver, k.pw)'
  BY <1>3, GrownKeeps DEF Ledger
<1>5. \A m \in Panel(c)!Accounts' : accountsRow'[m].totp => accountsRow'[m].secret = confirmed'[m]
  BY <1>1, <1>2, RowsTyped DEF Ledger
<1>6. Panel(c)!SomeAdmin'
  <2>1. PICK a \in Panel(c)!Accounts : accountsRow[a].admin /\ accountsRow[a].active
    BY DEF Ledger, Panel!SomeAdmin
  <2>2. \E b \in Panel(c)!Accounts : accountsRow'[b].admin /\ accountsRow'[b].active
    <3>1. CASE a # n
      BY <1>1, <2>1, <3>1, RowsTyped DEF Ledger
    <3>2. CASE to.admin /\ to.active
      BY <1>1, <3>2
    <3>3. CASE Another(c, n)
      BY <1>1, <3>3, RowsTyped DEF Ledger, Another
    <3> QED BY <2>1, <3>1, <3>2, <3>3
  <2> QED BY <1>2, <2>2 DEF Panel!SomeAdmin
<1>7. elected' \subseteq Panel(c)!Accounts' /\ (elected' = {} \/ \E m \in elected' : elected' = {m})
  BY <1>2 DEF Ledger
<1> QED BY <1>1, <1>2, <1>3, <1>4, <1>5, <1>6, <1>7 DEF Ledger

LEMMA RowStays ==
    ASSUME NEW c, Proper(c), Ledger(c), UNCHANGED accountsRow
    PROVE  Grown(c) /\ UNCHANGED Panel(c)!Accounts
<1>1. UNCHANGED Panel(c)!Accounts
  BY DEF Panel!Accounts
<1> QED BY <1>1, RowsTyped DEF Grown, Ledger

\* No account is rewritten; what is given out is as it should be.
LEMMA LedgerKept ==
    ASSUME NEW c, Proper(c), Ledger(c), UNCHANGED <<accountsRow, confirmed, elected>>,
           \A t \in tokens' \ tokens : AsEarned(c, t),
           \A k \in keys' \ keys : AsMade(c, k.user, k.ver, k.pw)
    PROVE  Ledger(c)' /\ Grown(c) /\ UNCHANGED Panel(c)!Accounts
<1>1. Grown(c) /\ UNCHANGED Panel(c)!Accounts
  BY RowStays
<1>2. /\ \A t \in tokens' : AsEarned(c, t)'
      /\ \A k \in keys' : AsMade(c, k.user, k.ver, k.pw)'
  BY <1>1, GrownKeeps DEF Ledger
<1>3. Panel(c)!SomeAdmin'
  BY <1>1 DEF Ledger, Panel!SomeAdmin
<1> QED BY <1>1, <1>2, <1>3 DEF Ledger

\* The others wait on as they did: they are those that may be overtaken.
LEMMA OthersWait ==
    ASSUME NEW c, Proper(c), SignedIn(c), NEW r \in c.browsers, Panel(c)!Alone(r), Grown(c),
           req' \in [c.browsers -> Requests(c)], \A q \in c.browsers \ {r} : req'[q] = req[q],
           Panel(c)!Accounts' = Panel(c)!Accounts \/ req[r].pc = "insert",
           req'[r].pc = "insert" =>
              req[r].pc = "insert" \/ \A q \in c.browsers : req[q].pc # "insert",
           Waits(c, req[r])'
    PROVE  Asked(c)'
<1>1. OneInserts(c)'
  BY DEF OneInserts, SignedIn, Asked
<1>2. ASSUME NEW q \in c.browsers, q # r, req[q].pc # "idle" PROVE Waits(c, req[q])'
  <2>1. req[q].op \in {"register", "key"} /\ req'[q] = req[q] /\ Waits(c, req[q])
    BY <1>2 DEF Panel!Alone, Panel!At, Proper, SignedIn, Asked
  <2>2. c.overlaps # {}
    BY <1>2 DEF Panel!Alone, Panel!At
  <2>3. req[q].pc = "commit" => Commits(c, req[q])'
    <3> SUFFICES ASSUME req[q].pc = "commit" PROVE Commits(c, req[q])'
      OBVIOUS
    <3>1. req[q].op = "key" /\ AsMade(c, req[q].user, req[q].me.ver, req[q].me.pw)
          /\ req[q].me \in Rows(c)
      BY <2>1 DEF Waits, Commits
    <3>2. \A n, ver, pw : AsMade(c, n, ver, pw) => AsMade(c, n, ver, pw)'
      BY GrownKeeps DEF SignedIn
    <3>3. AsMade(c, req[q].user, req[q].me.ver, req[q].me.pw)'
      <4>1. ASSUME NEW n, NEW ver, NEW pw,
                   n = req[q].user, ver = req[q].me.ver, pw = req[q].me.pw
            PROVE  AsMade(c, n, ver, pw)'
        BY <3>1, <3>2, <4>1
      <4> QED BY <2>1, <4>1 DEF AsMade
    <3>4. req'[q].user \in Panel(c)!Accounts'
      BY <3>3 DEF AsMade
    <3> QED BY <2>1, <3>1, <3>3, <3>4 DEF Commits, Rows
  <2>4. req[q].pc = "issue" => Shown(c, req[q])'
    BY <2>1, <2>2 DEF Waits, Shown, Grown
  <2>5. req[q].pc = "insert" => Panel(c)!Accounts' = Panel(c)!Accounts
    BY <1>2 DEF SignedIn, Asked, OneInserts
  <2> QED BY <2>1, <2>3, <2>4, <2>5 DEF Waits
<1>3. ASSUME NEW q \in c.browsers, q # r, req[q].pc = "idle" PROVE Waits(c, req[q])'
  BY <1>3 DEF Waits
<1> QED BY <1>1, <1>2, <1>3 DEF Asked

LEMMA DoorStays ==
    ASSUME NEW c, Door(c), UNCHANGED <<lock, cookie, unlocks>>, ops' \in {ops, ops + 1}
    PROVE  Door(c)'
BY DEF Door, Panel!UnlockIsSpent

\* Request r has moved on to q.
LEMMA Moved ==
    ASSUME NEW c, Proper(c), SignedIn(c), NEW r \in c.browsers, Panel(c)!Alone(r),
           Ledger(c)', Grown(c), Door(c)',
           Panel(c)!Accounts' = Panel(c)!Accounts \/ req[r].pc = "insert",
           NEW q \in Requests(c), req' = [req EXCEPT ![r] = q],
           q.pc = "insert" =>
              req[r].pc = "insert" \/ \A p \in c.browsers : req[p].pc # "insert",
           Waits(c, q)'
    PROVE  SignedIn(c)'
<1>1. /\ req' \in [c.browsers -> Requests(c)] /\ req'[r] = q
      /\ \A p \in c.browsers \ {r} : req'[p] = req[p]
  BY DEF SignedIn, Asked
<1>2. Waits(c, req[r])'
  BY <1>1 DEF Waits, Commits, Shown, AsMade
<1> QED BY <1>1, <1>2, OthersWait DEF SignedIn

LEMMA Asking ==
    ASSUME NEW c, Proper(c), SignedIn(c), NEW r \in c.browsers, NEW op, Panel(c)!Begin(r, op),
           NEW q \in Requests(c), q.pc # "insert", Waits(c, q), req' = [req EXCEPT ![r] = q],
           UNCHANGED <<accountsRow, tokens, keys, lock, cookie, unlocks, confirmed, elected>>
    PROVE  SignedIn(c)' /\ Grown(c)
<1>1. Panel(c)!Alone(r) /\ ops' = ops + 1
  BY DEF Panel!Begin
<1>2. Ledger(c)' /\ Grown(c) /\ UNCHANGED Panel(c)!Accounts
  BY LedgerKept DEF SignedIn
<1>3. Door(c)'
  BY <1>1, DoorStays DEF SignedIn
<1>4. Waits(c, q)'
  BY <1>2 DEF Waits, Commits, Shown, AsMade
<1> QED BY <1>1, <1>2, <1>3, <1>4, Moved

\* Request r is over.
LEMMA Ended ==
    ASSUME NEW c, Proper(c), SignedIn(c), NEW r \in c.browsers, NEW from, Panel(c)!Go(r, from),
           Panel(c)!End(r), Ledger(c)', Grown(c), UNCHANGED <<lock, cookie, unlocks>>,
           Panel(c)!Accounts' = Panel(c)!Accounts
    PROVE  SignedIn(c)' /\ Grown(c)
<1>1. Panel(c)!Alone(r) /\ ops' = ops
  BY DEF Panel!Go
<1>2. Door(c)'
  BY <1>1, DoorStays DEF SignedIn
<1>3. PICK q \in Requests(c) : q = Panel(c)!Idle
  BY DEF Panel!Idle, Requests, Panel!Pc, Panel!AllOps
<1>4. req' = [req EXCEPT ![r] = q] /\ q.pc = "idle"
  BY <1>3 DEF Panel!Idle, Panel!End
<1>5. Waits(c, q)'
  BY <1>4 DEF Waits
<1> QED BY <1>1, <1>2, <1>4, <1>5, Moved

\* Request r goes on to give out a session.
LEMMA GoesOn ==
    ASSUME NEW c, Proper(c), SignedIn(c), NEW r \in c.browsers, NEW from, Panel(c)!Go(r, from),
           Panel(c)!Step(r, "issue"), Ledger(c)', Grown(c), UNCHANGED <<lock, cookie, unlocks>>,
           Panel(c)!Accounts' = Panel(c)!Accounts \/ req[r].pc = "insert",
           req[r].op \in {"register", "login", "change", "enable"}, Shown(c, req[r])'
    PROVE  SignedIn(c)' /\ Grown(c)
<1>1. Panel(c)!Alone(r) /\ ops' = ops
  BY DEF Panel!Go
<1>2. Door(c)'
  BY <1>1, DoorStays DEF SignedIn
<1>3. PICK q \in Requests(c) : q = [req[r] EXCEPT !.pc = "issue"]
  BY DEF Requests, SignedIn, Asked, Panel!Pc
<1>4. req[r] \in Requests(c) /\ req' = [req EXCEPT ![r] = q] /\ q.pc = "issue" /\ q.op = req[r].op
      /\ req'[r] = q
  BY <1>3 DEF Panel!Step, Requests, SignedIn, Asked
<1>5. Waits(c, q)'
  <2>1. Shown(c, q)'
    BY <1>4 DEF Shown
  <2> QED BY <1>4, <2>1 DEF Waits
<1> QED BY <1>1, <1>2, <1>4, <1>5, Moved

\* What is asked for: visitors, people signed in and administrators.
LEMMA VisitorsAsk ==
    ASSUME NEW c, Proper(c), SignedIn(c), NEW r \in c.browsers, Panel(c)!Visitor(r)
    PROVE  SignedIn(c)' /\ Grown(c)
<1>1. Panel(c)!Accounts \subseteq c.names
  BY DEF Panel!Accounts
<1>2. CASE Panel(c)!Unlock(r)
  <2>1. PICK q \in Requests(c) :
          q = [pc |-> "cookie", op |-> "unlock", user |-> None, me |-> None, pw |-> None,
               code |-> None, what |-> None]
    BY DEF Requests, Panel!Pc, Panel!AllOps
  <2>2. Waits(c, q) /\ q.pc # "insert"
    BY <2>1 DEF Waits
  <2> QED BY <1>2, <2>1, <2>2, Asking
           DEF Panel!Unlock, Panel!Ask, Panel!DoorUnchanged, Panel!History
<1>3. ASSUME NEW n \in c.names, NEW p \in Password, Panel(c)!Register(r, n, p)
      PROVE  SignedIn(c)' /\ Grown(c)
  <2>1. PICK q \in Requests(c) :
          q = [pc |-> "count", op |-> "register", user |-> n, me |-> None, pw |-> p,
               code |-> None, what |-> None]
    BY DEF Requests, Panel!Pc, Panel!AllOps
  <2>2. Waits(c, q) /\ q.pc # "insert"
    BY <2>1 DEF Waits
  <2> QED BY <1>3, <2>1, <2>2, Asking
           DEF Panel!Register, Panel!Ask, Panel!DoorUnchanged, Panel!History
<1>4. ASSUME NEW n \in c.names, NEW p \in Password, NEW code \in c.secrets \cup {None},
             Panel(c)!Login(r, n, p, code)
      PROVE  SignedIn(c)' /\ Grown(c)
  <2>1. n \in Panel(c)!Accounts /\ accountsRow[n] \in Rows(c)
    BY <1>4, RowsTyped DEF Panel!Login, SignedIn, Ledger
  <2>2. PICK q \in Requests(c) :
          q = [pc |-> "checked", op |-> "login", user |-> n, me |-> accountsRow[n], pw |-> p,
               code |-> code, what |-> None]
    BY <2>1 DEF Requests, Panel!Pc, Panel!AllOps
  <2>3. Waits(c, q) /\ q.pc # "insert"
    BY <2>1, <2>2 DEF Waits
  <2> QED BY <1>4, <2>2, <2>3, Asking
           DEF Panel!Login, Panel!Ask, Panel!DoorUnchanged, Panel!History
<1> QED BY <1>2, <1>3, <1>4 DEF Panel!Visitor

\* Somebody who is signed in asks for something, with what the row says.
LEMMA Entering ==
    ASSUME NEW c, Proper(c), SignedIn(c), NEW r \in c.browsers, NEW n \in c.names,
           NEW op \in {"change", "everywhere", "setup", "enable", "disable", "key"},
           NEW pw \in Password \cup {None}, NEW code \in c.secrets \cup {None},
           Panel(c)!Enter(r, op, n, pw, code, None),
           op = "change" =>
              pw \in Password /\ (accountsRow[n].totp => code = accountsRow[n].secret),
           op = "setup" => ~accountsRow[n].totp,
           op = "enable" => pw = accountsRow[n].pw /\ code = accountsRow[n].secret
    PROVE  SignedIn(c)' /\ Grown(c)
<1>1. n \in Panel(c)!Accounts /\ accountsRow[n] \in Rows(c) /\ accountsRow[n].ver \in Nat
  BY RowsTyped DEF Panel!Enter, Panel!SignedIn, Panel!Valid, SignedIn, Ledger
<1>2. PICK q \in Requests(c) :
        q = [pc |-> "commit", op |-> op, user |-> n, me |-> accountsRow[n], pw |-> pw,
             code |-> code, what |-> None]
  BY <1>1 DEF Requests, Panel!Pc, Panel!AllOps
<1>3. AsMade(c, n, accountsRow[n].ver, accountsRow[n].pw)
  BY <1>1 DEF AsMade
<1>4. Commits(c, q)
  BY <1>1, <1>2, <1>3 DEF Commits
<1>5. Waits(c, q) /\ q.pc # "insert"
  BY <1>2, <1>4 DEF Waits
<1> QED BY <1>2, <1>5, Asking
        DEF Panel!Enter, Panel!Ask, Panel!DoorUnchanged, Panel!History

LEMMA OwnersAsk ==
    ASSUME NEW c, Proper(c), SignedIn(c), NEW r \in c.browsers, NEW n \in c.names,
           Panel(c)!Own(r, n)
    PROVE  SignedIn(c)' /\ Grown(c)
<1>1. Panel(c)!SignedIn(n) =>
         accountsRow[n].pw \in Password /\ accountsRow[n].secret \in c.secrets \cup {None}
  BY RowsTyped DEF Panel!SignedIn, Panel!Valid, SignedIn, Ledger, Rows
<1>2. \A op, pw, code : Panel(c)!Enter(r, op, n, pw, code, None) => Panel(c)!SignedIn(n)
  BY DEF Panel!Enter
<1>3. CASE Panel(c)!LogoutAll(r, n) \/ Panel(c)!TotpDisable(r, n) \/ Panel(c)!CreateKey(r, n)
  <2>1. PICK op \in {"everywhere", "disable", "key"}, pw \in Password \cup {None} :
          Panel(c)!Enter(r, op, n, pw, None, None)
    BY <1>1, <1>2, <1>3 DEF Panel!LogoutAll, Panel!TotpDisable, Panel!CreateKey
  <2> QED BY <2>1, Entering
<1>4. ASSUME NEW p \in Password, Panel(c)!ChangePassword(r, n, p)
      PROVE  SignedIn(c)' /\ Grown(c)
  <2>1. PICK op \in {"change"}, code \in c.secrets \cup {None} :
          /\ Panel(c)!Enter(r, op, n, p, code, None)
          /\ accountsRow[n].totp => code = accountsRow[n].secret
    <3> DEFINE code == IF Panel(c)!SignedIn(n) /\ accountsRow[n].totp
                       THEN accountsRow[n].secret ELSE None
    <3>1. Panel(c)!Enter(r, "change", n, p, code, None) /\ code \in c.secrets \cup {None}
      BY <1>1, <1>4 DEF Panel!ChangePassword
    <3>2. accountsRow[n].totp => code = accountsRow[n].secret
      BY <1>2, <3>1
    <3> HIDE DEF code
    <3> QED BY <3>1, <3>2
  <2> QED BY <2>1, Entering
<1>5. ASSUME NEW s \in c.secrets, Panel(c)!TotpSetup(r, n, s) PROVE SignedIn(c)' /\ Grown(c)
  <2>1. PICK op \in {"setup"}, pw \in {None} :
          Panel(c)!Enter(r, op, n, pw, s, None) /\ ~accountsRow[n].totp
    BY <1>2, <1>5 DEF Panel!TotpSetup
  <2> QED BY <2>1, Entering
<1>6. CASE Panel(c)!TotpEnable(r, n)
  <2>1. PICK op \in {"enable"}, pw \in Password \cup {None}, code \in c.secrets \cup {None} :
          /\ Panel(c)!Enter(r, op, n, pw, code, None)
          /\ pw = accountsRow[n].pw /\ code = accountsRow[n].secret
    <3> DEFINE pw == IF Panel(c)!SignedIn(n) THEN accountsRow[n].pw ELSE None
               code == IF Panel(c)!SignedIn(n) THEN accountsRow[n].secret ELSE None
    <3>1. Panel(c)!Enter(r, "enable", n, pw, code, None)
      BY <1>6 DEF Panel!TotpEnable
    <3>2. Panel(c)!SignedIn(n)
      BY <1>2, <3>1
    <3>3. /\ pw = accountsRow[n].pw /\ code = accountsRow[n].secret
          /\ pw \in Password \cup {None} /\ code \in c.secrets \cup {None}
      BY <1>1, <3>2
    <3> HIDE DEF pw, code
    <3> QED BY <3>1, <3>3
  <2> QED BY <2>1, Entering
<1> QED BY <1>3, <1>4, <1>5, <1>6 DEF Panel!Own

LEMMA AdminsAsk ==
    ASSUME NEW c, Proper(c), SignedIn(c), NEW r \in c.browsers, NEW a \in c.names,
           Panel(c)!ByAdmin(r, a)
    PROVE  SignedIn(c)' /\ Grown(c)
<1>1. Panel(c)!IsAdmin(a) =>
         a \in Panel(c)!Accounts /\ accountsRow[a].admin /\ accountsRow[a].active
  BY DEF Panel!IsAdmin, Panel!SignedIn, Panel!Valid
<1>2. ASSUME UNCHANGED <<accountsRow, tokens, keys, confirmed, elected, req>>,
             Door(c)'
      PROVE  SignedIn(c)' /\ Grown(c)
  <2>1. Ledger(c)' /\ Grown(c) /\ UNCHANGED Panel(c)!Accounts
    BY <1>2, LedgerKept DEF SignedIn
  <2>2. OneInserts(c)'
    BY <1>2 DEF OneInserts, SignedIn, Asked
  <2>3. ASSUME NEW q \in c.browsers PROVE Waits(c, req[q])'
    BY <1>2, <2>1 DEF SignedIn, Asked, Waits, Commits, Shown, AsMade
  <2> QED BY <1>2, <2>1, <2>2, <2>3 DEF SignedIn, Asked
<1>3. CASE Panel(c)!SetOpen(r, a)
  BY <1>2, <1>3, DoorStays
  DEF Panel!SetOpen, Panel!Begin, Panel!History, SignedIn
<1>4. ASSUME NEW on \in BOOLEAN, Panel(c)!SetLock(r, a, on) PROVE SignedIn(c)' /\ Grown(c)
  <2>1. Door(c)'
    BY <1>4 DEF Panel!SetLock, Panel!Begin, SignedIn, Door, Panel!UnlockIsSpent
  <2> QED BY <1>2, <1>4, <2>1 DEF Panel!SetLock, Panel!History
<1>5. ASSUME NEW n \in c.names, NEW p \in Password, Panel(c)!Reset(r, a, n, p)
      PROVE  SignedIn(c)' /\ Grown(c)
  <2>1. n \in Panel(c)!Accounts /\ accountsRow[n] \in Rows(c)
    BY <1>5, RowsTyped DEF Panel!Reset, SignedIn, Ledger
  <2>2. PICK q \in Requests(c) :
          q = [pc |-> "commit", op |-> "reset", user |-> n, me |-> accountsRow[n], pw |-> p,
               code |-> None, what |-> None]
    BY <2>1 DEF Requests, Panel!Pc, Panel!AllOps
  <2>3. Waits(c, q) /\ q.pc # "insert"
    BY <2>1, <2>2 DEF Waits, Commits
  <2> QED BY <1>5, <2>2, <2>3, Asking
           DEF Panel!Reset, Panel!Ask, Panel!DoorUnchanged, Panel!History
<1>6. ASSUME NEW n \in c.names, NEW p \in Password, NEW what \in Panel(c)!Changes,
             Panel(c)!Patch(r, a, n, what, p)
      PROVE  SignedIn(c)' /\ Grown(c)
  <2>1. /\ n \in Panel(c)!Accounts /\ accountsRow[n] \in Rows(c)
        /\ what \in {"disable", "demote"} =>
              a # n /\ a \in Panel(c)!Accounts /\ accountsRow[a].admin /\ accountsRow[a].active
    BY <1>1, <1>6, RowsTyped DEF Panel!Patch, SignedIn, Ledger
  <2>2. PICK q \in Requests(c) :
          q = [pc |-> "commit", op |-> "patch", user |-> n, me |-> accountsRow[n], pw |-> p,
               code |-> None, what |-> what]
    BY <2>1 DEF Requests, Panel!Pc, Panel!AllOps
  <2>3. Waits(c, q) /\ q.pc # "insert"
    BY <2>1, <2>2 DEF Waits, Commits
  <2> QED BY <1>6, <2>2, <2>3, Asking
           DEF Panel!Patch, Panel!Ask, Panel!DoorUnchanged, Panel!History
<1> QED BY <1>3, <1>4, <1>5, <1>6 DEF Panel!ByAdmin

\* A first account is an administrator, and a later one is not.
LEMMA LedgerInserted ==
    ASSUME NEW c, Proper(c), Ledger(c), NEW n \in c.names, accountsRow[n] = None,
           NEW to \in Rows(c), ~to.totp, to.active, to.admin <=> Panel(c)!Accounts = {},
           accountsRow' = [accountsRow EXCEPT ![n] = to], UNCHANGED <<tokens, keys, confirmed>>,
           elected' = IF Panel(c)!Accounts = {} THEN elected \cup {n} ELSE elected
    PROVE  Ledger(c)' /\ Grown(c) /\ n \in Panel(c)!Accounts'
<1>1. /\ accountsRow' \in [c.names -> Rows(c) \cup {None}] /\ accountsRow'[n] = to
      /\ \A m \in c.names \ {n} : accountsRow'[m] = accountsRow[m]
  BY DEF Ledger
<1>2. n \notin Panel(c)!Accounts /\ Panel(c)!Accounts' = Panel(c)!Accounts \cup {n}
  BY <1>1 DEF Panel!Accounts, Proper
<1>3. \A m \in Panel(c)!Accounts : accountsRow'[m] = accountsRow[m]
  BY <1>1, <1>2, RowsTyped DEF Ledger
<1>4. Grown(c)
  BY <1>2, <1>3, RowsTyped DEF Grown, Ledger
<1>5. /\ \A t \in tokens' : AsEarned(c, t)'
      /\ \A k \in keys' : AsMade(c, k.user, k.ver, k.pw)'
  BY <1>4, GrownKeeps DEF Ledger
<1>6. \A m \in Panel(c)!Accounts' : accountsRow'[m].totp => accountsRow'[m].secret = confirmed'[m]
  BY <1>1, <1>2, <1>3 DEF Ledger
<1>7. elected' \subseteq Panel(c)!Accounts' /\ (elected' = {} \/ \E m \in elected' : elected' = {m})
  <2>1. CASE Panel(c)!Accounts = {}
    <3>1. elected = {} /\ elected' = {n}
      BY <2>1 DEF Ledger
    <3> QED BY <1>2, <3>1
  <2>2. CASE Panel(c)!Accounts # {}
    BY <1>2, <2>2 DEF Ledger
  <2> QED BY <2>1, <2>2
<1>8. Panel(c)!SomeAdmin'
  <2>1. CASE Panel(c)!Accounts = {}
    BY <1>1, <1>2, <2>1 DEF Panel!SomeAdmin
  <2>2. CASE Panel(c)!Accounts # {}
    <3>1. PICK a \in Panel(c)!Accounts : accountsRow[a].admin /\ accountsRow[a].active
      BY <2>2 DEF Ledger, Panel!SomeAdmin
    <3> QED BY <1>2, <1>3, <3>1 DEF Panel!SomeAdmin
  <2> QED BY <2>1, <2>2
<1> QED BY <1>1, <1>2, <1>4, <1>5, <1>6, <1>7, <1>8 DEF Ledger

LEMMA VisitorsGoOn ==
    ASSUME NEW c, Proper(c), SignedIn(c), NEW r \in c.browsers,
           Panel(c)!Count(r) \/ Panel(c)!Insert(r) \/ Panel(c)!Judge(r)
    PROVE  SignedIn(c)' /\ Grown(c)
<1>1. req[r] \in Requests(c) /\ Waits(c, req[r])
  BY DEF SignedIn, Asked
<1>2. ASSUME UNCHANGED <<accountsRow, tokens, keys, confirmed, elected>>
      PROVE  Ledger(c)' /\ Grown(c) /\ UNCHANGED Panel(c)!Accounts
  BY <1>2, LedgerKept DEF SignedIn
<1>3. CASE Panel(c)!Count(r)
  <2>1. CASE Panel(c)!End(r)
    BY <1>2, <1>3, <2>1, Ended DEF Panel!Count, Panel!DoorUnchanged, Panel!History
  <2>2. CASE /\ \A q \in c.browsers : req[q].pc # "insert"
             /\ req' = [req EXCEPT ![r] = [@ EXCEPT !.pc = "insert",
                              !.what = IF Panel(c)!Accounts = {} THEN "first" ELSE "later"]]
    <3>1. PICK q \in Requests(c) :
            q = [req[r] EXCEPT !.pc = "insert",
                    !.what = IF Panel(c)!Accounts = {} THEN "first" ELSE "later"]
      BY <1>1 DEF Requests, Panel!Pc
    <3>2. req' = [req EXCEPT ![r] = q]
      BY <2>2, <3>1
    <3>3. /\ q.pc = "insert" /\ q.op = "register" /\ q.user \in c.names /\ q.pw \in Password
          /\ q.what = IF Panel(c)!Accounts = {} THEN "first" ELSE "later"
      BY <1>1, <1>3, <3>1 DEF Requests, Waits, Panel!Count, Panel!Go, Panel!At
    <3>4. Waits(c, q)'
      BY <1>2, <1>3, <3>3 DEF Waits, Panel!Count, Panel!DoorUnchanged, Panel!History
    <3>5. Panel(c)!Alone(r) /\ Door(c)'
      BY <1>3, DoorStays DEF Panel!Count, Panel!Go, Panel!DoorUnchanged, SignedIn
    <3>6. Ledger(c)' /\ Grown(c) /\ UNCHANGED Panel(c)!Accounts
      BY <1>2, <1>3 DEF Panel!Count, Panel!History
    <3> QED BY <2>2, <3>2, <3>4, <3>5, <3>6, Moved
  <2>3. \/ Panel(c)!End(r)
        \/ req' = [req EXCEPT ![r] = [@ EXCEPT !.pc = "insert",
                              !.what = IF Panel(c)!Accounts = {} THEN "first" ELSE "later"]]
    BY <1>3 DEF Panel!Count
  <2>4. \A q \in c.browsers : req[q].pc # "insert"
    BY <1>3 DEF Panel!Count, Panel!At
  <2> QED BY <2>1, <2>2, <2>3, <2>4
<1>4. CASE Panel(c)!Judge(r)
  <2>1. CASE Panel(c)!End(r)
    BY <1>2, <1>4, <2>1, Ended DEF Panel!Judge, Panel!DoorUnchanged, Panel!History
  <2>2. CASE /\ Panel(c)!PasswordIsRight(req[r].me, req[r].pw)
             /\ Panel(c)!CodeIsRight(req[r].me, req[r].code) /\ Panel(c)!Step(r, "issue")
    <3>1. Waits(c, req[r]) /\ req[r].pc = "checked"
      BY <1>1, <1>4 DEF Panel!Judge, Panel!Go, Panel!At
    <3>2. Shown(c, req[r]) /\ req[r].op = "login"
      BY <2>2, <3>1 DEF Waits, Shown, Panel!PasswordIsRight, Panel!CodeIsRight
    <3>3. /\ req'[r].user = req[r].user /\ req'[r].pw = req[r].pw /\ req'[r].code = req[r].code
      BY <1>1, <2>2 DEF Panel!Step, SignedIn, Asked, Requests
    <3>4. Ledger(c)' /\ Grown(c) /\ UNCHANGED Panel(c)!Accounts /\ UNCHANGED accountsRow
      BY <1>2, <1>4 DEF Panel!Judge, Panel!History
    <3>5. Shown(c, req[r])'
      BY <3>2, <3>3, <3>4 DEF Shown
    <3> QED BY <1>4, <2>2, <3>2, <3>4, <3>5, GoesOn DEF Panel!Judge, Panel!DoorUnchanged
  <2> QED BY <1>4, <2>1, <2>2 DEF Panel!Judge
<1>5. CASE Panel(c)!Insert(r)
  <2> DEFINE n == req[r].user
  <2>1. /\ req[r].pc = "insert" /\ req[r].op = "register" /\ n \in c.names
        /\ req[r].pw \in Password
        /\ req[r].what \in {"first", "later"}
        /\ req[r].what = "first" <=> Panel(c)!Accounts = {}
    BY <1>1, <1>5 DEF Panel!Insert, Panel!Go, Panel!At, Waits
  <2>2. CASE accountsRow[n] # None
    <3>1. Panel(c)!End(r) /\ UNCHANGED <<accountsRow, elected>>
      BY <1>5, <2>2 DEF Panel!Insert
    <3> QED BY <1>2, <1>5, <3>1, Ended DEF Panel!Insert, Panel!DoorUnchanged
  <2>3. CASE accountsRow[n] = None
    <3> DEFINE to == [pw |-> req[r].pw, ver |-> 1, active |-> TRUE, admin |-> req[r].what = "first",
                      totp |-> FALSE, secret |-> None]
    <3>1. /\ accountsRow' = [accountsRow EXCEPT ![n] = to] /\ Panel(c)!Step(r, "issue")
          /\ elected' = IF req[r].what = "first" THEN elected \cup {n} ELSE elected
          /\ UNCHANGED <<tokens, keys, confirmed>>
      BY <1>5, <2>3 DEF Panel!Insert
    <3>2. /\ to \in Rows(c) /\ ~to.totp /\ to.active /\ (to.admin <=> Panel(c)!Accounts = {})
          /\ to.pw = req[r].pw
      BY <2>1 DEF Rows
    <3>3. elected' = IF Panel(c)!Accounts = {} THEN elected \cup {n} ELSE elected
      BY <2>1, <3>1
    <3> HIDE DEF to
    <3>4. Ledger(c)' /\ Grown(c) /\ n \in Panel(c)!Accounts'
      BY <2>1, <2>3, <3>1, <3>2, <3>3, LedgerInserted DEF SignedIn
    <3>5. accountsRow'[n] = to
      BY <2>1, <3>1 DEF SignedIn, Ledger
    <3>6. /\ req'[r].user = n /\ req'[r].pw = req[r].pw
      BY <1>1, <3>1 DEF Panel!Step, SignedIn, Asked, Requests
    <3>7. Shown(c, req[r])'
      BY <2>1, <3>2, <3>4, <3>5, <3>6 DEF Shown
    <3> QED BY <1>5, <2>1, <3>1, <3>4, <3>7, GoesOn DEF Panel!Insert, Panel!DoorUnchanged
  <2> QED BY <2>2, <2>3
<1> QED BY <1>3, <1>4, <1>5

\* A session is given out, or an unlock cookie.
LEMMA Giving ==
    ASSUME NEW c, Proper(c), SignedIn(c), NEW r \in c.browsers,
           Panel(c)!GiveToken(r) \/ Panel(c)!GiveCookie(r)
    PROVE  SignedIn(c)' /\ Grown(c)
<1>1. req[r] \in Requests(c) /\ Waits(c, req[r])
  BY DEF SignedIn, Asked
<1>2. Panel(c)!Alone(r) /\ Panel(c)!End(r) /\ UNCHANGED <<ops, accountsRow, confirmed, elected, keys, lock>>
  BY DEF Panel!GiveToken, Panel!GiveCookie, Panel!Go, Panel!History
<1>3. PICK q \in Requests(c) : q = Panel(c)!Idle
  BY DEF Panel!Idle, Requests, Panel!Pc, Panel!AllOps
<1>4. req' = [req EXCEPT ![r] = q] /\ q.pc = "idle"
  BY <1>2, <1>3 DEF Panel!Idle, Panel!End
<1>5. Waits(c, q)'
  BY <1>4 DEF Waits
<1>6. ASSUME Ledger(c)', Grown(c), Door(c)', UNCHANGED Panel(c)!Accounts
      PROVE  SignedIn(c)' /\ Grown(c)
  BY <1>2, <1>4, <1>5, <1>6, Moved
<1>7. CASE Panel(c)!GiveToken(r)
  <2> DEFINE n == req[r].user
             t == [user |-> n, ver |-> accountsRow[n].ver, pw |-> req[r].pw, code |-> req[r].code]
  <2>1. tokens' = tokens \cup {t} /\ cookie' = [cookie EXCEPT ![r] = 0]
        /\ unlocks' = [unlocks EXCEPT ![r] =
              IF req[r].op \in {"login", "register"} /\ @ > 0 THEN @ - 1 ELSE @]
    BY <1>7 DEF Panel!GiveToken, Panel!Issue
  <2>2. Shown(c, req[r])
    BY <1>1, <1>7 DEF Panel!GiveToken, Panel!Go, Panel!At, Waits
  <2>3. AsEarned(c, t)
    BY <2>2, RowsTyped DEF Shown, AsEarned, SignedIn, Ledger
  <2>4. Ledger(c)' /\ Grown(c) /\ UNCHANGED Panel(c)!Accounts
    BY <1>2, <2>1, <2>3, LedgerKept DEF SignedIn
  <2>5. unlocks' \in [c.browsers -> Nat] /\ \A p \in c.browsers \ {r} : unlocks'[p] = unlocks[p]
    BY <2>1 DEF SignedIn, Door
  <2>6. cookie' \in [c.browsers -> Nat] /\ cookie'[r] = 0
        /\ \A p \in c.browsers \ {r} : cookie'[p] = cookie[p]
    BY <2>1 DEF SignedIn, Door
  <2>7. Door(c)'
    BY <1>2, <2>5, <2>6 DEF SignedIn, Door, Panel!UnlockIsSpent
  <2> QED BY <1>6, <2>4, <2>7
<1>8. CASE Panel(c)!GiveCookie(r)
  <2>1. cookie' = [cookie EXCEPT ![r] = lock] /\ unlocks' = [unlocks EXCEPT ![r] = @ + 1]
        /\ UNCHANGED tokens
    BY <1>8 DEF Panel!GiveCookie
  <2>2. Ledger(c)' /\ Grown(c) /\ UNCHANGED Panel(c)!Accounts
    BY <1>2, <2>1, LedgerKept DEF SignedIn
  <2>3. Door(c)'
    BY <1>2, <2>1 DEF SignedIn, Door, Panel!UnlockIsSpent
  <2> QED BY <1>6, <2>2, <2>3
<1> QED BY <1>7, <1>8

\* What is committed to a row that nobody else has touched since it was read.
LEMMA Committing ==
    ASSUME NEW c, Proper(c), SignedIn(c), NEW r \in c.browsers, Panel(c)!Go(r, "commit"),
           req[r].op # "key", NEW to \in Rows(c), Panel(c)!Flush(req[r].user, req[r].me, to),
           UNCHANGED <<tokens, keys, elected>>,
           req[r].me.ver <= to.ver,
           to.ver = req[r].me.ver =>
              /\ to.pw = req[r].me.pw
              /\ to.totp => req[r].me.totp /\ to.secret = req[r].me.secret,
           \/ UNCHANGED confirmed /\ (to.totp => req[r].me.totp /\ to.secret = req[r].me.secret)
           \/ confirmed' = [confirmed EXCEPT ![req[r].user] = to.secret],
           req[r].me.admin /\ req[r].me.active =>
              (to.admin /\ to.active) \/ Another(c, req[r].user)
    PROVE  /\ Ledger(c)' /\ Grown(c) /\ UNCHANGED Panel(c)!Accounts
           /\ req[r].user \in Panel(c)!Accounts /\ accountsRow'[req[r].user] = to
<1>1. req[r] \in Requests(c) /\ Commits(c, req[r])
  BY DEF SignedIn, Asked, Waits, Panel!Go, Panel!At
<1>2. PICK n \in Panel(c)!Accounts : n = req[r].user
  BY <1>1 DEF Commits
<1>3. n \in c.names /\ req[r].me = accountsRow[n] /\ req[r].me \in Rows(c)
  BY <1>1, <1>2, RowsTyped DEF Commits, SignedIn, Ledger
<1>4. accountsRow' = [accountsRow EXCEPT ![n] = to]
  BY <1>2, <1>3, FlushWrites DEF SignedIn, Ledger
<1>5. confirmed' \in [c.names -> c.secrets \cup {None}]
      /\ (\A m \in Panel(c)!Accounts \ {n} : confirmed'[m] = confirmed[m])
      /\ (to.totp => to.secret = confirmed'[n])
  <2>1. CASE UNCHANGED confirmed /\ (to.totp => req[r].me.totp /\ to.secret = req[r].me.secret)
    BY <1>2, <1>3, <2>1 DEF SignedIn, Ledger
  <2>2. CASE confirmed' = [confirmed EXCEPT ![n] = to.secret]
    <3>1. to.secret \in c.secrets \cup {None} /\ Panel(c)!Accounts \subseteq c.names
      BY DEF Rows, Panel!Accounts
    <3> QED BY <1>3, <2>2, <3>1 DEF SignedIn, Ledger
  <2> QED BY <1>2, <2>1, <2>2
<1>6. Ledger(c)' /\ Grown(c) /\ UNCHANGED Panel(c)!Accounts
  BY <1>2, <1>3, <1>4, <1>5, LedgerRewritten DEF SignedIn
<1>7. accountsRow'[n] = to
  BY <1>3, <1>4 DEF SignedIn, Ledger
<1> QED BY <1>2, <1>6, <1>7

\* The commits after which the request is over.
LEMMA CommitsEnd ==
    ASSUME NEW c, Proper(c), SignedIn(c), NEW r \in c.browsers,
           \/ Panel(c)!CommitLogoutAll(r) \/ Panel(c)!CommitSetup(r) \/ Panel(c)!CommitDisable(r)
           \/ Panel(c)!CommitPatch(r) \/ Panel(c)!CommitReset(r)
    PROVE  SignedIn(c)' /\ Grown(c)
<1> DEFINE me == req[r].me
<1>1. req[r] \in Requests(c) /\ req[r].pc = "commit"
      /\ req[r].op \in {"everywhere", "setup", "disable", "patch", "reset"}
  BY DEF SignedIn, Asked, Panel!CommitLogoutAll, Panel!CommitSetup, Panel!CommitDisable,
         Panel!CommitPatch, Panel!CommitReset, Panel!Go, Panel!At
<1>2. Commits(c, req[r])
  BY <1>1 DEF SignedIn, Asked, Waits
<1>3. /\ Panel(c)!Go(r, "commit") /\ Panel(c)!End(r)
      /\ UNCHANGED <<tokens, keys, lock, cookie, unlocks, confirmed, elected>>
  BY DEF Panel!CommitLogoutAll, Panel!CommitSetup, Panel!CommitDisable, Panel!CommitPatch,
         Panel!CommitReset, Panel!DoorUnchanged, Panel!History
<1>4. me \in Rows(c) /\ me.ver \in Nat
  BY <1>2 DEF Commits, Rows
<1> PICK v \in Nat : v = me.ver + 1
  BY <1>4
<1>5. \E to \in Rows(c) :
         /\ Panel(c)!Flush(req[r].user, me, to)
         /\ me.ver <= to.ver
         /\ to.ver = me.ver =>
               to.pw = me.pw /\ (to.totp => me.totp /\ to.secret = me.secret)
         /\ to.totp => me.totp /\ to.secret = me.secret
         /\ me.admin /\ me.active => (to.admin /\ to.active) \/ Another(c, req[r].user)
  <2>1. CASE Panel(c)!CommitLogoutAll(r)
    <3> DEFINE to == [me EXCEPT !.ver = v]
    <3>1. /\ to \in Rows(c) /\ to.ver = v /\ to.totp = me.totp /\ to.secret = me.secret
          /\ to.admin = me.admin /\ to.active = me.active
      BY <1>4 DEF Rows
    <3>2. Panel(c)!Flush(req[r].user, me, to)
      BY <2>1 DEF Panel!CommitLogoutAll
    <3> HIDE DEF to
    <3> QED BY <1>4, <3>1, <3>2
  <2>2. CASE Panel(c)!CommitSetup(r)
    <3> DEFINE to == [me EXCEPT !.secret = req[r].code]
    <3>1. /\ to \in Rows(c) /\ to.ver = me.ver /\ to.pw = me.pw /\ to.totp = me.totp
          /\ to.admin = me.admin /\ to.active = me.active
      BY <1>1, <1>4 DEF Rows, Requests
    <3>2. Panel(c)!Flush(req[r].user, me, to) /\ ~me.totp
      BY <1>2, <2>2 DEF Panel!CommitSetup, Commits
    <3> HIDE DEF to
    <3> QED BY <1>4, <3>1, <3>2
  <2>3. CASE Panel(c)!CommitDisable(r)
    <3> DEFINE to == [me EXCEPT !.totp = FALSE, !.secret = None, !.ver = v]
    <3>1. /\ to \in Rows(c) /\ to.ver = v /\ to.totp = FALSE
          /\ to.admin = me.admin /\ to.active = me.active
      BY <1>4 DEF Rows
    <3>2. Panel(c)!Flush(req[r].user, me, to)
      BY <2>3 DEF Panel!CommitDisable
    <3> HIDE DEF to
    <3> QED BY <1>4, <3>1, <3>2
  <2>4. CASE Panel(c)!CommitReset(r)
    <3> DEFINE to == [me EXCEPT !.pw = req[r].pw, !.ver = v, !.totp = FALSE, !.secret = None]
    <3>1. Panel(c)!Flush(req[r].user, me, to) /\ req[r].pw \in Password
      BY <1>2, <2>4 DEF Panel!CommitReset, Commits
    <3>2. /\ to \in Rows(c) /\ to.ver = v /\ to.totp = FALSE
          /\ to.admin = me.admin /\ to.active = me.active
      BY <1>4, <3>1 DEF Rows
    <3> HIDE DEF to
    <3> QED BY <1>4, <3>1, <3>2
  <2>5. CASE Panel(c)!CommitPatch(r)
    <3> DEFINE to == Panel(c)!Patched(me, req[r].what, req[r].pw)
    <3>1. /\ Panel(c)!Flush(req[r].user, me, to) /\ req[r].pw \in Password
          /\ req[r].what \in Panel(c)!Changes
          /\ req[r].what \in {"disable", "demote"} => Another(c, req[r].user)
      BY <1>2, <2>5 DEF Panel!CommitPatch, Commits, Another
    <3>2. /\ to \in Rows(c) /\ to.totp = me.totp /\ to.secret = me.secret /\ me.ver <= to.ver
          /\ to.ver = me.ver => to.pw = me.pw
          /\ req[r].what \notin {"disable", "demote"} =>
                (me.active => to.active) /\ (me.admin => to.admin)
      <4>1. /\ req[r].what = "disable" => to = [me EXCEPT !.active = FALSE, !.ver = v]
            /\ req[r].what = "enable" => to = [me EXCEPT !.active = TRUE]
            /\ req[r].what = "demote" => to = [me EXCEPT !.admin = FALSE]
            /\ req[r].what = "promote" => to = [me EXCEPT !.admin = TRUE]
            /\ req[r].what = "password" => to = [me EXCEPT !.pw = req[r].pw, !.ver = v]
        BY DEF Panel!Patched
      <4> HIDE DEF to
      <4>2. req[r].what \in {"disable", "password"} =>
               /\ to \in Rows(c) /\ to.totp = me.totp /\ to.secret = me.secret /\ to.ver = v
               /\ req[r].what = "password" => to.active = me.active /\ to.admin = me.admin
        <5>1. CASE to = [me EXCEPT !.active = FALSE, !.ver = v]
          BY <1>4, <4>1, <5>1 DEF Rows
        <5>2. CASE to = [me EXCEPT !.pw = req[r].pw, !.ver = v]
          BY <1>4, <3>1, <4>1, <5>2 DEF Rows
        <5> QED BY <4>1, <5>1, <5>2
      <4>3. req[r].what \in {"enable", "demote", "promote"} =>
               /\ to \in Rows(c) /\ to.totp = me.totp /\ to.secret = me.secret
               /\ to.ver = me.ver /\ to.pw = me.pw
               /\ req[r].what # "demote" => (me.active => to.active) /\ (me.admin => to.admin)
        <5>1. CASE to = [me EXCEPT !.active = TRUE]
          BY <1>4, <5>1 DEF Rows
        <5>2. CASE to = [me EXCEPT !.admin = FALSE] /\ req[r].what = "demote"
          BY <1>4, <5>2 DEF Rows
        <5>3. CASE to = [me EXCEPT !.admin = TRUE]
          BY <1>4, <5>3 DEF Rows
        <5> QED BY <4>1, <5>1, <5>2, <5>3
      <4>4. me.ver <= v /\ v # me.ver /\ me.ver <= me.ver
        BY <1>4
      <4> QED BY <3>1, <4>2, <4>3, <4>4 DEF Panel!Changes
    <3> HIDE DEF to
    <3> QED BY <3>1, <3>2
  <2> QED BY <2>1, <2>2, <2>3, <2>4, <2>5
<1>6. Ledger(c)' /\ Grown(c) /\ UNCHANGED Panel(c)!Accounts
  BY <1>1, <1>3, <1>5, Committing
<1> QED BY <1>3, <1>6, Ended

\* The commits after which a session is given out.
LEMMA CommitsGoOn ==
    ASSUME NEW c, Proper(c), SignedIn(c), NEW r \in c.browsers,
           Panel(c)!CommitChange(r) \/ Panel(c)!CommitEnable(r)
    PROVE  SignedIn(c)' /\ Grown(c)
<1> DEFINE me == req[r].me
<1>1. req[r] \in Requests(c) /\ req[r].pc = "commit" /\ req[r].op \in {"change", "enable"}
  BY DEF SignedIn, Asked, Panel!CommitChange, Panel!CommitEnable, Panel!Go, Panel!At
<1>2. Commits(c, req[r])
  BY <1>1 DEF SignedIn, Asked, Waits
<1>3. /\ Panel(c)!Go(r, "commit") /\ Panel(c)!Step(r, "issue")
      /\ UNCHANGED <<tokens, keys, lock, cookie, unlocks, elected>>
  BY DEF Panel!CommitChange, Panel!CommitEnable, Panel!DoorUnchanged, Panel!History
<1>4. me \in Rows(c) /\ me.ver \in Nat
  BY <1>2 DEF Commits, Rows
<1> PICK v \in Nat : v = me.ver + 1
  BY <1>4
<1>5. PICK to \in Rows(c) :
         /\ Panel(c)!Flush(req[r].user, me, to)
         /\ to.ver = me.ver + 1
         /\ to.admin = me.admin /\ to.active = me.active
         /\ \/ UNCHANGED confirmed /\ (to.totp => me.totp /\ to.secret = me.secret)
            \/ confirmed' = [confirmed EXCEPT ![req[r].user] = to.secret]
         /\ to.pw = req[r].pw /\ (to.totp => req[r].code = to.secret)
         /\ req[r].pw \in Password
  <2>1. CASE Panel(c)!CommitChange(r)
    <3> DEFINE to == [me EXCEPT !.pw = req[r].pw, !.ver = v]
    <3>1. /\ Panel(c)!Flush(req[r].user, me, to) /\ req[r].pw \in Password
          /\ me.totp => req[r].code = me.secret
          /\ UNCHANGED confirmed
      BY <1>2, <2>1 DEF Panel!CommitChange, Commits, Panel!History
    <3>2. /\ to \in Rows(c) /\ to.ver = v /\ to.totp = me.totp /\ to.secret = me.secret
          /\ to.admin = me.admin /\ to.active = me.active /\ to.pw = req[r].pw
      BY <1>4, <3>1 DEF Rows
    <3> HIDE DEF to
    <3> QED BY <3>1, <3>2
  <2>2. CASE Panel(c)!CommitEnable(r)
    <3> DEFINE to == [me EXCEPT !.totp = TRUE, !.ver = v]
    <3>1. /\ Panel(c)!Flush(req[r].user, me, to) /\ req[r].pw = me.pw /\ req[r].code = me.secret
          /\ confirmed' = [confirmed EXCEPT ![req[r].user] = req[r].code]
      BY <1>2, <2>2 DEF Panel!CommitEnable, Commits
    <3>2. /\ to \in Rows(c) /\ to.ver = v /\ to.secret = me.secret
          /\ to.admin = me.admin /\ to.active = me.active /\ to.pw = me.pw
      BY <1>4 DEF Rows
    <3>3. me.pw \in Password
      BY <1>4 DEF Rows
    <3> HIDE DEF to
    <3> QED BY <3>1, <3>2, <3>3
  <2> QED BY <2>1, <2>2
<1>6. /\ Ledger(c)' /\ Grown(c) /\ UNCHANGED Panel(c)!Accounts
      /\ req[r].user \in Panel(c)!Accounts /\ accountsRow'[req[r].user] = to
  <2>1. me.ver <= to.ver /\ to.ver # me.ver
    BY <1>4, <1>5
  <2> QED BY <1>1, <1>3, <1>5, <2>1, Committing
<1>7. Shown(c, req[r])'
  <2>1. req'[r].user = req[r].user /\ req'[r].pw = req[r].pw /\ req'[r].code = req[r].code
    BY <1>1, <1>3 DEF Panel!Step, SignedIn, Asked, Requests
  <2> QED BY <1>5, <1>6, <2>1 DEF Shown
<1> QED BY <1>1, <1>3, <1>6, <1>7, GoesOn

\* A key has the version that was read with the password.
LEMMA KeysAreMade ==
    ASSUME NEW c, Proper(c), SignedIn(c), NEW r \in c.browsers, Panel(c)!CommitKey(r)
    PROVE  SignedIn(c)' /\ Grown(c)
<1>1. Commits(c, req[r]) /\ req[r].op = "key"
  BY DEF SignedIn, Asked, Waits, Panel!CommitKey, Panel!Go, Panel!At
<1>2. AsMade(c, req[r].user, req[r].me.ver, req[r].me.pw)
  BY <1>1 DEF Commits
<1>3. \A k \in keys' \ keys : AsMade(c, k.user, k.ver, k.pw)
  BY <1>2 DEF Panel!CommitKey
<1>4. Ledger(c)' /\ Grown(c) /\ UNCHANGED Panel(c)!Accounts
  BY <1>3, LedgerKept DEF SignedIn, Panel!CommitKey, Panel!History
<1> QED BY <1>4, Ended DEF Panel!CommitKey, Panel!DoorUnchanged

LEMMA NextSignedIn ==
    ASSUME NEW c, Proper(c), SignedIn(c), [Panel(c)!Next]_accounts
    PROVE  SignedIn(c)' /\ Grown(c)
<1>1. ASSUME UNCHANGED <<accountsRow, confirmed, elected, req>>, tokens' \subseteq tokens,
             keys' \subseteq keys, Door(c)'
      PROVE  SignedIn(c)' /\ Grown(c)
  <2>1. Ledger(c)' /\ Grown(c) /\ UNCHANGED Panel(c)!Accounts
    BY <1>1, LedgerKept DEF SignedIn
  <2>2. OneInserts(c)'
    BY <1>1 DEF OneInserts, SignedIn, Asked
  <2>3. ASSUME NEW q \in c.browsers PROVE Waits(c, req[q])'
    BY <1>1, <2>1 DEF SignedIn, Asked, Waits, Commits, Shown, AsMade
  <2> QED BY <1>1, <2>1, <2>2, <2>3 DEF SignedIn, Asked
<1>2. CASE UNCHANGED accounts
  BY <1>1, <1>2, DoorStays DEF accounts, SignedIn
<1>3. ASSUME NEW k \in keys, Panel(c)!DeleteKey(k) PROVE SignedIn(c)' /\ Grown(c)
  BY <1>1, <1>3, DoorStays DEF Panel!DeleteKey, Panel!DoorUnchanged, Panel!History, SignedIn
<1>4. CASE Panel(c)!Expire
  <2>1. Door(c)'
    BY <1>4 DEF Panel!Expire, SignedIn, Door, Panel!UnlockIsSpent
  <2> QED BY <1>1, <1>4, <2>1 DEF Panel!Expire, Panel!History
<1>5. ASSUME NEW r \in c.browsers, Panel(c)!Continue(r) PROVE SignedIn(c)' /\ Grown(c)
  BY <1>5, VisitorsGoOn, Giving, CommitsEnd, CommitsGoOn, KeysAreMade DEF Panel!Continue
<1>6. CASE Panel(c)!Next
  BY <1>3, <1>4, <1>5, <1>6, VisitorsAsk, OwnersAsk, AdminsAsk DEF Panel!Next
<1> QED BY <1>2, <1>6

\* What the invariant says of sessions, keys, administrators and second factors.
LEMMA SignedInHolds ==
    ASSUME NEW c, Proper(c), SignedIn(c)
    PROVE  /\ Panel(c)!KeysEarned /\ Panel(c)!UnlockIsSpent /\ Panel(c)!SomeAdmin
           /\ Panel(c)!VerifiedSecret /\ Panel(c)!OneFirstAdmin
           /\ c.overlaps = {} => Panel(c)!SessionsEarned
<1> USE DEF SignedIn, Ledger
<1>1. Panel(c)!KeysEarned
  BY DEF AsMade, Panel!KeysEarned, Panel!Works
<1>2. c.overlaps = {} => Panel(c)!SessionsEarned
  BY DEF AsEarned, Panel!SessionsEarned, Panel!Valid
<1>3. Panel(c)!OneFirstAdmin
  <2>1. \A S : Panel(c)!Cardinality(S) = Cardinality(S)
    BY DEF Panel!Cardinality, Cardinality
  <2>2. elected = {} \/ \E n \in elected : elected = {n}
    OBVIOUS
  <2>3. Cardinality({}) = 0 /\ \A n : Cardinality({n}) = 1
    BY FS_EmptySet, FS_Singleton
  <2>4. Cardinality(elected) \in {0, 1}
    BY <2>2, <2>3
  <2> QED BY <2>1, <2>4 DEF Panel!OneFirstAdmin
<1> QED BY <1>1, <1>2, <1>3 DEF Door, Panel!VerifiedSecret

\* A revoked session stays revoked: versions only rise.
LEMMA RevokedForGood ==
    ASSUME NEW c, Proper(c), SignedIn(c), Grown(c) PROVE Panel(c)!NoRevival
<1> SUFFICES ASSUME NEW t \in tokens, t.user \in Panel(c)!Accounts,
                    t.ver < accountsRow[t.user].ver
             PROVE  t.ver # accountsRow'[t.user].ver
  BY DEF Panel!NoRevival
<1>1. t.ver \in Nat /\ accountsRow[t.user].ver \in Nat
  BY RowsTyped DEF SignedIn, Ledger, AsEarned
<1> QED BY <1>1 DEF Grown

------------------------------------------------------------------------------
(* Bans of addresses *)

Sets == SUBSET Barring.addresses
CacheType == [ips: Sets, rules: Sets, fresh: {TRUE, FALSE}]
PinType == [Barring.addresses -> {"none", "young", "old"}]
ReqType == [pc: Bans!Pc, op: {"visit", "ban", "unban", "save"},
            key: Barring.addresses, rules: Sets, read: [ips: Sets, rules: Sets]]
BansTyped ==
    /\ db \in [ips: Sets, rules: Sets]
    /\ cache \in [Barring.processes -> CacheType]
    /\ pins \in [Barring.processes -> PinType]
    /\ bansLock \in [Barring.processes -> Barring.threads \cup {"no one"}]
    /\ bansReq \in [Barring.threads -> ReqType]
    /\ bansTold \in [Barring.processes -> Sets] /\ undone \in [Barring.processes -> Sets]

\* The refresh of a process is done by the thread that has its lock.
Refreshing(r) == bansReq[r].pc \in {"rules", "store"}
OneRefresh == \A r \in Barring.threads : Refreshing(r) <=> bansLock[Barring.where[r]] = r

\* An address is refused, and will be after whatever refresh is under way.
Sure(p, k) ==
    /\ k \in cache[p].ips
    /\ pins[p][k] = "young" \/ k \in db.ips
    /\ \A r \in Barring.threads : Barring.where[r] = p /\ Refreshing(r) =>
          pins[p][k] = "young" \/ k \in bansReq[r].read.ips

\* So it is with an address that is said to be banned, and with one that is being banned,
\* unless somebody has undone it meanwhile.
Underway == {"look", "commit", "unpin"}
Claimed(p, k) == k \in bansTold[p] \/ (Bans!Banning(p, k) /\ k \notin undone[p])
Barred == \A p \in Barring.processes, k \in Barring.addresses : Claimed(p, k) => Sure(p, k)

\* Who takes the pin away has the address in the database, and what is undone is not told.
Written ==
    \A r \in Barring.threads :
       bansReq[r].pc = "unpin" /\ bansReq[r].key \notin undone[Barring.where[r]] =>
          bansReq[r].key \in db.ips
Heard == \A p \in Barring.processes : bansTold[p] \cap undone[p] = {}

BansHold == BansTyped /\ OneRefresh /\ Barred /\ Written /\ Heard

BansFacts ==
    /\ Barring.where \in [Barring.threads -> Barring.processes]
    /\ "no one" \notin Barring.threads /\ Barring.addresses # {}
    /\ Barring.rules \subseteq Sets

LEMMA BansAre == BansFacts
BY PartsAssumption DEF Bans!IpBanAssumption, BansFacts, Sets

LEMMA InitBans ==
    ASSUME Bans!Init
    PROVE  BansHold
<1> USE BansAre DEF BansFacts
<1> DEFINE k0 == CHOOSE k \in Barring.addresses : TRUE
<1>1. k0 \in Barring.addresses
  OBVIOUS
<1>2. bansReq \in [Barring.threads -> {Bans!Idle(k0)}]
  <2>1. bansReq \in [Barring.threads -> {Bans!Idle(k) : k \in {k0}}]
    BY Zenon DEF Bans!Init
  <2> HIDE DEF k0
  <2>2. {Bans!Idle(k) : k \in {k0}} = {Bans!Idle(k0)}
    OBVIOUS
  <2> QED BY <2>1, <2>2
<1> HIDE DEF k0
<1>3. Bans!Idle(k0) \in ReqType
  BY <1>1 DEF Bans!Idle, Bans!Pc, ReqType, Sets
<1>4. /\ Bans!Idle(k0).pc = "idle"
      /\ \A r \in Barring.threads : bansReq[r] = Bans!Idle(k0)
  BY <1>2 DEF Bans!Idle
<1>5. BansTyped
  <2>1. /\ Bans!NewCache \in CacheType /\ Bans!NoPins \in PinType
        /\ [ips: Sets, rules: {{}}] \subseteq [ips: Sets, rules: Sets] /\ {} \in Sets
    BY DEF Bans!NewCache, Bans!NoPins, CacheType, PinType, Sets
  <2>2. db \in [ips: Sets, rules: {{}}]
    BY DEF Bans!Init, Sets
  <2>3. bansReq \in [Barring.threads -> ReqType]
    BY <1>2, <1>3
  <2> QED BY <2>1, <2>2, <2>3 DEF Bans!Init, BansTyped
<1>6. OneRefresh
  BY <1>4 DEF Bans!Init, OneRefresh, Refreshing
<1>7. /\ \A p \in Barring.processes : bansTold[p] = {}
      /\ \A p, k : ~ Bans!Banning(p, k)
  BY <1>4 DEF Bans!Init, Bans!Banning
<1> QED BY <1>4, <1>5, <1>6, <1>7 DEF BansHold, Barred, Claimed, Written, Heard

\* What holds of a thread, and of a process, one fact at a time.
LEMMA ThreadIs ==
    ASSUME BansHold, NEW r \in Barring.threads
    PROVE  /\ Barring.where[r] \in Barring.processes /\ r # "no one"
           /\ bansReq[r] \in ReqType /\ bansReq[r].key \in Barring.addresses
           /\ bansReq[r].read.ips \in Sets /\ bansReq[r].rules \in Sets
           /\ bansReq[r].read.rules \in Sets
           /\ Refreshing(r) <=> bansLock[Barring.where[r]] = r
BY BansAre DEF BansFacts, BansHold, BansTyped, OneRefresh, ReqType

LEMMA ProcessIs ==
    ASSUME BansHold
    PROVE  /\ db \in [ips: Sets, rules: Sets] /\ db.ips \in Sets
           /\ cache \in [Barring.processes -> CacheType]
           /\ pins \in [Barring.processes -> PinType]
           /\ bansLock \in [Barring.processes -> Barring.threads \cup {"no one"}]
           /\ bansTold \in [Barring.processes -> Sets] /\ undone \in [Barring.processes -> Sets]
           /\ bansReq \in [Barring.threads -> ReqType]
           /\ \A p \in Barring.processes :
                 /\ cache[p] \in CacheType /\ cache[p].ips \in Sets /\ pins[p] \in PinType
                 /\ bansTold[p] \in Sets /\ undone[p] \in Sets
BY DEF BansHold, BansTyped, CacheType

\* A step of one thread.
Others(r) == \A q \in Barring.threads \ {r} : bansReq'[q] = bansReq[q]

LEMMA ThreadGoes ==
    ASSUME BansHold, NEW r \in Barring.threads, NEW x \in ReqType,
           bansReq' = [bansReq EXCEPT ![r] = x]
    PROVE  bansReq' \in [Barring.threads -> ReqType] /\ bansReq'[r] = x /\ Others(r)
BY DEF BansHold, BansTyped, Others

LEMMA StepsTo ==
    ASSUME BansHold, NEW r \in Barring.threads, NEW goal \in Bans!Pc, Bans!Step(r, goal)
    PROVE  /\ bansReq' \in [Barring.threads -> ReqType] /\ Others(r)
           /\ bansReq'[r].pc = goal /\ bansReq'[r].key = bansReq[r].key
           /\ bansReq'[r].read = bansReq[r].read
<1> DEFINE x == [bansReq[r] EXCEPT !.pc = goal]
<1>1. bansReq[r] \in ReqType /\ bansReq \in [Barring.threads -> ReqType]
  BY ThreadIs, ProcessIs
<1>2. x \in ReqType /\ x.pc = goal /\ x.key = bansReq[r].key /\ x.read = bansReq[r].read
  BY <1>1 DEF ReqType
<1>3. bansReq' = [bansReq EXCEPT ![r] = x]
  BY <1>1 DEF Bans!Step, ReqType
<1> HIDE DEF x
<1> QED BY <1>2, <1>3, ThreadGoes

\* What a step has to leave, that addresses are refused and rows written for those who go on.
LEMMA BansStay ==
    ASSUME BansHold, bansReq' \in [Barring.threads -> ReqType],
           \A q \in Barring.threads : bansReq'[q].pc \in Underway =>
              \/ bansReq[q].pc \in Underway /\ bansReq'[q].key = bansReq[q].key
              \/ Sure(Barring.where[q], bansReq[q].key)',
           \A q \in Barring.threads : bansReq'[q].pc = "unpin" =>
              \/ bansReq[q].pc = "unpin" /\ bansReq'[q].key = bansReq[q].key
              \/ bansReq'[q].key \in db'.ips,
           \A s \in Barring.processes, k \in Barring.addresses :
              /\ k \in bansTold'[s] => Claimed(s, k) /\ k \notin undone'[s]
              /\ k \in undone[s] /\ Bans!Banning(s, k)' => k \in undone'[s]
              /\ Claimed(s, k)' /\ k \in db.ips => k \in db'.ips
              /\ Claimed(s, k)' /\ Sure(s, k) => Sure(s, k)',
           \A s \in Barring.processes : bansTold'[s] \in Sets
    PROVE  Barred' /\ Written' /\ Heard'
<1>1. ASSUME NEW q \in Barring.threads
      PROVE  /\ Barring.where[q] \in Barring.processes /\ bansReq'[q].key \in Barring.addresses
             /\ bansReq[q].pc \in Underway => Bans!Banning(Barring.where[q], bansReq[q].key)
             /\ bansReq'[q].pc \in Underway => Bans!Banning(Barring.where[q], bansReq[q].key)'
  <2>1. Barring.where[q] \in Barring.processes /\ bansReq'[q].key \in Barring.addresses
    BY ThreadIs DEF ReqType
  <2>2. ASSUME bansReq[q].pc \in Underway
        PROVE  Bans!Banning(Barring.where[q], bansReq[q].key)
    BY <2>2 DEF Underway, Bans!Banning, Bans!Of
  <2>3. ASSUME bansReq'[q].pc \in Underway
        PROVE  Bans!Banning(Barring.where[q], bansReq[q].key)'
    BY <2>3 DEF Underway, Bans!Banning, Bans!Of
  <2> QED BY <2>1, <2>2, <2>3
<1>2. ASSUME NEW s \in Barring.processes, NEW k \in Barring.addresses, Claimed(s, k)'
      PROVE  Sure(s, k)'
  <2>1. CASE k \in bansTold'[s]
    BY <1>2, <2>1 DEF BansHold, Barred
  <2>2. CASE Bans!Banning(s, k)' /\ k \notin undone'[s]
    <3>1. PICK q \in Barring.threads :
             Barring.where[q] = s /\ bansReq'[q].key = k /\ bansReq'[q].pc \in Underway
      BY <2>2 DEF Bans!Banning, Bans!Of, Underway
    <3>2. CASE bansReq[q].pc \in Underway /\ bansReq'[q].key = bansReq[q].key
      <4>1. Claimed(s, k)
        BY <1>1, <2>2, <3>1, <3>2 DEF Claimed
      <4> QED BY <1>2, <4>1 DEF BansHold, Barred
    <3> QED BY <3>1, <3>2
  <2> QED BY <1>2, <2>1, <2>2 DEF Claimed
<1>3. ASSUME NEW q \in Barring.threads, bansReq'[q].pc = "unpin",
             bansReq'[q].key \notin undone'[Barring.where[q]]
      PROVE  bansReq'[q].key \in db'.ips
  <2>1. CASE bansReq[q].pc = "unpin" /\ bansReq'[q].key = bansReq[q].key
    <3>1. Claimed(Barring.where[q], bansReq[q].key)'
      BY <1>1, <1>3 DEF Claimed, Underway
    <3>2. bansReq[q].key \notin undone[Barring.where[q]]
      BY <1>1, <1>3, <2>1 DEF Underway
    <3>3. bansReq'[q].key \in db.ips
      BY <2>1, <3>2 DEF BansHold, Written
    <3> QED BY <1>1, <3>1, <3>3
  <2> QED BY <1>3, <2>1
<1>4. Heard'
  BY DEF Heard, Sets
<1> QED BY <1>2, <1>3, <1>4 DEF Barred, Written

\* A step of which nobody is told, and that undoes nothing.
LEMMA QuietlyStay ==
    ASSUME BansHold, bansReq' \in [Barring.threads -> ReqType], UNCHANGED <<bansTold, undone>>,
           \A q \in Barring.threads : bansReq'[q].pc \in Underway =>
              \/ bansReq[q].pc \in Underway /\ bansReq'[q].key = bansReq[q].key
              \/ Sure(Barring.where[q], bansReq[q].key)',
           \A q \in Barring.threads : bansReq'[q].pc = "unpin" => bansReq'[q] = bansReq[q],
           db.ips \subseteq db'.ips,
           \A s \in Barring.processes, k \in Barring.addresses : Sure(s, k) => Sure(s, k)'
    PROVE  Barred' /\ Written' /\ Heard'
<1>1. \A s \in Barring.processes, k \in Barring.addresses :
         k \in bansTold'[s] => Claimed(s, k) /\ k \notin undone'[s]
  BY DEF BansHold, Heard, Claimed
<1>2. \A s \in Barring.processes : bansTold'[s] \in Sets
  BY ProcessIs
<1> QED BY <1>1, <1>2, BansStay

\* Who refreshes goes on, if nobody who does takes a step.
LEMMA RefreshesStay ==
    ASSUME BansHold, NEW r \in Barring.threads, ~Refreshing(r), ~Refreshing(r)',
           Others(r), UNCHANGED bansLock
    PROVE  /\ OneRefresh' /\ \A q \in Barring.threads : Refreshing(q)' <=> Refreshing(q)
           /\ \A q \in Barring.threads : Refreshing(q)' => bansReq'[q] = bansReq[q]
<1>1. \A q \in Barring.threads : Refreshing(q)' <=> Refreshing(q)
  BY DEF Refreshing, Others
<1>2. OneRefresh'
  BY <1>1 DEF BansHold, OneRefresh
<1> QED BY <1>1, <1>2 DEF Others

\* Where the lock is free nobody refreshes.
LEMMA FreeLock ==
    ASSUME BansHold, NEW r \in Barring.threads, Bans!Free(r)
    PROVE  \A q \in Barring.threads : Barring.where[q] = Barring.where[r] => ~Refreshing(q)
<1>1. bansLock[Barring.where[r]] = "no one"
  BY DEF Bans!Free, Bans!Of
<1>2. ASSUME NEW q \in Barring.threads, Barring.where[q] = Barring.where[r]
      PROVE  ~Refreshing(q)
  <2>1. q # "no one" /\ (Refreshing(q) <=> bansLock[Barring.where[q]] = q)
    BY ThreadIs
  <2> QED BY <1>1, <1>2, <2>1, Zenon
<1> QED BY <1>2

\* What a thread does on its own: it goes on, and no process hears of it.
LEMMA AloneGoesOn ==
    ASSUME BansHold, NEW r \in Barring.threads, NEW x \in ReqType,
           bansReq' = [bansReq EXCEPT ![r] = x], UNCHANGED <<pins, bansLock, bansTold, undone>>,
           cache' \in [Barring.processes -> CacheType],
           \A p \in Barring.processes : cache'[p].ips = cache[p].ips,
           db'.ips = db.ips, db' \in [ips: Sets, rules: Sets],
           x.pc \notin Underway, x.pc \notin {"rules", "store"}, ~Refreshing(r)
    PROVE  BansHold'
<1>1. bansReq' \in [Barring.threads -> ReqType] /\ bansReq'[r] = x /\ Others(r)
  BY ThreadGoes
<1>2. BansTyped'
  BY <1>1, ProcessIs DEF BansTyped
<1>3. ~Refreshing(r)'
  BY <1>1 DEF Refreshing
<1>4. /\ OneRefresh' /\ \A q \in Barring.threads : Refreshing(q)' <=> Refreshing(q)
      /\ \A q \in Barring.threads : Refreshing(q)' => bansReq'[q] = bansReq[q]
  BY <1>1, <1>3, RefreshesStay
<1>5. ASSUME NEW s \in Barring.processes, NEW k \in Barring.addresses, Sure(s, k)
      PROVE  Sure(s, k)'
  BY <1>4, <1>5 DEF Sure
<1>6. \A q \in Barring.threads : bansReq'[q].pc \in Underway => bansReq'[q] = bansReq[q]
  BY <1>1 DEF Others
<1>7. Barred' /\ Written' /\ Heard'
  BY <1>1, <1>5, <1>6, QuietlyStay DEF Underway
<1> QED BY <1>2, <1>4, <1>7 DEF BansHold

\* Requests that begin, and steps of them that nobody else hears of.
LEMMA BansGoOn ==
    ASSUME BansHold, NEW r \in Barring.threads,
           \/ Bans!Judge(r) \/ Bans!Find(r) \/ Bans!SaveRules(r) \/ Bans!SetRules(r)
           \/ \E k \in Barring.addresses : Bans!Visit(r, k) \/ Bans!AskBan(r, k) \/ Bans!AskUnban(r, k)
           \/ \E rs \in Barring.rules : Bans!AskSave(r, rs)
    PROVE  BansHold'
<1>1. /\ bansReq[r] \in ReqType /\ bansReq \in [Barring.threads -> ReqType]
      /\ db \in [ips: Sets, rules: Sets] /\ cache \in [Barring.processes -> CacheType]
      /\ Barring.where[r] \in Barring.processes /\ bansReq[r].key \in Barring.addresses
      /\ {} \in Sets
  BY ThreadIs, ProcessIs DEF Sets
<1>2. ASSUME NEW x \in ReqType, bansReq' = [bansReq EXCEPT ![r] = x],
             UNCHANGED <<db, cache, pins, bansLock, bansTold, undone>>, ~Refreshing(r),
             x.pc \in {"idle", "visit", "load", "add", "find", "erase", "save"}
      PROVE  BansHold'
  BY <1>1, <1>2, AloneGoesOn DEF Underway
<1>3. ASSUME NEW goal \in Bans!Pc
      PROVE  /\ [bansReq[r] EXCEPT !.pc = goal] \in ReqType
             /\ [bansReq[r] EXCEPT !.pc = goal].pc = goal
             /\ [bansReq EXCEPT ![r].pc = goal] = [bansReq EXCEPT ![r] = [bansReq[r] EXCEPT !.pc = goal]]
  BY <1>1 DEF ReqType
<1>4. ASSUME NEW k \in Barring.addresses, Bans!Visit(r, k)
      PROVE  BansHold'
  <2>1. PICK goal \in {"visit", "load"} :
           bansReq' = [bansReq EXCEPT ![r] = [Bans!Idle(k) EXCEPT !.pc = goal]]
    BY <1>4 DEF Bans!Visit
  <2>2. ~Refreshing(r) /\ UNCHANGED <<db, cache, pins, bansLock, bansTold, undone>>
    BY <1>4 DEF Bans!Visit, Bans!At, Refreshing
  <2> DEFINE x == [Bans!Idle(k) EXCEPT !.pc = goal]
  <2>3. x \in ReqType /\ x.pc = goal
    BY <1>1 DEF Bans!Idle, ReqType, Bans!Pc
  <2> HIDE DEF x
  <2>4. bansReq' = [bansReq EXCEPT ![r] = x]
    BY <2>1 DEF x
  <2> QED BY <1>2, <2>2, <2>3, <2>4
<1>5. ASSUME NEW o \in {"ban", "unban", "save"}, NEW goal \in {"add", "find", "save"},
             NEW k \in Barring.addresses, NEW rs \in Sets, Bans!Ask(r, o, goal, k, rs)
      PROVE  BansHold'
  <2> DEFINE x == [Bans!Idle(k) EXCEPT !.op = o, !.pc = goal, !.rules = rs]
  <2>1. x \in ReqType /\ x.pc = goal
    BY <1>1 DEF Bans!Idle, ReqType, Bans!Pc
  <2>2. /\ bansReq' = [bansReq EXCEPT ![r] = x] /\ ~Refreshing(r)
        /\ UNCHANGED <<db, cache, pins, bansLock, bansTold, undone>>
    BY <1>5 DEF Bans!Ask, Bans!At, Refreshing
  <2> HIDE DEF x
  <2> QED BY <1>2, <2>1, <2>2
<1>6. ASSUME NEW k \in Barring.addresses, Bans!AskBan(r, k) \/ Bans!AskUnban(r, k)
      PROVE  BansHold'
  BY <1>1, <1>5, <1>6 DEF Bans!AskBan, Bans!AskUnban
<1>7. ASSUME NEW rs \in Barring.rules, Bans!AskSave(r, rs)
      PROVE  BansHold'
  BY <1>1, <1>5, <1>7, BansAre DEF Bans!AskSave, BansFacts
<1>8. CASE Bans!Judge(r)
  <2>1. PICK goal \in {"idle", "add"} : bansReq' = [bansReq EXCEPT ![r].pc = goal]
    BY <1>8 DEF Bans!Judge, Bans!Step
  <2>2. /\ goal \in Bans!Pc /\ ~Refreshing(r)
        /\ UNCHANGED <<db, cache, pins, bansLock, bansTold, undone>>
    BY <1>8 DEF Bans!Judge, Bans!At, Bans!Pc, Refreshing
  <2> QED BY <1>2, <1>3, <2>1, <2>2
<1>9. CASE Bans!Find(r)
  <2> DEFINE x == [bansReq[r] EXCEPT !.pc = "erase", !.read.ips = db.ips \cap {bansReq[r].key}]
  <2>1. x \in ReqType /\ x.pc = "erase"
    BY <1>1 DEF ReqType, Bans!Pc, Sets
  <2>2. bansReq' = [bansReq EXCEPT ![r] = x]
    BY <1>1, <1>9 DEF Bans!Find, ReqType
  <2>3. ~Refreshing(r) /\ UNCHANGED <<db, cache, pins, bansLock, bansTold, undone>>
    BY <1>9 DEF Bans!Find, Bans!At, Refreshing
  <2> HIDE DEF x
  <2> QED BY <1>2, <2>1, <2>2, <2>3
<1>10. CASE Bans!SaveRules(r)
  <2>1. ~Refreshing(r) /\ UNCHANGED <<cache, pins, bansLock, bansTold, undone>>
    BY <1>10 DEF Bans!SaveRules, Bans!At, Refreshing
  <2>2. db'.ips = db.ips /\ db' \in [ips: Sets, rules: Sets]
    BY <1>1, <1>10 DEF Bans!SaveRules, ReqType
  <2>3. PICK goal \in {"set", "idle"} : bansReq' = [bansReq EXCEPT ![r].pc = goal]
    BY <1>10 DEF Bans!SaveRules, Bans!Step
  <2>4. goal \in Bans!Pc
    BY DEF Bans!Pc
  <2> QED BY <1>1, <1>3, <2>1, <2>2, <2>3, <2>4, AloneGoesOn DEF Underway
<1>11. CASE Bans!SetRules(r)
  <2> DEFINE new == [cache[Barring.where[r]] EXCEPT !.rules = bansReq[r].rules]
  <2>1. /\ ~Refreshing(r) /\ UNCHANGED <<db, pins, bansLock, bansTold, undone>>
        /\ bansReq' = [bansReq EXCEPT ![r].pc = "idle"] /\ "idle" \in Bans!Pc
    BY <1>11 DEF Bans!SetRules, Bans!At, Bans!Step, Bans!Pc, Refreshing
  <2>2. new \in CacheType /\ new.ips = cache[Barring.where[r]].ips
    <3>1. cache[Barring.where[r]] \in CacheType /\ bansReq[r].rules \in Sets
      BY <1>1, ThreadIs
    <3> QED BY <3>1 DEF CacheType
  <2>3. cache' = [cache EXCEPT ![Barring.where[r]] = new]
    BY <1>1, <1>11 DEF Bans!SetRules, Bans!Of, CacheType
  <2> HIDE DEF new
  <2>4. /\ cache' \in [Barring.processes -> CacheType]
        /\ \A p \in Barring.processes : cache'[p].ips = cache[p].ips
    BY <1>1, <2>2, <2>3
  <2> QED BY <1>1, <1>3, <2>1, <2>4, AloneGoesOn DEF Underway
<1> QED BY <1>4, <1>6, <1>7, <1>8, <1>9, <1>10, <1>11

\* A refresh begins, unless somebody has read meanwhile.
LEMMA BansLoad ==
    ASSUME BansHold, NEW r \in Barring.threads, Bans!Load(r)
    PROVE  BansHold'
<1> DEFINE p == Barring.where[r]
<1>1. /\ bansReq[r].pc = "load" /\ bansLock[p] = "no one" /\ ~Refreshing(r)
      /\ UNCHANGED <<db, cache, pins, bansTold, undone>>
  BY DEF Bans!Load, Bans!At, Bans!Free, Bans!Of, Refreshing
<1>2. CASE cache[p].fresh
  <2> DEFINE x == [bansReq[r] EXCEPT !.pc = "visit"]
  <2>1. x \in ReqType /\ x.pc = "visit"
    <3>1. bansReq[r] \in ReqType /\ "visit" \in Bans!Pc
      BY ThreadIs DEF Bans!Pc
    <3> QED BY <3>1 DEF ReqType
  <2>2. bansReq' = [bansReq EXCEPT ![r] = x] /\ UNCHANGED bansLock
    BY <1>2, ProcessIs DEF Bans!Load, Bans!Of, Bans!Step, ReqType
  <2> HIDE DEF x
  <2> QED BY <1>1, <2>1, <2>2, ProcessIs, AloneGoesOn DEF Underway
<1>3. CASE ~cache[p].fresh
  <2> DEFINE x == [bansReq[r] EXCEPT !.pc = "rules", !.read.ips = db.ips]
  <2>1. x \in ReqType /\ x.pc = "rules" /\ x.read.ips = db.ips
    <3>1. bansReq[r] \in ReqType /\ "rules" \in Bans!Pc /\ db.ips \in Sets
      BY ThreadIs, ProcessIs DEF Bans!Pc
    <3> QED BY <3>1 DEF ReqType
  <2>2. bansReq' = [bansReq EXCEPT ![r] = x] /\ bansLock' = [bansLock EXCEPT ![p] = r]
    <3>1. bansReq[r] \in ReqType /\ bansReq \in [Barring.threads -> ReqType]
      BY ThreadIs, ProcessIs
    <3>2. /\ bansReq' = [bansReq EXCEPT ![r].pc = "rules", ![r].read.ips = db.ips]
          /\ bansLock' = [bansLock EXCEPT ![p] = r]
      BY <1>3 DEF Bans!Load, Bans!Of
    <3> QED BY <3>1, <3>2 DEF ReqType
  <2> HIDE DEF x
  <2>3. bansReq' \in [Barring.threads -> ReqType] /\ bansReq'[r] = x /\ Others(r)
    BY <2>1, <2>2, ThreadGoes
  <2>4. BansTyped'
    BY <1>1, <2>2, <2>3, ProcessIs DEF BansTyped
  <2>5. bansLock'[p] = r /\ \A s \in Barring.processes \ {p} : bansLock'[s] = bansLock[s]
    BY <2>2, ThreadIs, ProcessIs
  <2>6. OneRefresh'
    <3>1. Refreshing(r)'
      BY <2>1, <2>3 DEF Refreshing
    <3>2. ASSUME NEW q \in Barring.threads \ {r}
          PROVE  Refreshing(q)' <=> bansLock'[Barring.where[q]] = q
      <4>1. Refreshing(q)' <=> bansLock[Barring.where[q]] = q
        BY <2>3, ThreadIs DEF Refreshing, Others
      <4> QED BY <1>1, <2>5, <4>1, ThreadIs
    <3> QED BY <2>5, <3>1, <3>2 DEF OneRefresh
  <2>7. ASSUME NEW s \in Barring.processes, NEW k \in Barring.addresses, Sure(s, k)
        PROVE  Sure(s, k)'
    BY <1>1, <2>1, <2>3, <2>7 DEF Sure, Refreshing, Others
  <2>8. \A q \in Barring.threads : bansReq'[q].pc \in Underway => bansReq'[q] = bansReq[q]
    BY <2>1, <2>3 DEF Others, Underway
  <2>9. Barred' /\ Written' /\ Heard'
    BY <1>1, <2>3, <2>7, <2>8, QuietlyStay DEF Underway
  <2> QED BY <2>4, <2>6, <2>9 DEF BansHold
<1> QED BY <1>2, <1>3

\* The rules are read after the bans.
LEMMA BansReadRules ==
    ASSUME BansHold, NEW r \in Barring.threads, Bans!ReadRules(r)
    PROVE  BansHold'
<1>1. /\ bansReq[r].pc = "rules" /\ Refreshing(r)
      /\ UNCHANGED <<db, cache, pins, bansLock, bansTold, undone>>
  BY DEF Bans!ReadRules, Bans!At, Refreshing
<1> DEFINE x == [bansReq[r] EXCEPT !.pc = "store", !.read.rules = db.rules]
<1>2. x \in ReqType /\ x.pc = "store" /\ x.read.ips = bansReq[r].read.ips
  <2>1. /\ bansReq[r] \in ReqType /\ "store" \in Bans!Pc
        /\ db \in [ips: Sets, rules: Sets]
    BY ThreadIs, ProcessIs DEF Bans!Pc
  <2> QED BY <2>1 DEF ReqType
<1>3. bansReq' = [bansReq EXCEPT ![r] = x]
  <2>1. bansReq[r] \in ReqType /\ bansReq \in [Barring.threads -> ReqType]
    BY ThreadIs, ProcessIs
  <2>2. bansReq' = [bansReq EXCEPT ![r].pc = "store", ![r].read.rules = db.rules]
    BY DEF Bans!ReadRules
  <2> QED BY <2>1, <2>2 DEF ReqType
<1> HIDE DEF x
<1>4. bansReq' \in [Barring.threads -> ReqType] /\ bansReq'[r] = x /\ Others(r)
  BY <1>2, <1>3, ThreadGoes
<1>5. BansTyped'
  BY <1>1, <1>4, ProcessIs DEF BansTyped
<1>6. \A q \in Barring.threads : /\ Refreshing(q)' <=> Refreshing(q)
                                 /\ bansReq'[q].read.ips = bansReq[q].read.ips
  BY <1>1, <1>2, <1>4 DEF Refreshing, Others
<1>7. OneRefresh'
  BY <1>1, <1>6 DEF BansHold, OneRefresh
<1>8. ASSUME NEW s \in Barring.processes, NEW k \in Barring.addresses, Sure(s, k)
      PROVE  Sure(s, k)'
  BY <1>1, <1>6, <1>8 DEF Sure
<1>9. \A q \in Barring.threads : bansReq'[q].pc \in Underway => bansReq'[q] = bansReq[q]
  BY <1>2, <1>4 DEF Others, Underway
<1>10. Barred' /\ Written' /\ Heard'
  BY <1>1, <1>4, <1>8, <1>9, QuietlyStay DEF Underway
<1> QED BY <1>5, <1>7, <1>10 DEF BansHold

\* The refresh of a process is over: its thread goes on to the verdict.
LEMMA LockGoes ==
    ASSUME BansHold, NEW r \in Barring.threads, Refreshing(r), Bans!Step(r, "visit"),
           bansLock' = [bansLock EXCEPT ![Barring.where[r]] = "no one"]
    PROVE  /\ bansReq' \in [Barring.threads -> ReqType]
           /\ bansLock' \in [Barring.processes -> Barring.threads \cup {"no one"}]
           /\ bansReq'[r].pc = "visit" /\ Others(r) /\ OneRefresh'
           /\ \A q \in Barring.threads : Refreshing(q)' => q # r /\ Refreshing(q)
           /\ \A q \in Barring.threads : bansReq'[q].pc \in Underway => bansReq'[q] = bansReq[q]
<1>1. bansReq' \in [Barring.threads -> ReqType] /\ bansReq'[r].pc = "visit" /\ Others(r)
  <2>1. "visit" \in Bans!Pc
    BY DEF Bans!Pc
  <2> QED BY <2>1, StepsTo
<1>2. /\ bansLock' \in [Barring.processes -> Barring.threads \cup {"no one"}]
      /\ bansLock'[Barring.where[r]] = "no one"
      /\ \A s \in Barring.processes \ {Barring.where[r]} : bansLock'[s] = bansLock[s]
  BY ThreadIs, ProcessIs
<1>3. bansLock[Barring.where[r]] = r
  BY ThreadIs
<1>4. ASSUME NEW q \in Barring.threads \ {r}
      PROVE  /\ Refreshing(q)' <=> Refreshing(q)
             /\ Refreshing(q) <=> bansLock'[Barring.where[q]] = q
  <2>1. Refreshing(q)' <=> Refreshing(q)
    BY <1>1 DEF Refreshing, Others
  <2> QED BY <1>2, <1>3, <2>1, ThreadIs
<1>5. ~Refreshing(r)'
  BY <1>1 DEF Refreshing
<1>6. OneRefresh'
  BY <1>2, <1>4, <1>5, ThreadIs DEF OneRefresh
<1>7. \A q \in Barring.threads : bansReq'[q].pc \in Underway => bansReq'[q] = bansReq[q]
  BY <1>1 DEF Others, Underway
<1> QED BY <1>1, <1>2, <1>4, <1>5, <1>6, <1>7

LEMMA BansStore ==
    ASSUME BansHold, NEW r \in Barring.threads, Bans!Store(r)
    PROVE  BansHold'
<1> DEFINE p == Barring.where[r]
           kept == {k \in Barring.addresses : pins[p][k] = "young"}
           new == [ips |-> bansReq[r].read.ips \cup kept, rules |-> bansReq[r].read.rules, fresh |-> TRUE]
           mine == [k \in Barring.addresses |-> IF k \in kept THEN "young" ELSE "none"]
<1>1. /\ bansReq[r].pc = "store" /\ UNCHANGED <<db, bansTold, undone>>
      /\ Refreshing(r) /\ Bans!Step(r, "visit")
      /\ bansLock' = [bansLock EXCEPT ![p] = "no one"]
      /\ cache' = [cache EXCEPT ![p] = new] /\ pins' = [pins EXCEPT ![p] = mine]
  BY DEF Bans!Store, Bans!At, Bans!Of, Bans!Refreshed, Refreshing
<1>2. /\ new \in CacheType /\ new.ips = bansReq[r].read.ips \cup kept /\ mine \in PinType
      /\ \A k \in Barring.addresses : mine[k] = "young" <=> pins[p][k] = "young"
  BY ThreadIs DEF CacheType, PinType, Sets
<1>3. p \in Barring.processes
  BY ThreadIs
<1> HIDE DEF new, mine, p
<1>4. /\ cache' \in [Barring.processes -> CacheType]
      /\ cache'[p] = new /\ \A s \in Barring.processes \ {p} : cache'[s] = cache[s]
  BY <1>1, <1>2, <1>3, ProcessIs
<1>5. /\ pins' \in [Barring.processes -> PinType]
      /\ \A s \in Barring.processes : \A k \in Barring.addresses :
            pins'[s][k] = "young" <=> pins[s][k] = "young"
  <2>1. /\ pins' \in [Barring.processes -> PinType]
        /\ pins'[p] = mine /\ \A s \in Barring.processes \ {p} : pins'[s] = pins[s]
    BY <1>1, <1>2, <1>3, ProcessIs
  <2> QED BY <1>2, <2>1
<1>6. /\ bansReq' \in [Barring.threads -> ReqType]
      /\ bansLock' \in [Barring.processes -> Barring.threads \cup {"no one"}]
      /\ bansReq'[r].pc = "visit" /\ Others(r) /\ OneRefresh'
      /\ \A q \in Barring.threads : Refreshing(q)' => q # r /\ Refreshing(q)
      /\ \A q \in Barring.threads : bansReq'[q].pc \in Underway => bansReq'[q] = bansReq[q]
  BY <1>1, LockGoes DEF p
<1>7. BansTyped'
  BY <1>1, <1>4, <1>5, <1>6, ProcessIs DEF BansTyped
<1>8. ASSUME NEW s \in Barring.processes, NEW k \in Barring.addresses, Sure(s, k)
      PROVE  Sure(s, k)'
  <2>1. k \in cache'[s].ips
    <3>1. CASE s = p
      <4>1. pins[p][k] = "young" \/ k \in bansReq[r].read.ips
        BY <1>1, <1>8, <3>1 DEF Sure, p
      <4> QED BY <1>2, <1>4, <3>1, <4>1
    <3>2. CASE s # p
      BY <1>4, <1>8, <3>2 DEF Sure
    <3> QED BY <3>1, <3>2
  <2>2. pins'[s][k] = "young" \/ k \in db'.ips
    BY <1>1, <1>5, <1>8 DEF Sure
  <2>3. ASSUME NEW q \in Barring.threads, Barring.where[q] = s, Refreshing(q)'
        PROVE  pins'[s][k] = "young" \/ k \in bansReq'[q].read.ips
    BY <1>5, <1>6, <1>8, <2>3 DEF Sure, Others
  <2> QED BY <2>1, <2>2, <2>3 DEF Sure
<1>9. Barred' /\ Written' /\ Heard'
  BY <1>1, <1>6, <1>8, QuietlyStay DEF Underway
<1> QED BY <1>6, <1>7, <1>9 DEF BansHold

LEMMA BansLoadFails ==
    ASSUME BansHold, NEW r \in Barring.threads, Bans!LoadFails(r)
    PROVE  BansHold'
<1> DEFINE p == Barring.where[r]  new == [cache[p] EXCEPT !.fresh = TRUE]
<1>1. /\ UNCHANGED <<db, pins, bansTold, undone>>
      /\ Refreshing(r) /\ Bans!Step(r, "visit")
      /\ bansLock' = [bansLock EXCEPT ![p] = "no one"]
  BY DEF Bans!LoadFails, Bans!Of, Refreshing
<1>2. p \in Barring.processes /\ cache[p] \in CacheType
  BY ThreadIs, ProcessIs
<1>3. new \in CacheType /\ new.ips = cache[p].ips
  BY <1>2 DEF CacheType
<1>4. cache' = [cache EXCEPT ![p] = new]
  BY <1>2, ProcessIs DEF Bans!LoadFails, Bans!Of
<1> HIDE DEF new, p
<1>5. /\ cache' \in [Barring.processes -> CacheType]
      /\ \A s \in Barring.processes : cache'[s].ips = cache[s].ips
  BY <1>2, <1>3, <1>4, ProcessIs
<1>6. /\ bansReq' \in [Barring.threads -> ReqType]
      /\ bansLock' \in [Barring.processes -> Barring.threads \cup {"no one"}]
      /\ bansReq'[r].pc = "visit" /\ Others(r) /\ OneRefresh'
      /\ \A q \in Barring.threads : Refreshing(q)' => q # r /\ Refreshing(q)
      /\ \A q \in Barring.threads : bansReq'[q].pc \in Underway => bansReq'[q] = bansReq[q]
  BY <1>1, LockGoes DEF p
<1>7. BansTyped'
  BY <1>1, <1>5, <1>6, ProcessIs DEF BansTyped
<1>8. ASSUME NEW s \in Barring.processes, NEW k \in Barring.addresses, Sure(s, k)
      PROVE  Sure(s, k)'
  BY <1>1, <1>5, <1>6, <1>8 DEF Sure, Others
<1>9. Barred' /\ Written' /\ Heard'
  BY <1>1, <1>6, <1>8, QuietlyStay DEF Underway
<1> QED BY <1>6, <1>7, <1>9 DEF BansHold

\* The address enters the copy, and is pinned there.
LEMMA BansAdd ==
    ASSUME BansHold, NEW r \in Barring.threads, Bans!Add(r)
    PROVE  BansHold'
<1>1. PICK p \in Barring.processes, j \in Barring.addresses :
          p = Barring.where[r] /\ j = bansReq[r].key
  BY ThreadIs
<1> DEFINE new == [cache[p] EXCEPT !.ips = @ \cup {j}]
           mine == [pins[p] EXCEPT ![j] = "young"]
<1>2. /\ bansReq[r].pc = "add" /\ Bans!Free(r) /\ Bans!Step(r, "look") /\ "look" \in Bans!Pc
      /\ UNCHANGED <<db, bansLock, bansTold, undone>>
  BY DEF Bans!Add, Bans!At, Bans!Pc
<1>3. /\ new \in CacheType /\ new.ips = cache[p].ips \cup {j} /\ mine \in PinType
      /\ mine[j] = "young" /\ \A k \in Barring.addresses \ {j} : mine[k] = pins[p][k]
  <2>1. cache[p] \in CacheType /\ pins[p] \in PinType
    BY <1>1, ProcessIs
  <2> QED BY <1>1, <2>1 DEF CacheType, PinType, Sets
<1>4. cache' = [cache EXCEPT ![p] = new] /\ pins' = [pins EXCEPT ![p] = mine]
  <2>1. /\ cache' = [cache EXCEPT ![p].ips = @ \cup {j}]
        /\ pins' = [pins EXCEPT ![p][j] = "young"]
    BY <1>1 DEF Bans!Add, Bans!Of
  <2> QED BY <1>1, <2>1, ProcessIs DEF CacheType, PinType
<1>5. /\ bansReq' \in [Barring.threads -> ReqType] /\ Others(r)
      /\ bansReq'[r].pc = "look" /\ bansReq'[r].key = j
  BY <1>1, <1>2, StepsTo
<1>6. ~Refreshing(r) /\ ~Refreshing(r)'
  BY <1>2, <1>5 DEF Refreshing
<1>7. \A q \in Barring.threads : Barring.where[q] = p => ~Refreshing(q)
  BY <1>1, <1>2, FreeLock
<1> HIDE DEF new, mine
<1>8. /\ OneRefresh' /\ \A q \in Barring.threads : Refreshing(q)' <=> Refreshing(q)
      /\ \A q \in Barring.threads : Refreshing(q)' => bansReq'[q] = bansReq[q]
  BY <1>2, <1>5, <1>6, RefreshesStay
<1>9. /\ cache' \in [Barring.processes -> CacheType]
      /\ cache'[p] = new /\ \A s \in Barring.processes \ {p} : cache'[s] = cache[s]
  BY <1>1, <1>3, <1>4, ProcessIs
<1>10. /\ pins' \in [Barring.processes -> PinType]
       /\ pins'[p] = mine /\ \A s \in Barring.processes \ {p} : pins'[s] = pins[s]
  BY <1>1, <1>3, <1>4, ProcessIs
<1>11. BansTyped'
  BY <1>2, <1>5, <1>9, <1>10, ProcessIs DEF BansTyped
<1>12. \A s \in Barring.processes : \A k \in Barring.addresses :
          /\ k \in cache[s].ips => k \in cache'[s].ips
          /\ pins[s][k] = "young" => pins'[s][k] = "young"
  BY <1>3, <1>9, <1>10
<1>13. ASSUME NEW s \in Barring.processes, NEW k \in Barring.addresses, Sure(s, k)
       PROVE  Sure(s, k)'
  BY <1>2, <1>8, <1>12, <1>13 DEF Sure
<1>14. Sure(p, j)'
  <2>1. j \in cache'[p].ips /\ pins'[p][j] = "young"
    BY <1>3, <1>9, <1>10
  <2> QED BY <2>1 DEF Sure
<1>15. ASSUME NEW q \in Barring.threads, bansReq'[q].pc \in Underway
       PROVE  \/ bansReq[q].pc \in Underway /\ bansReq'[q].key = bansReq[q].key
              \/ Sure(Barring.where[q], bansReq[q].key)'
  <2>1. CASE q = r
    BY <1>1, <1>5, <1>14, <2>1 DEF Sure
  <2>2. CASE q # r
    BY <1>5, <1>15, <2>2 DEF Others
  <2> QED BY <2>1, <2>2
<1>16. \A q \in Barring.threads : bansReq'[q].pc = "unpin" => bansReq'[q] = bansReq[q]
  BY <1>5 DEF Others
<1>17. Barred' /\ Written' /\ Heard'
  BY <1>2, <1>5, <1>13, <1>15, <1>16, QuietlyStay
<1> QED BY <1>8, <1>11, <1>17 DEF BansHold

\* When a ban is over, what was undone of it is forgotten, unless another is under way.
LEMMA SettledKeeps ==
    ASSUME BansHold, NEW r \in Barring.threads, Bans!Settled(r)
    PROVE  /\ undone' \in [Barring.processes -> Sets]
           /\ \A s \in Barring.processes : undone'[s] \subseteq undone[s]
           /\ \A s \in Barring.processes : \A k \in undone[s] : Bans!Banning(s, k)' => k \in undone'[s]
<1> DEFINE p == Barring.where[r]  left == {k \in undone[p] : Bans!Banning(p, k)'}
<1>1. p \in Barring.processes /\ undone \in [Barring.processes -> Sets]
  BY ThreadIs, ProcessIs
<1>2. undone' = [undone EXCEPT ![p] = left]
  BY <1>1 DEF Bans!Settled, Bans!Of
<1>3. left \in Sets /\ left \subseteq undone[p] /\ \A k \in undone[p] : Bans!Banning(p, k)' => k \in left
  BY <1>1 DEF Sets
<1> HIDE DEF p, left
<1> QED BY <1>1, <1>2, <1>3

\* A ban that is told, in the database or not: the address is sure to be refused.
LEMMA ToldOne ==
    ASSUME BansHold, NEW r \in Barring.threads, bansReq[r].pc \in {"look", "commit"},
           NEW goal \in {"unpin", "idle"}, Bans!Step(r, goal), Bans!Confirmed(r),
           db' \in [ips: Sets, rules: Sets], db.ips \subseteq db'.ips,
           goal = "unpin" => bansReq[r].key \in db'.ips,
           UNCHANGED undone \/ Bans!Settled(r), UNCHANGED <<cache, pins, bansLock>>
    PROVE  BansHold'
<1>1. PICK p \in Barring.processes, j \in Barring.addresses :
          p = Barring.where[r] /\ j = bansReq[r].key
  BY ThreadIs
<1>2. /\ bansReq' \in [Barring.threads -> ReqType] /\ Others(r)
      /\ bansReq'[r].pc = goal /\ bansReq'[r].key = j
  <2>1. goal \in Bans!Pc
    BY DEF Bans!Pc
  <2> QED BY <1>1, <2>1, StepsTo
<1>3. ~Refreshing(r) /\ ~Refreshing(r)'
  BY <1>2 DEF Refreshing
<1>4. /\ bansTold' \in [Barring.processes -> Sets]
      /\ bansTold'[p] = bansTold[p] \cup ({j} \ undone[p])
      /\ \A s \in Barring.processes \ {p} : bansTold'[s] = bansTold[s]
  <2>1. bansTold' = [bansTold EXCEPT ![p] = @ \cup ({j} \ undone[p])]
    BY <1>1 DEF Bans!Confirmed, Bans!Of
  <2>2. bansTold \in [Barring.processes -> Sets] /\ bansTold[p] \cup ({j} \ undone[p]) \in Sets
    BY <1>1, ProcessIs DEF Sets
  <2> QED BY <2>1, <2>2
<1>5. /\ undone' \in [Barring.processes -> Sets]
      /\ \A s \in Barring.processes : undone'[s] \subseteq undone[s]
      /\ \A s \in Barring.processes : \A k \in undone[s] : Bans!Banning(s, k)' => k \in undone'[s]
  BY SettledKeeps, ProcessIs
<1>6. Bans!Banning(p, j)
  BY <1>1 DEF Bans!Banning, Bans!Of
<1>7. /\ OneRefresh' /\ \A q \in Barring.threads : Refreshing(q)' <=> Refreshing(q)
      /\ \A q \in Barring.threads : Refreshing(q)' => bansReq'[q] = bansReq[q]
  BY <1>2, <1>3, RefreshesStay
<1>8. BansTyped'
  BY <1>2, <1>4, <1>5, ProcessIs DEF BansTyped
<1>9. ASSUME NEW s \in Barring.processes, NEW k \in Barring.addresses, Sure(s, k)
      PROVE  Sure(s, k)'
  BY <1>7, <1>9 DEF Sure
<1>10. ASSUME NEW s \in Barring.processes, NEW k \in Barring.addresses, k \in bansTold'[s]
       PROVE  Claimed(s, k) /\ k \notin undone'[s]
  <2>1. k \notin undone[s] /\ Claimed(s, k)
    <3>1. CASE k \in bansTold[s]
      BY <3>1 DEF BansHold, Heard, Claimed
    <3>2. CASE s = p /\ k = j /\ j \notin undone[p]
      BY <1>6, <3>2 DEF Claimed
    <3> QED BY <1>4, <1>10, <3>1, <3>2
  <2> QED BY <1>5, <2>1
<1>11. \A q \in Barring.threads : bansReq'[q].pc \in Underway =>
          bansReq[q].pc \in Underway /\ bansReq'[q].key = bansReq[q].key
  BY <1>1, <1>2 DEF Others, Underway
<1>12. \A q \in Barring.threads : bansReq'[q].pc = "unpin" =>
          \/ bansReq[q].pc = "unpin" /\ bansReq'[q].key = bansReq[q].key
          \/ bansReq'[q].key \in db'.ips
  BY <1>1, <1>2 DEF Others
<1>13. Barred' /\ Written' /\ Heard'
  BY <1>2, <1>4, <1>5, <1>9, <1>10, <1>11, <1>12, BansStay
<1> QED BY <1>7, <1>8, <1>13 DEF BansHold

\* The row is looked for.
LEMMA BansLook ==
    ASSUME BansHold, NEW r \in Barring.threads, Bans!Look(r)
    PROVE  BansHold'
<1>1. bansReq[r].pc = "look" /\ UNCHANGED <<db, cache, pins, bansLock, undone>>
  BY DEF Bans!Look, Bans!At
<1>2. CASE bansReq[r].key \in db.ips
  BY <1>1, <1>2, ToldOne, ProcessIs DEF Bans!Look
<1>3. CASE bansReq[r].key \notin db.ips
  <2>1. Bans!Step(r, "commit") /\ UNCHANGED bansTold /\ "commit" \in Bans!Pc
    BY <1>3 DEF Bans!Look, Bans!Pc
  <2>2. /\ bansReq' \in [Barring.threads -> ReqType] /\ Others(r)
        /\ bansReq'[r].pc = "commit" /\ bansReq'[r].key = bansReq[r].key
    BY <2>1, StepsTo
  <2>3. ~Refreshing(r) /\ ~Refreshing(r)'
    BY <1>1, <2>2 DEF Refreshing
  <2>4. /\ OneRefresh' /\ \A q \in Barring.threads : Refreshing(q)' <=> Refreshing(q)
        /\ \A q \in Barring.threads : Refreshing(q)' => bansReq'[q] = bansReq[q]
    BY <1>1, <2>2, <2>3, RefreshesStay
  <2>5. BansTyped'
    BY <1>1, <2>1, <2>2, ProcessIs DEF BansTyped
  <2>6. ASSUME NEW s \in Barring.processes, NEW k \in Barring.addresses, Sure(s, k)
        PROVE  Sure(s, k)'
    BY <1>1, <2>4, <2>6 DEF Sure
  <2>7. ASSUME NEW q \in Barring.threads
        PROVE  /\ bansReq'[q].pc \in Underway =>
                     bansReq[q].pc \in Underway /\ bansReq'[q].key = bansReq[q].key
               /\ bansReq'[q].pc = "unpin" => bansReq'[q] = bansReq[q]
    BY <1>1, <2>2 DEF Others, Underway
  <2>8. Barred' /\ Written' /\ Heard'
    BY <1>1, <2>1, <2>2, <2>6, <2>7, QuietlyStay
  <2> QED BY <2>4, <2>5, <2>8 DEF BansHold
<1> QED BY <1>2, <1>3

\* The insert, and whatever fails of it.
LEMMA BansCommit ==
    ASSUME BansHold, NEW r \in Barring.threads, Bans!Commit(r) \/ Bans!BanFails(r)
    PROVE  BansHold'
<1> DEFINE more == [db EXCEPT !.ips = @ \cup {bansReq[r].key}]
<1>1. /\ db \in [ips: Sets, rules: Sets] /\ more \in [ips: Sets, rules: Sets]
      /\ more.ips = db.ips \cup {bansReq[r].key}
  <2>1. db \in [ips: Sets, rules: Sets] /\ bansReq[r].key \in Barring.addresses
    BY ThreadIs, ProcessIs
  <2> QED BY <2>1 DEF Sets
<1>2. CASE Bans!Commit(r)
  BY <1>1, <1>2, ToldOne DEF Bans!Commit, Bans!At
<1>3. CASE Bans!BanFails(r)
  BY <1>1, <1>3, ToldOne DEF Bans!BanFails, Bans!At
<1> QED BY <1>2, <1>3

\* The pin goes, and what is pinned no more is in the database, unless it has been undone.
LEMMA BansUnpin ==
    ASSUME BansHold, NEW r \in Barring.threads, Bans!Unpin(r)
    PROVE  BansHold'
<1>1. PICK p \in Barring.processes, j \in Barring.addresses :
          p = Barring.where[r] /\ j = bansReq[r].key
  BY ThreadIs
<1> DEFINE mine == [pins[p] EXCEPT ![j] = "none"]
<1>2. /\ bansReq[r].pc = "unpin" /\ Bans!Free(r) /\ Bans!Step(r, "idle") /\ "idle" \in Bans!Pc
      /\ Bans!Settled(r) /\ UNCHANGED <<db, cache, bansLock, bansTold>>
  BY DEF Bans!Unpin, Bans!At, Bans!Pc
<1>3. mine \in PinType /\ \A k \in Barring.addresses \ {j} : mine[k] = pins[p][k]
  <2>1. pins[p] \in PinType
    BY ProcessIs
  <2> QED BY <2>1 DEF PinType
<1>4. pins' = [pins EXCEPT ![p] = mine]
  <2>1. pins' = [pins EXCEPT ![p][j] = "none"]
    BY <1>1 DEF Bans!Unpin, Bans!Of
  <2> QED BY <2>1, ProcessIs DEF PinType
<1>5. bansReq' \in [Barring.threads -> ReqType] /\ Others(r) /\ bansReq'[r].pc = "idle"
  BY <1>2, StepsTo
<1>6. ~Refreshing(r) /\ ~Refreshing(r)'
  BY <1>2, <1>5 DEF Refreshing
<1>7. \A q \in Barring.threads : Barring.where[q] = p => ~Refreshing(q)
  BY <1>1, <1>2, FreeLock
<1> HIDE DEF mine
<1>8. /\ OneRefresh' /\ \A q \in Barring.threads : Refreshing(q)' <=> Refreshing(q)
      /\ \A q \in Barring.threads : Refreshing(q)' => bansReq'[q] = bansReq[q]
  BY <1>2, <1>5, <1>6, RefreshesStay
<1>9. /\ pins' \in [Barring.processes -> PinType]
      /\ pins'[p] = mine /\ \A s \in Barring.processes \ {p} : pins'[s] = pins[s]
  BY <1>3, <1>4, ProcessIs
<1>10. /\ undone' \in [Barring.processes -> Sets]
       /\ \A s \in Barring.processes : undone'[s] \subseteq undone[s]
       /\ \A s \in Barring.processes : \A k \in undone[s] : Bans!Banning(s, k)' => k \in undone'[s]
  BY <1>2, SettledKeeps
<1>11. BansTyped'
  BY <1>2, <1>5, <1>9, <1>10, ProcessIs DEF BansTyped
<1>12. Claimed(p, j)' => j \in db.ips
  <2>1. Claimed(p, j)' => j \notin undone[p]
    BY <1>2, <1>10 DEF Claimed, BansHold, Heard
  <2> QED BY <1>1, <1>2, <2>1 DEF BansHold, Written
<1>13. ASSUME NEW s \in Barring.processes, NEW k \in Barring.addresses, Sure(s, k), Claimed(s, k)'
       PROVE  Sure(s, k)'
  <2>1. CASE s # p \/ k # j
    <3>1. pins'[s][k] = pins[s][k]
      BY <1>3, <1>9, <2>1
    <3> QED BY <1>2, <1>8, <1>13, <3>1 DEF Sure
  <2>2. CASE s = p /\ k = j
    BY <1>2, <1>7, <1>8, <1>12, <1>13, <2>2 DEF Sure
  <2> QED BY <2>1, <2>2
<1>14. \A s \in Barring.processes, k \in Barring.addresses :
          k \in bansTold'[s] => Claimed(s, k) /\ k \notin undone'[s]
  BY <1>2, <1>10 DEF BansHold, Heard, Claimed
<1>15. \A q \in Barring.threads : bansReq'[q].pc \in Underway => bansReq'[q] = bansReq[q]
  BY <1>5 DEF Others, Underway
<1>16. \A s \in Barring.processes : bansTold'[s] \in Sets
  BY <1>2, ProcessIs
<1>17. Barred' /\ Written' /\ Heard'
  BY <1>2, <1>5, <1>10, <1>13, <1>14, <1>15, <1>16, BansStay DEF Underway
<1> QED BY <1>8, <1>11, <1>17 DEF BansHold

\* An unban anywhere: nobody claims an address that is erased, and who is banning it has
\* been told so.
LEMMA BansErase ==
    ASSUME BansHold, NEW r \in Barring.threads, Bans!Erase(r)
    PROVE  BansHold'
<1>1. bansReq[r].pc = "erase" /\ UNCHANGED <<cache, pins, bansLock>>
  BY DEF Bans!Erase, Bans!At
<1>2. PICK erased \in Sets : erased = bansReq[r].read.ips
  BY ThreadIs
<1>3. PICK goal \in {"remove", "idle"} :
         /\ Bans!Step(r, goal) /\ goal \in Bans!Pc
         /\ \/ /\ db' = [db EXCEPT !.ips = @ \ erased]
               /\ bansTold' = [p \in Barring.processes |-> bansTold[p] \ erased]
               /\ undone' = [p \in Barring.processes |->
                               undone[p] \cup {k \in erased : Bans!Banning(p, k)}]
            \/ UNCHANGED <<db, bansTold, undone>>
  BY <1>2 DEF Bans!Erase, Bans!Pc
<1>4. bansReq' \in [Barring.threads -> ReqType] /\ Others(r) /\ bansReq'[r].pc = goal
  BY <1>3, StepsTo
<1>5. ~Refreshing(r) /\ ~Refreshing(r)'
  BY <1>1, <1>4 DEF Refreshing
<1>6. /\ OneRefresh' /\ \A q \in Barring.threads : Refreshing(q)' <=> Refreshing(q)
      /\ \A q \in Barring.threads : Refreshing(q)' => bansReq'[q] = bansReq[q]
  BY <1>1, <1>4, <1>5, RefreshesStay
<1>7. /\ db' \in [ips: Sets, rules: Sets] /\ bansTold' \in [Barring.processes -> Sets]
      /\ undone' \in [Barring.processes -> Sets]
      /\ \A s \in Barring.processes : \A k \in Barring.addresses :
            /\ k \in bansTold'[s] => k \in bansTold[s] /\ (k \in undone'[s] => k \in undone[s])
            /\ k \in bansTold'[s] /\ k \in db.ips => k \in db'.ips
            /\ k \in undone[s] => k \in undone'[s]
            /\ Bans!Banning(s, k) /\ k \notin undone'[s] /\ k \in db.ips => k \in db'.ips
  <2>1. /\ db \in [ips: Sets, rules: Sets] /\ bansTold \in [Barring.processes -> Sets]
        /\ undone \in [Barring.processes -> Sets]
    BY ProcessIs
  <2>2. CASE UNCHANGED <<db, bansTold, undone>>
    BY <2>1, <2>2
  <2>3. CASE /\ db' = [db EXCEPT !.ips = @ \ erased]
             /\ bansTold' = [p \in Barring.processes |-> bansTold[p] \ erased]
             /\ undone' = [p \in Barring.processes |->
                             undone[p] \cup {k \in erased : Bans!Banning(p, k)}]
    BY <2>1, <2>3 DEF Sets
  <2> QED BY <1>3, <2>2, <2>3
<1>8. BansTyped'
  BY <1>1, <1>4, <1>7, ProcessIs DEF BansTyped
<1>9. \A q \in Barring.threads : bansReq'[q].pc \in Underway => bansReq'[q] = bansReq[q]
  BY <1>4 DEF Others, Underway
<1>10. ASSUME NEW s \in Barring.processes, NEW k \in Barring.addresses, Bans!Banning(s, k)'
       PROVE  Bans!Banning(s, k)
  BY <1>9, <1>10 DEF Bans!Banning, Bans!Of, Underway
<1>11. ASSUME NEW s \in Barring.processes, NEW k \in Barring.addresses, Claimed(s, k)', k \in db.ips
       PROVE  k \in db'.ips
  BY <1>7, <1>10, <1>11 DEF Claimed
<1>12. ASSUME NEW s \in Barring.processes, NEW k \in Barring.addresses, Sure(s, k), Claimed(s, k)'
       PROVE  Sure(s, k)'
  BY <1>1, <1>6, <1>11, <1>12 DEF Sure
<1>13. \A s \in Barring.processes, k \in Barring.addresses :
          k \in bansTold'[s] => Claimed(s, k) /\ k \notin undone'[s]
  BY <1>7 DEF BansHold, Heard, Claimed
<1>14. Barred' /\ Written' /\ Heard'
  BY <1>4, <1>7, <1>9, <1>11, <1>12, <1>13, BansStay DEF Underway
<1> QED BY <1>6, <1>8, <1>14 DEF BansHold

\* The address leaves the copy of a process, which claims it no more.
LEMMA BansRemove ==
    ASSUME BansHold, NEW r \in Barring.threads, Bans!Remove(r)
    PROVE  BansHold'
<1>1. PICK p \in Barring.processes, j \in Barring.addresses :
          p = Barring.where[r] /\ j = bansReq[r].key
  BY ThreadIs
<1> DEFINE new == [cache[p] EXCEPT !.ips = @ \ {j}]
           mine == [pins[p] EXCEPT ![j] = "none"]
           more == undone[p] \cup {k \in {j} : Bans!Banning(p, k)}
<1>2. /\ bansReq[r].pc = "remove" /\ Bans!Step(r, "idle") /\ "idle" \in Bans!Pc
      /\ UNCHANGED <<db, bansLock>>
  BY DEF Bans!Remove, Bans!At, Bans!Pc
<1>3. /\ new \in CacheType /\ new.ips = cache[p].ips \ {j} /\ mine \in PinType
      /\ \A k \in Barring.addresses \ {j} : mine[k] = pins[p][k]
  <2>1. cache[p] \in CacheType /\ pins[p] \in PinType
    BY ProcessIs
  <2> QED BY <2>1 DEF CacheType, PinType, Sets
<1>4. /\ cache' = [cache EXCEPT ![p] = new] /\ pins' = [pins EXCEPT ![p] = mine]
      /\ undone' = [undone EXCEPT ![p] = more]
  <2>1. /\ cache' = [cache EXCEPT ![p].ips = @ \ {j}]
        /\ pins' = [pins EXCEPT ![p][j] = "none"]
        /\ undone' = [undone EXCEPT ![p] = @ \cup {k \in {j} : Bans!Banning(p, k)}]
    BY <1>1 DEF Bans!Remove, Bans!Of
  <2> QED BY <2>1, ProcessIs DEF CacheType, PinType
<1>5. more \in Sets /\ undone[p] \subseteq more /\ (Bans!Banning(p, j) => j \in more)
      /\ \A k \in Barring.addresses \ {j} : k \in more => k \in undone[p]
  BY ProcessIs DEF Sets
<1>6. /\ bansTold' \in [Barring.processes -> Sets]
      /\ bansTold'[p] = bansTold[p] \ {j}
      /\ \A s \in Barring.processes \ {p} : bansTold'[s] = bansTold[s]
  <2>1. bansTold' = [bansTold EXCEPT ![p] = @ \ {j}]
    BY <1>1 DEF Bans!Remove, Bans!Of
  <2> QED BY <2>1, ProcessIs DEF Sets
<1>7. bansReq' \in [Barring.threads -> ReqType] /\ Others(r) /\ bansReq'[r].pc = "idle"
  BY <1>2, StepsTo
<1>8. ~Refreshing(r) /\ ~Refreshing(r)'
  BY <1>2, <1>7 DEF Refreshing
<1> HIDE DEF new, mine, more
<1>9. /\ OneRefresh' /\ \A q \in Barring.threads : Refreshing(q)' <=> Refreshing(q)
      /\ \A q \in Barring.threads : Refreshing(q)' => bansReq'[q] = bansReq[q]
  BY <1>2, <1>7, <1>8, RefreshesStay
<1>10. /\ cache' \in [Barring.processes -> CacheType]
       /\ cache'[p] = new /\ \A s \in Barring.processes \ {p} : cache'[s] = cache[s]
       /\ pins' \in [Barring.processes -> PinType]
       /\ pins'[p] = mine /\ \A s \in Barring.processes \ {p} : pins'[s] = pins[s]
       /\ undone' \in [Barring.processes -> Sets]
       /\ undone'[p] = more /\ \A s \in Barring.processes \ {p} : undone'[s] = undone[s]
  BY <1>3, <1>4, <1>5, ProcessIs
<1>11. BansTyped'
  BY <1>2, <1>6, <1>7, <1>10, ProcessIs DEF BansTyped
<1>12. \A q \in Barring.threads : bansReq'[q].pc \in Underway => bansReq'[q] = bansReq[q]
  BY <1>7 DEF Others, Underway
<1>13. ~Claimed(p, j)'
  <2>1. Bans!Banning(p, j)' => Bans!Banning(p, j)
    BY <1>12 DEF Bans!Banning, Bans!Of, Underway
  <2> QED BY <1>5, <1>6, <1>10, <2>1 DEF Claimed
<1>14. ASSUME NEW s \in Barring.processes, NEW k \in Barring.addresses, Sure(s, k), Claimed(s, k)'
       PROVE  Sure(s, k)'
  <2>1. pins'[s][k] = pins[s][k] /\ (k \in cache[s].ips => k \in cache'[s].ips)
    BY <1>3, <1>10, <1>13, <1>14
  <2> QED BY <1>2, <1>9, <1>14, <2>1 DEF Sure
<1>15. ASSUME NEW s \in Barring.processes, NEW k \in Barring.addresses
       PROVE  /\ k \in bansTold'[s] => Claimed(s, k) /\ k \notin undone'[s]
              /\ k \in undone[s] => k \in undone'[s]
  <2>1. k \in undone[s] => k \in undone'[s]
    BY <1>5, <1>10
  <2>2. ASSUME k \in bansTold'[s]
        PROVE  k \in bansTold[s] /\ k \notin undone'[s]
    <3>1. k \in bansTold[s] /\ (s # p \/ k # j)
      BY <1>6, <2>2
    <3>2. k \notin undone[s]
      BY <3>1 DEF BansHold, Heard
    <3> QED BY <1>5, <1>10, <3>1, <3>2
  <2> QED BY <2>1, <2>2 DEF Claimed
<1>16. Barred' /\ Written' /\ Heard'
  BY <1>2, <1>6, <1>7, <1>12, <1>14, <1>15, BansStay DEF Underway
<1> QED BY <1>9, <1>11, <1>16 DEF BansHold

\* REFRESH_SEC passes.
LEMMA BansCacheAges ==
    ASSUME BansHold, NEW p \in Barring.processes, Bans!CacheAges(p)
    PROVE  BansHold'
<1> DEFINE new == [cache[p] EXCEPT !.fresh = FALSE]
<1>1. UNCHANGED <<db, pins, bansLock, bansReq, bansTold, undone>>
  BY DEF Bans!CacheAges
<1>2. new \in CacheType /\ new.ips = cache[p].ips
  <2>1. cache[p] \in CacheType
    BY ProcessIs
  <2> QED BY <2>1 DEF CacheType
<1>3. cache' = [cache EXCEPT ![p] = new]
  BY ProcessIs DEF Bans!CacheAges
<1> HIDE DEF new
<1>4. /\ cache' \in [Barring.processes -> CacheType]
      /\ \A s \in Barring.processes : cache'[s].ips = cache[s].ips
  BY <1>2, <1>3, ProcessIs
<1>5. BansTyped'
  BY <1>1, <1>4, ProcessIs DEF BansTyped
<1>6. OneRefresh' /\ \A q \in Barring.threads : Refreshing(q)' <=> Refreshing(q)
  BY <1>1 DEF BansHold, OneRefresh, Refreshing
<1>7. ASSUME NEW s \in Barring.processes, NEW k \in Barring.addresses, Sure(s, k)
      PROVE  Sure(s, k)'
  BY <1>1, <1>4, <1>6, <1>7 DEF Sure
<1>8. Barred' /\ Written' /\ Heard'
  BY <1>1, <1>7, ProcessIs, QuietlyStay
<1> QED BY <1>5, <1>6, <1>8 DEF BansHold

\* LOCAL_PIN_SEC passes, which no ban takes.
LEMMA BansPinAges ==
    ASSUME BansHold, NEW p \in Barring.processes, NEW j \in Barring.addresses, Bans!PinAges(p, j)
    PROVE  BansHold'
<1> DEFINE mine == [pins[p] EXCEPT ![j] = "old"]
<1>1. UNCHANGED <<db, cache, bansLock, bansReq, undone>> /\ ~Bans!Banning(p, j)
  BY DEF Bans!PinAges
<1>2. mine \in PinType /\ \A k \in Barring.addresses \ {j} : mine[k] = pins[p][k]
  <2>1. pins[p] \in PinType
    BY ProcessIs
  <2> QED BY <2>1 DEF PinType
<1>3. pins' = [pins EXCEPT ![p] = mine]
  <2>1. pins' = [pins EXCEPT ![p][j] = "old"]
    BY DEF Bans!PinAges
  <2> QED BY <2>1, ProcessIs DEF PinType
<1>4. /\ bansTold' \in [Barring.processes -> Sets]
      /\ bansTold'[p] = bansTold[p] \ {j}
      /\ \A s \in Barring.processes \ {p} : bansTold'[s] = bansTold[s]
  <2>1. bansTold' = [bansTold EXCEPT ![p] = @ \ {j}]
    BY DEF Bans!PinAges
  <2> QED BY <2>1, ProcessIs DEF Sets
<1> HIDE DEF mine
<1>5. /\ pins' \in [Barring.processes -> PinType]
      /\ pins'[p] = mine /\ \A s \in Barring.processes \ {p} : pins'[s] = pins[s]
  BY <1>2, <1>3, ProcessIs
<1>6. BansTyped'
  BY <1>1, <1>4, <1>5, ProcessIs DEF BansTyped
<1>7. OneRefresh' /\ \A q \in Barring.threads : Refreshing(q)' <=> Refreshing(q)
  BY <1>1 DEF BansHold, OneRefresh, Refreshing
<1>8. ~Claimed(p, j)'
  <2>1. Bans!Banning(p, j)' <=> Bans!Banning(p, j)
    BY <1>1 DEF Bans!Banning
  <2> QED BY <1>1, <1>4, <2>1 DEF Claimed
<1>9. ASSUME NEW s \in Barring.processes, NEW k \in Barring.addresses, Sure(s, k), Claimed(s, k)'
      PROVE  Sure(s, k)'
  <2>1. pins'[s][k] = pins[s][k]
    BY <1>2, <1>5, <1>8, <1>9
  <2> QED BY <1>1, <1>7, <1>9, <2>1 DEF Sure
<1>10. \A s \in Barring.processes, k \in Barring.addresses :
          k \in bansTold'[s] => Claimed(s, k) /\ k \notin undone'[s]
  BY <1>1, <1>4 DEF BansHold, Heard, Claimed
<1>11. Barred' /\ Written' /\ Heard'
  BY <1>1, <1>4, <1>9, <1>10, ProcessIs, BansStay
<1> QED BY <1>6, <1>7, <1>11 DEF BansHold

\* A process that dies has told nobody anything.
LEMMA BansCrash ==
    ASSUME BansHold, NEW p \in Barring.processes, Bans!Crash(p)
    PROVE  BansHold'
<1>1. /\ db' = db
      /\ cache' = [cache EXCEPT ![p] = Bans!NewCache] /\ pins' = [pins EXCEPT ![p] = Bans!NoPins]
      /\ bansLock' = [bansLock EXCEPT ![p] = "no one"] /\ bansTold' = [bansTold EXCEPT ![p] = {}]
      /\ undone' = [undone EXCEPT ![p] = {}]
      /\ bansReq' = [r \in Barring.threads |->
                       IF Barring.where[r] = p THEN Bans!Idle(bansReq[r].key) ELSE bansReq[r]]
  BY DEF Bans!Crash, Bans!Of
<1>2. Bans!NewCache \in CacheType /\ Bans!NoPins \in PinType /\ {} \in Sets
  BY DEF Bans!NewCache, Bans!NoPins, CacheType, PinType, Sets
<1>3. /\ cache' \in [Barring.processes -> CacheType] /\ pins' \in [Barring.processes -> PinType]
      /\ bansLock' \in [Barring.processes -> Barring.threads \cup {"no one"}]
      /\ bansLock'[p] = "no one"
      /\ bansTold' \in [Barring.processes -> Sets] /\ bansTold'[p] = {}
      /\ undone' \in [Barring.processes -> Sets]
      /\ \A s \in Barring.processes \ {p} : /\ cache'[s] = cache[s] /\ pins'[s] = pins[s]
                                            /\ bansLock'[s] = bansLock[s]
                                            /\ bansTold'[s] = bansTold[s]
                                            /\ undone'[s] = undone[s]
  BY <1>1, <1>2, ProcessIs
<1>4. ASSUME NEW q \in Barring.threads
      PROVE  /\ bansReq'[q] \in ReqType
             /\ Barring.where[q] # p => bansReq'[q] = bansReq[q]
             /\ Barring.where[q] = p => bansReq'[q].pc = "idle"
  <2>1. bansReq[q] \in ReqType /\ bansReq[q].key \in Barring.addresses
    BY ThreadIs
  <2>2. Bans!Idle(bansReq[q].key) \in ReqType /\ Bans!Idle(bansReq[q].key).pc = "idle"
    BY <2>1 DEF Bans!Idle, ReqType, Bans!Pc, Sets
  <2> QED BY <1>1, <2>1, <2>2
<1>5. bansReq' \in [Barring.threads -> ReqType]
  BY <1>1, <1>4
<1>6. BansTyped'
  BY <1>1, <1>3, <1>5, ProcessIs DEF BansTyped
<1>7. ASSUME NEW q \in Barring.threads
      PROVE  /\ Refreshing(q)' => Barring.where[q] # p /\ Refreshing(q) /\ bansReq'[q] = bansReq[q]
             /\ Refreshing(q)' <=> bansLock'[Barring.where[q]] = q
  <2>1. CASE Barring.where[q] = p
    <3>1. bansReq'[q].pc = "idle" /\ bansLock'[Barring.where[q]] = "no one" /\ q # "no one"
      BY <1>3, <1>4, <2>1, ThreadIs
    <3> QED BY <3>1 DEF Refreshing
  <2>2. CASE Barring.where[q] # p
    <3>1. Barring.where[q] \in Barring.processes
      BY ThreadIs
    <3>2. /\ bansReq'[q] = bansReq[q]
          /\ bansLock'[Barring.where[q]] = bansLock[Barring.where[q]]
      BY <1>3, <1>4, <2>2, <3>1
    <3>3. Refreshing(q) <=> bansLock[Barring.where[q]] = q
      BY ThreadIs
    <3> QED BY <2>2, <3>2, <3>3 DEF Refreshing
  <2> QED BY <2>1, <2>2
<1>8. OneRefresh'
  BY <1>7 DEF OneRefresh
<1>9. \A q \in Barring.threads :
         bansReq'[q].pc \in Underway => Barring.where[q] # p /\ bansReq'[q] = bansReq[q]
  BY <1>4 DEF Underway
<1>10. \A k \in Barring.addresses : ~Bans!Banning(p, k)' /\ ~Claimed(p, k)'
  BY <1>3, <1>9 DEF Claimed, Bans!Banning, Bans!Of, Underway
<1>11. ASSUME NEW s \in Barring.processes, NEW k \in Barring.addresses, Sure(s, k), Claimed(s, k)'
       PROVE  Sure(s, k)'
  <2>1. s # p
    BY <1>10, <1>11
  <2> QED BY <1>1, <1>3, <1>7, <1>11, <2>1 DEF Sure
<1>12. ASSUME NEW s \in Barring.processes, NEW k \in Barring.addresses
       PROVE  /\ k \in bansTold'[s] => Claimed(s, k) /\ k \notin undone'[s]
              /\ k \in undone[s] /\ Bans!Banning(s, k)' => k \in undone'[s]
  <2>1. CASE s = p
    BY <1>3, <1>10, <2>1
  <2>2. CASE s # p
    BY <1>3, <2>2 DEF BansHold, Heard, Claimed
  <2> QED BY <2>1, <2>2
<1>13. Barred' /\ Written' /\ Heard'
  BY <1>1, <1>3, <1>5, <1>9, <1>11, <1>12, BansStay DEF Underway
<1> QED BY <1>6, <1>8, <1>13 DEF BansHold

LEMMA BansNext ==
    ASSUME BansHold, [Bans!Next]_bans
    PROVE  BansHold'
<1>1. CASE Bans!Next
  BY <1>1, BansGoOn, BansLoad, BansReadRules, BansStore, BansLoadFails, BansAdd, BansLook,
     BansCommit, BansUnpin, BansErase, BansRemove, BansCacheAges, BansPinAges, BansCrash
     DEF Bans!Next, Bans!Work, Bans!Refresh
<1>2. CASE UNCHANGED bans
  <2>1. UNCHANGED <<db, cache, pins, bansLock, bansReq, bansTold, undone>>
    BY <1>2 DEF bans
  <2>2. BansTyped' /\ OneRefresh'
    BY <2>1 DEF BansHold, BansTyped, OneRefresh, Refreshing
  <2>3. ASSUME NEW p \in Barring.processes, NEW k \in Barring.addresses
        PROVE  (Claimed(p, k)' <=> Claimed(p, k)) /\ (Sure(p, k)' <=> Sure(p, k))
    <3>1. Claimed(p, k)' <=> Claimed(p, k)
      BY <2>1 DEF Claimed, Bans!Banning
    <3>2. Sure(p, k)' <=> Sure(p, k)
      BY <2>1 DEF Sure, Refreshing
    <3> QED BY <3>1, <3>2
  <2>4. Barred'
    BY <2>3 DEF BansHold, Barred
  <2>5. Written' /\ Heard'
    BY <2>1 DEF BansHold, Written, Heard
  <2> QED BY <2>2, <2>4, <2>5 DEF BansHold
<1> QED BY <1>1, <1>2

LEMMA BansAreKept ==
    ASSUME BansHold
    PROVE  Bans!ToldIsBlocked
<1>1. \A p \in Barring.processes : bansTold[p] \in Sets
  BY ProcessIs
<1> QED BY <1>1 DEF BansHold, Barred, Claimed, Sure, Sets, Bans!ToldIsBlocked

------------------------------------------------------------------------------
(* Limits of attempts *)

Window == Guessing.window
Before == now - Window

LEMMA LimitsAre ==
    /\ Guessing.maxHits \in [Rates!Bucket -> Nat \ {0}] /\ Window \in Nat \ {0}
    /\ Guessing.horizon \in Nat \ {0}
BY PartsAssumption DEF Rates!RateLimitAssumption, Window

\* A set of numbers has a least one.
LEMMA SomeLeast ==
    ASSUME NEW T, T \subseteq Nat, T # {}
    PROVE  \E n \in T : \A m \in T : n <= m
<1>1. IsWellFoundedOn(OpToRel(<, Nat), Nat)
  BY NatLessThanWellFounded
<1>2. PICK n \in T : \A m \in T : ~ (<<m, n>> \in OpToRel(<, Nat))
  BY <1>1, WFMin, Zenon
<1>3. \A m \in T : ~ (m < n)
  BY <1>2 DEF OpToRel
<1> QED BY <1>3

\* What is popped from the left, and what is left.
LEMMA RecentIs ==
    ASSUME now \in Nat, NEW q \in Seq(Nat)
    PROVE  \E n \in 0..Len(q) :
              /\ \A i \in 1..n : q[i] < Before
              /\ n < Len(q) => q[n + 1] >= Before
              /\ Rates!Recent(q) \in Seq(Nat) /\ Len(Rates!Recent(q)) = Len(q) - n
              /\ \A i \in 1..Len(q) - n : Rates!Recent(q)[i] = q[n + i]
<1> DEFINE Good(n) == /\ \A i \in 1..n : q[i] < Before
                      /\ n < Len(q) => q[n + 1] >= Before
           T == {n \in 0..Len(q) : n < Len(q) => q[n + 1] >= Before}
<1>1. Len(q) \in Nat /\ \A i \in 1..Len(q) : q[i] \in Nat
  OBVIOUS
<1>2. T \subseteq Nat /\ Len(q) \in T
  BY <1>1
<1>3. PICK m \in T : \A j \in T : m <= j
  BY <1>2, SomeLeast
<1>4. Window \in Nat /\ Before \in Int
  BY LimitsAre DEF Before
<1>5. ASSUME NEW i \in 1..m
      PROVE  q[i] < Before
  <2>1. i - 1 \notin T /\ i - 1 \in 0..Len(q) /\ i - 1 < Len(q) /\ q[(i - 1) + 1] = q[i]
    <3>1. m \in 0..Len(q) /\ i - 1 \in 0..Len(q) /\ i - 1 < m /\ (i - 1) + 1 = i
      BY <1>1, <1>3
    <3>2. i - 1 \notin T
      <4>1. SUFFICES ASSUME i - 1 \in T PROVE FALSE
        OBVIOUS
      <4>2. m <= i - 1
        BY <1>3, <4>1
      <4> QED BY <3>1, <4>2
    <3> QED BY <1>1, <3>1, <3>2
  <2> QED BY <1>1, <1>4, <2>1
<1>6. \E n \in 0..Len(q) : Good(n)
  BY <1>3, <1>5
<1> DEFINE p == Rates!Popped(q)
<1>7. \E n \in 0..Len(q) : /\ \A i \in 1..n : q[i] < Rates!Cutoff
                           /\ n < Len(q) => q[n + 1] >= Rates!Cutoff
  BY <1>6 DEF Rates!Cutoff, Before, Window
<1>8. p \in 0..Len(q) /\ Good(p)
  <2>1. /\ p \in 0..Len(q)
        /\ \A i \in 1..p : q[i] < Rates!Cutoff
        /\ p < Len(q) => q[p + 1] >= Rates!Cutoff
    BY <1>7, Zenon DEF Rates!Popped
  <2> QED BY <2>1 DEF Rates!Cutoff, Before, Window
<1>9. Rates!Recent(q) = SubSeq(q, p + 1, Len(q))
  BY DEF Rates!Recent
<1> HIDE DEF p
<1>10. /\ Rates!Recent(q) \in Seq(Nat) /\ Len(Rates!Recent(q)) = Len(q) - p
       /\ \A i \in 1..Len(q) - p : Rates!Recent(q)[i] = q[p + i]
  BY <1>1, <1>8, <1>9
<1> QED BY <1>8, <1>10

\* What a bucket remembers are the last hits it has let through, and all that count.
BucketFits(t, back, q, past, m) ==
    /\ q \in Seq(Nat) /\ past \in Seq(Nat) /\ back \in Nat
    /\ Len(q) <= m /\ Len(q) <= Len(past)
    /\ \A i \in 1..Len(q) : q[i] = past[Len(past) - Len(q) + i]
    /\ \A i \in 1..Len(past) - Len(q) : past[i] < t - Window
    /\ \A i \in 1..Len(past) : past[i] <= t
    /\ \A i, j \in 1..Len(past) : i <= j => past[i] <= past[j]
    /\ \A i \in 1..Len(past) - m : past[i + m] - past[i] > Window
    /\ back # 0 => Len(q) = 0 \/ back = q[1] + Window + 1

Counted ==
    /\ now \in 1..Guessing.horizon
    /\ hits \in [Rates!Bucket -> Seq(Nat)] /\ allowed \in [Rates!Bucket -> Seq(Nat)]
    /\ told \in [Rates!Bucket -> Nat]
    /\ \A b \in Rates!Bucket : BucketFits(now, told[b], hits[b], allowed[b], Guessing.maxHits[b])

\* A bucket that refuses.
LEMMA BucketRefuses ==
    ASSUME now \in Nat, NEW back, NEW q, NEW past, NEW m \in Nat \ {0},
           BucketFits(now, back, q, past, m), Len(Rates!Recent(q)) >= m
    PROVE  /\ BucketFits(now, Head(Rates!Recent(q)) + Window + 1, Rates!Recent(q), past, m)
           /\ Len(Rates!Recent(q)) > 0
<1>1. q \in Seq(Nat) /\ past \in Seq(Nat) /\ Window \in Nat /\ Before \in Int
  BY LimitsAre DEF BucketFits, Before
<1>2. PICK n \in 0..Len(q) :
              /\ \A i \in 1..n : q[i] < Before
              /\ n < Len(q) => q[n + 1] >= Before
              /\ Rates!Recent(q) \in Seq(Nat) /\ Len(Rates!Recent(q)) = Len(q) - n
              /\ \A i \in 1..Len(q) - n : Rates!Recent(q)[i] = q[n + i]
  BY <1>1, RecentIs
<1> DEFINE z == Rates!Recent(q)
<1>3. z \in Seq(Nat) /\ Len(z) = Len(q) - n /\ \A i \in 1..Len(z) : z[i] = q[n + i]
  BY <1>2
<1> HIDE DEF z
<1>4. n = 0 /\ Len(z) = m /\ Head(z) = z[1] /\ z[1] \in Nat
  <2>1. Len(q) <= m /\ Len(z) >= m
    BY DEF BucketFits, z
  <2> QED BY <1>1, <1>3, <2>1
<1>5. /\ Len(past) \in Nat /\ Len(q) \in Nat
      /\ Len(z) = Len(q) /\ \A i \in 1..Len(z) : z[i] = q[i]
  BY <1>1, <1>3, <1>4
<1> DEFINE t == Head(z) + Window + 1
<1>6. BucketFits(now, t, z, past, m)
  <2>1. t \in Nat /\ t = z[1] + Window + 1
    BY <1>1, <1>4
  <2> HIDE DEF t
  <2>2. /\ Len(z) <= m /\ Len(z) <= Len(past)
        /\ \A i \in 1..Len(past) - Len(z) : past[i] < Before
    BY <1>5 DEF BucketFits, Before
  <2>3. \A i \in 1..Len(z) : z[i] = past[Len(past) - Len(z) + i]
    BY <1>5 DEF BucketFits, Before
  <2> QED BY <1>1, <1>3, <2>1, <2>2, <2>3 DEF BucketFits, Before
<1> QED BY <1>4, <1>6 DEF z, t

\* A bucket that lets a hit through.
LEMMA BucketLets ==
    ASSUME now \in Nat, NEW back, NEW q, NEW past, NEW m \in Nat \ {0},
           BucketFits(now, back, q, past, m), Len(Rates!Recent(q)) < m
    PROVE  BucketFits(now, 0, Append(Rates!Recent(q), now), Append(past, now), m)
<1>1. q \in Seq(Nat) /\ past \in Seq(Nat) /\ Window \in Nat /\ Before \in Int /\ Before = now - Window
  BY LimitsAre DEF BucketFits, Before
<1>2. PICK n \in 0..Len(q) :
              /\ \A i \in 1..n : q[i] < Before
              /\ n < Len(q) => q[n + 1] >= Before
              /\ Rates!Recent(q) \in Seq(Nat) /\ Len(Rates!Recent(q)) = Len(q) - n
              /\ \A i \in 1..Len(q) - n : Rates!Recent(q)[i] = q[n + i]
  BY <1>1, RecentIs
<1> DEFINE z == Rates!Recent(q)  x == Append(z, now)  y == Append(past, now)
<1>3. z \in Seq(Nat) /\ Len(z) = Len(q) - n /\ \A i \in 1..Len(z) : z[i] = q[n + i]
  BY <1>2
<1>4. Len(z) < m
  OBVIOUS
<1> HIDE DEF z
<1>5. /\ x \in Seq(Nat) /\ Len(x) = Len(z) + 1 /\ x[Len(z) + 1] = now
      /\ \A i \in 1..Len(z) : x[i] = z[i]
  BY <1>3
<1>6. /\ y \in Seq(Nat) /\ Len(y) = Len(past) + 1 /\ y[Len(past) + 1] = now
      /\ \A i \in 1..Len(past) : y[i] = past[i]
  BY <1>1
<1>7. /\ Len(past) \in Nat /\ Len(q) \in Nat /\ Len(z) \in Nat /\ Len(q) <= Len(past)
      /\ Len(z) <= Len(q) /\ Len(z) = Len(q) - n /\ n \in 0..Len(q)
      /\ \A i \in 1..Len(past) : past[i] \in Nat
  <2>1. Len(past) \in Nat /\ Len(q) \in Nat /\ n \in 0..Len(q)
    BY <1>1, <1>2
  <2>2. \A i \in 1..Len(past) : past[i] \in Nat
    BY <1>1
  <2>3. Len(q) <= Len(past)
    BY DEF BucketFits, Before
  <2> QED BY <1>3, <2>1, <2>2, <2>3
<1> HIDE DEF x, y
<1>8. /\ Len(x) = Len(z) + 1 /\ Len(y) = Len(past) + 1
       /\ Len(past) \in Nat /\ Len(q) \in Nat /\ Len(z) \in Nat /\ Len(q) <= Len(past)
       /\ Len(z) <= Len(q)
  BY <1>5, <1>6, <1>7, Zenon
<1>9. \A i \in 1..Len(z) : z[i] = past[Len(past) - Len(z) + i]
  <2>1. ASSUME NEW i \in 1..Len(z)
        PROVE  z[i] = past[Len(past) - Len(z) + i]
    <3>1. n + i \in 1..Len(q)
      BY <1>3, <1>7
    <3>2. q[n + i] = past[Len(past) - Len(q) + (n + i)]
      BY <3>1 DEF BucketFits, Before
    <3>3. Len(past) - Len(q) + (n + i) = Len(past) - Len(z) + i
      BY <1>3, <1>7
    <3> QED BY <1>3, <3>2, <3>3
  <2> QED BY <2>1
<1>10. \A i \in 1..Len(past) - Len(z) : past[i] < Before
  <2>1. ASSUME NEW i \in 1..Len(past) - Len(z)
        PROVE  past[i] < Before
    <3>1. CASE i <= Len(past) - Len(q)
      BY <1>7, <3>1 DEF BucketFits, Before
    <3>2. CASE i > Len(past) - Len(q)
      <4> DEFINE j == i - (Len(past) - Len(q))
      <4>1. j \in 1..n /\ j \in 1..Len(q) /\ Len(past) - Len(q) + j = i
        BY <1>3, <1>7, <3>2
      <4>2. q[j] < Before
        BY <1>2, <4>1
      <4>3. q[j] = past[Len(past) - Len(q) + j]
        BY <4>1 DEF BucketFits, Before
      <4> HIDE DEF j
      <4> QED BY <4>1, <4>2, <4>3
    <3> QED BY <1>7, <3>1, <3>2
  <2> QED BY <2>1
<1>11. /\ \A i \in 1..Len(x) : x[i] = y[Len(y) - Len(x) + i]
       /\ \A i \in 1..Len(y) - Len(x) : y[i] < Before
  <2>1. Len(x) \in Nat /\ Len(y) \in Nat /\ Len(y) - Len(x) = Len(past) - Len(z)
    BY <1>5, <1>6, <1>7
  <2>2. ASSUME NEW i \in 1..Len(x)
        PROVE  x[i] = y[Len(y) - Len(x) + i]
    <3>1. CASE i = Len(z) + 1
      <4>1. x[i] = now
        BY <1>5, <3>1
      <4>2. Len(y) - Len(x) + i = Len(past) + 1
        BY <1>8, <3>1
      <4> QED BY <1>6, <4>1, <4>2
    <3>2. CASE i # Len(z) + 1
      <4>1. i \in 1..Len(z) /\ Len(past) - Len(z) + i \in 1..Len(past)
        BY <1>8, <3>2
      <4> QED BY <1>5, <1>6, <1>9, <2>1, <4>1
    <3> QED BY <3>1, <3>2
  <2>3. ASSUME NEW i \in 1..Len(y) - Len(x)
        PROVE  y[i] < Before
    <3>1. i \in 1..Len(past) - Len(z) /\ i \in 1..Len(past)
      BY <1>7, <2>1
    <3> QED BY <1>6, <1>10, <3>1
  <2> QED BY <2>2, <2>3
<1>12. /\ \A i \in 1..Len(y) : y[i] <= now
       /\ \A i, j \in 1..Len(y) : i <= j => y[i] <= y[j]
  <2>1. /\ \A i \in 1..Len(past) : past[i] <= now
        /\ \A i, j \in 1..Len(past) : i <= j => past[i] <= past[j]
    BY DEF BucketFits, Before
  <2>2. ASSUME NEW i \in 1..Len(y)
        PROVE  y[i] <= now /\ y[i] \in Nat /\ (i \in 1..Len(past) \/ (i = Len(past) + 1 /\ y[i] = now))
    <3>1. CASE i = Len(past) + 1
      BY <1>6, <3>1
    <3>2. CASE i # Len(past) + 1
      <4>1. i \in 1..Len(past)
        BY <1>6, <1>7, <3>2
      <4> QED BY <1>6, <1>7, <2>1, <4>1
    <3> QED BY <3>1, <3>2
  <2>3. ASSUME NEW i \in 1..Len(y), NEW j \in 1..Len(y), i <= j
        PROVE  y[i] <= y[j]
    <3>1. CASE y[j] = now
      BY <2>2, <3>1
    <3>2. CASE y[j] # now
      <4>1. j \in 1..Len(past)
        BY <2>2, <3>2
      <4>2. i \in 1..Len(past)
        BY <1>7, <2>3, <4>1
      <4> QED BY <1>6, <2>1, <2>3, <4>1, <4>2
    <3> QED BY <3>1, <3>2
  <2> QED BY <2>2, <2>3
<1>13. \A i \in 1..Len(y) - m : y[i + m] - y[i] > Window
  <2>1. ASSUME NEW i \in 1..Len(y) - m
        PROVE  y[i + m] - y[i] > Window
    <3>1. CASE i + m = Len(past) + 1
      <4>1. i \in 1..Len(past) - Len(z) /\ i \in 1..Len(past)
        BY <1>4, <1>7, <3>1
      <4>2. y[i] < Before /\ y[i] \in Nat /\ y[i + m] = now
        BY <1>6, <1>7, <1>10, <3>1, <4>1
      <4> QED BY <1>1, <4>2
    <3>2. CASE i + m # Len(past) + 1
      <4>1. i \in 1..Len(past) - m /\ i \in 1..Len(past) /\ i + m \in 1..Len(past)
        <5>1. Len(y) \in Nat /\ i \in Nat /\ i >= 1 /\ i + m <= Len(past) + 1
          BY <1>8
        <5> QED BY <1>8, <3>2, <5>1
      <4>2. past[i + m] - past[i] > Window
        BY <4>1 DEF BucketFits, Before
      <4> QED BY <1>6, <4>1, <4>2
    <3> QED BY <3>1, <3>2
  <2> QED BY <2>1
<1>14. Len(x) <= m /\ Len(x) <= Len(y)
  <2>1. Len(z) < m
    BY <1>4
  <2> QED BY <1>8, <2>1
<1>15. BucketFits(now, 0, x, y, m)
  BY <1>5, <1>6, <1>11, <1>12, <1>13, <1>14 DEF BucketFits, Before
<1> QED BY <1>15 DEF x, y, z

\* A bucket whose last hit counts no more is dropped.
LEMMA BucketGoes ==
    ASSUME now \in Nat, NEW back, NEW q, NEW past, NEW m \in Nat \ {0},
           BucketFits(now, back, q, past, m), q = <<>> \/ Rates!Last(q) < Rates!Cutoff
    PROVE  BucketFits(now, back, <<>>, past, m)
<1>1. /\ q \in Seq(Nat) /\ past \in Seq(Nat) /\ Window \in Nat /\ Before \in Int
      /\ Len(q) \in Nat /\ Len(past) \in Nat /\ Len(q) <= Len(past)
      /\ \A i \in 1..Len(past) : past[i] \in Nat
  BY LimitsAre DEF BucketFits, Before
<1>2. Len(q) # 0 => q[Len(q)] < Before
  BY <1>1 DEF Rates!Last, Rates!Cutoff, Before, Window
<1>3. \A i \in 1..Len(past) : past[i] < Before
  <2>1. ASSUME NEW i \in 1..Len(past)
        PROVE  past[i] < Before
    <3>1. CASE i <= Len(past) - Len(q)
      BY <1>1, <3>1 DEF BucketFits, Before
    <3>2. CASE i > Len(past) - Len(q)
      <4>1. Len(q) # 0 /\ Len(q) \in 1..Len(q) /\ Len(past) \in 1..Len(past)
        BY <1>1, <3>2
      <4>2. q[Len(q)] = past[Len(past) - Len(q) + Len(q)] /\ past[i] <= past[Len(past)]
        BY <1>1, <4>1 DEF BucketFits, Before
      <4>3. Len(past) - Len(q) + Len(q) = Len(past)
        BY <1>1
      <4> QED BY <1>1, <1>2, <4>1, <4>2, <4>3
    <3> QED BY <1>1, <3>1, <3>2
  <2> QED BY <2>1
<1>4. <<>> \in Seq(Nat) /\ Len(<<>>) = 0
  OBVIOUS
<1> QED BY <1>1, <1>3, <1>4 DEF BucketFits, Before

LEMMA CountedAtFirst ==
    ASSUME Rates!Init
    PROVE  Counted
<1>1. /\ now = 1 /\ \A b \in Rates!Bucket : hits[b] = <<>> /\ allowed[b] = <<>> /\ told[b] = 0
      /\ hits \in [Rates!Bucket -> Seq(Nat)] /\ allowed \in [Rates!Bucket -> Seq(Nat)]
      /\ told \in [Rates!Bucket -> Nat]
  BY DEF Rates!Init
<1>2. /\ Guessing.maxHits \in [Rates!Bucket -> Nat \ {0}] /\ Window \in Nat \ {0}
      /\ Guessing.horizon \in Nat \ {0}
  BY LimitsAre
<1>3. ASSUME NEW m \in Nat \ {0}
      PROVE  BucketFits(1, 0, <<>>, <<>>, m)
  <2>1. <<>> \in Seq(Nat) /\ Len(<<>>) = 0 /\ 0 - m < 1
    BY <1>3
  <2> QED BY <2>1 DEF BucketFits
<1>4. \A b \in Rates!Bucket : BucketFits(now, told[b], hits[b], allowed[b], Guessing.maxHits[b])
  BY <1>1, <1>2, <1>3
<1> QED BY <1>1, <1>2, <1>4 DEF Counted

LEMMA CountedLater ==
    ASSUME Counted, Rates!Tick
    PROVE  Counted'
<1>1. now \in Nat /\ now' = now + 1 /\ now' \in 1..Guessing.horizon /\ UNCHANGED <<hits, allowed, told>>
  BY LimitsAre DEF Counted, Rates!Tick
<1>2. ASSUME NEW b \in Rates!Bucket
      PROVE  BucketFits(now', told[b], hits[b], allowed[b], Guessing.maxHits[b])
  <2>1. BucketFits(now, told[b], hits[b], allowed[b], Guessing.maxHits[b])
    BY DEF Counted
  <2>2. PICK q, past : q = hits[b] /\ past = allowed[b]
    OBVIOUS
  <2>3. /\ q \in Seq(Nat) /\ past \in Seq(Nat) /\ Window \in Nat
        /\ \A i \in 1..Len(past) - Len(q) : past[i] < now - Window
        /\ \A i \in 1..Len(past) : past[i] <= now
    BY <2>1, <2>2, LimitsAre DEF BucketFits
  <2>4. Len(past) \in Nat /\ Len(q) \in Nat /\ \A i \in 1..Len(past) : past[i] \in Nat
    BY <2>3
  <2>5. /\ \A i \in 1..Len(past) - Len(q) : past[i] < now' - Window
        /\ \A i \in 1..Len(past) : past[i] <= now'
    BY <1>1, <2>3, <2>4
  <2> QED BY <2>1, <2>2, <2>5 DEF BucketFits
<1> QED BY <1>1, <1>2 DEF Counted

\* What an attempt does to one bucket.
LEMMA BucketHit ==
    ASSUME Counted, NEW ip \in Guessing.ips, NEW u \in Guessing.users, Rates!Attempt(ip, u),
           NEW b \in Rates!Bucket
    PROVE  \E q : /\ BucketFits(now, told'[b], q, allowed'[b], Guessing.maxHits[b])
                  /\ hits'[b] = q \/ (hits'[b] = <<>> /\ (q = <<>> \/ Rates!Last(q) < Rates!Cutoff))
<1> DEFINE bs == {<<ip, "any">>, <<ip, u>>}
           h == [c \in Rates!Bucket |->
                   IF c \notin bs THEN hits[c]
                   ELSE IF Rates!Lets(c) THEN Append(Rates!Recent(hits[c]), now) ELSE Rates!Recent(hits[c])]
<1>1. hits' = h \/ hits' = Rates!Kept(h)
  BY Zenon DEF Rates!Attempt, Rates!Hit
<1>2. hits'[b] = h[b] \/ (hits'[b] = <<>> /\ (h[b] = <<>> \/ Rates!Last(h[b]) < Rates!Cutoff))
  <2> HIDE DEF h
  <2>1. CASE hits' = Rates!Kept(h)
    BY <2>1 DEF Rates!Kept, Rates!Aged
  <2> QED BY <1>1, <2>1
<1>3. /\ now \in Nat /\ Guessing.maxHits[b] \in Nat \ {0}
      /\ BucketFits(now, told[b], hits[b], allowed[b], Guessing.maxHits[b])
  BY LimitsAre DEF Counted
<1>4. PICK q, past, m : q = hits[b] /\ past = allowed[b] /\ m = Guessing.maxHits[b]
  OBVIOUS
<1>5. Rates!Lets(b) <=> Len(Rates!Recent(q)) < m
  BY <1>4 DEF Rates!Lets
<1>6. h[b] = IF b \notin bs THEN q
             ELSE IF Rates!Lets(b) THEN Append(Rates!Recent(q), now) ELSE Rates!Recent(q)
  BY <1>4
<1>7. /\ allowed'[b] = IF b \in bs /\ Rates!Lets(b) THEN Append(past, now) ELSE past
      /\ told'[b] = IF b \notin bs THEN told[b] ELSE IF Rates!Lets(b) THEN 0 ELSE Rates!RetryAfter(b)
  BY <1>4 DEF Rates!Attempt
<1>8. Rates!RetryAfter(b) = Head(Rates!Recent(q)) + Window + 1
  BY <1>4 DEF Rates!RetryAfter, Window
<1> HIDE DEF h, bs
<1>9. BucketFits(now, told'[b], h[b], allowed'[b], m)
  <2>1. CASE b \notin bs
    BY <1>3, <1>4, <1>6, <1>7, <2>1
  <2>2. CASE b \in bs /\ Rates!Lets(b)
    <3>1. BucketFits(now, 0, Append(Rates!Recent(q), now), Append(past, now), m)
      BY <1>3, <1>4, <1>5, <2>2, BucketLets
    <3> QED BY <1>6, <1>7, <2>2, <3>1
  <2>3. CASE b \in bs /\ ~ Rates!Lets(b)
    <3>1. Rates!Recent(q) \in Seq(Nat)
      <4>1. q \in Seq(Nat)
        BY <1>3, <1>4 DEF BucketFits
      <4> QED BY <1>3, <4>1, RecentIs
    <3>2. Len(Rates!Recent(q)) >= m
      <4>1. Len(Rates!Recent(q)) \in Nat
        BY <3>1
      <4> QED BY <1>3, <1>4, <1>5, <2>3, <4>1
    <3>3. BucketFits(now, Head(Rates!Recent(q)) + Window + 1, Rates!Recent(q), past, m)
      BY <1>3, <1>4, <3>2, BucketRefuses
    <3> QED BY <1>6, <1>7, <1>8, <2>3, <3>3
  <2> QED BY <2>1, <2>2, <2>3
<1> QED BY <1>2, <1>4, <1>9

LEMMA CountedNext ==
    ASSUME Counted, Rates!Next
    PROVE  Counted'
<1>1. CASE Rates!Tick
  BY <1>1, CountedLater
<1>2. ASSUME NEW ip \in Guessing.ips, NEW u \in Guessing.users, Rates!Attempt(ip, u)
      PROVE  Counted'
  <2>1. now' = now /\ now \in Nat
    BY <1>2, LimitsAre DEF Rates!Attempt, Counted
  <2>2. ASSUME NEW b \in Rates!Bucket
        PROVE  BucketFits(now, told'[b], hits'[b], allowed'[b], Guessing.maxHits[b])
    <3>1. PICK q : /\ BucketFits(now, told'[b], q, allowed'[b], Guessing.maxHits[b])
                   /\ hits'[b] = q \/ (hits'[b] = <<>> /\ (q = <<>> \/ Rates!Last(q) < Rates!Cutoff))
      BY <1>2, BucketHit
    <3>2. Guessing.maxHits[b] \in Nat \ {0}
      BY LimitsAre
    <3>3. CASE hits'[b] # q
      BY <2>1, <3>1, <3>2, <3>3, BucketGoes
    <3> QED BY <3>1, <3>3
  <2>3. \A b \in Rates!Bucket : hits'[b] \in Seq(Nat) /\ allowed'[b] \in Seq(Nat) /\ told'[b] \in Nat
    BY <2>2 DEF BucketFits
  <2>4. /\ hits' = [b \in Rates!Bucket |-> hits'[b]] /\ allowed' = [b \in Rates!Bucket |-> allowed'[b]]
        /\ told' = [b \in Rates!Bucket |-> told'[b]]
    <3> DEFINE bs == {<<ip, "any">>, <<ip, u>>}
               h == [c \in Rates!Bucket |->
                       IF c \notin bs THEN hits[c]
                       ELSE IF Rates!Lets(c) THEN Append(Rates!Recent(hits[c]), now) ELSE Rates!Recent(hits[c])]
    <3>1. hits' = h \/ hits' = Rates!Kept(h)
      BY <1>2, Zenon DEF Rates!Attempt, Rates!Hit
    <3>2. h = [b \in Rates!Bucket |-> h[b]]
      OBVIOUS
    <3> HIDE DEF h
    <3> DEFINE k == [b \in Rates!Bucket |-> IF Rates!Aged(h, b) THEN <<>> ELSE h[b]]
    <3>3. hits' = h \/ hits' = k
      BY <3>1 DEF Rates!Kept
    <3>4. k = [b \in Rates!Bucket |-> k[b]]
      OBVIOUS
    <3> HIDE DEF k
    <3>5. hits' = [b \in Rates!Bucket |-> hits'[b]]
      BY <3>2, <3>3, <3>4, Zenon
    <3>6. allowed' = [b \in Rates!Bucket |-> allowed'[b]]
      BY <1>2 DEF Rates!Attempt
    <3>7. told' = [b \in Rates!Bucket |-> told'[b]]
      BY <1>2 DEF Rates!Attempt
    <3> QED BY <3>5, <3>6, <3>7
  <2>5. /\ hits' \in [Rates!Bucket -> Seq(Nat)] /\ allowed' \in [Rates!Bucket -> Seq(Nat)]
        /\ told' \in [Rates!Bucket -> Nat]
    BY <2>3, <2>4
  <2> QED BY <2>1, <2>2, <2>5 DEF Counted
<1> QED BY <1>1, <1>2 DEF Rates!Next

\* No window holds more than the limit, and a refusal names a time that is enough.
LEMMA CountedEnough ==
    ASSUME Counted
    PROVE  Rates!TypeOK /\ Rates!AtMostPerWindow /\ Rates!RetryIsEnough
<1>1. /\ Guessing.maxHits \in [Rates!Bucket -> Nat \ {0}] /\ Window \in Nat \ {0}
      /\ now \in Nat
      /\ \A b \in Rates!Bucket : BucketFits(now, told[b], hits[b], allowed[b], Guessing.maxHits[b])
  BY LimitsAre DEF Counted
<1>2. Rates!TypeOK
  BY <1>1 DEF Rates!TypeOK, Counted, BucketFits
<1>3. Rates!AtMostPerWindow
  BY <1>1 DEF Rates!AtMostPerWindow, BucketFits, Window
<1>4. ASSUME NEW b \in Rates!Bucket, told[b] # 0, now >= told[b]
      PROVE  Rates!Lets(b)
  <2>1. PICK q, m : q = hits[b] /\ m = Guessing.maxHits[b]
    OBVIOUS
  <2>2. /\ q \in Seq(Nat) /\ m \in Nat \ {0} /\ Len(q) <= m /\ told[b] \in Nat
        /\ Len(q) = 0 \/ told[b] = q[1] + Window + 1
    BY <1>1, <1>4, <2>1 DEF BucketFits
  <2>3. PICK n \in 0..Len(q) :
              /\ \A i \in 1..n : q[i] < Before
              /\ n < Len(q) => q[n + 1] >= Before
              /\ Rates!Recent(q) \in Seq(Nat) /\ Len(Rates!Recent(q)) = Len(q) - n
              /\ \A i \in 1..Len(q) - n : Rates!Recent(q)[i] = q[n + i]
    BY <1>1, <2>2, RecentIs
  <2>4. Len(q) - n < m
    <3>1. Len(q) \in Nat /\ n \in 0..Len(q) /\ (Len(q) # 0 => q[1] \in Nat)
      BY <2>2, <2>3
    <3>2. CASE Len(q) = 0
      BY <2>2, <3>1, <3>2
    <3>3. CASE Len(q) # 0
      <4>1. q[1] < now - Window
        BY <1>1, <1>4, <2>2, <3>1, <3>3
      <4>2. n # 0
        <5>1. n = 0 => q[1] >= Before
          BY <2>3, <3>1, <3>3
        <5> QED BY <1>1, <3>1, <3>3, <4>1, <5>1 DEF Before
      <4> QED BY <2>2, <3>1, <4>2
    <3> QED BY <3>2, <3>3
  <2> QED BY <2>1, <2>3, <2>4 DEF Rates!Lets
<1> QED BY <1>2, <1>3, <1>4 DEF Rates!RetryIsEnough

------------------------------------------------------------------------------
(* The audit trail *)

LEMMA TrailIs ==
    /\ Trail.maxRows \in Nat \ {0}
    /\ Trail.horizon \in Nat \ {0} /\ Trail.retention \in Nat \ {0}
BY PartsAssumption DEF Audit!AuditTrailAssumption

LEMMA TrailCounts == \A S : Audit!Cardinality(S) = Cardinality(S)
BY DEF Audit!Cardinality, Cardinality

\* Rows that have different times.
Dated(S) ==
    /\ IsFiniteSet(S) /\ \A r \in S : r.at \in Nat
    /\ \E t \in Nat : \A r \in S : r.at < t
    /\ \A r, s \in S : r.at = s.at => r = s

From(S, t) == {r \in S : r.at >= t}

LEMMA FromFinite ==
    ASSUME NEW S, Dated(S), NEW t
    PROVE  IsFiniteSet(From(S, t)) /\ Cardinality(From(S, t)) \in Nat
<1>1. From(S, t) \in SUBSET S /\ IsFiniteSet(S)
  BY DEF From, Dated
<1>2. IsFiniteSet(From(S, t))
  BY <1>1, FS_Subset
<1> QED BY <1>2, FS_CardinalityType

\* As many as are to be kept can be told by the time of the oldest of them.
LEMMA CutIs ==
    ASSUME NEW S, Dated(S), NEW keep \in 1..Cardinality(S)
    PROVE  /\ Audit!Cut(S, keep) \in Nat
           /\ Cardinality(From(S, Audit!Cut(S, keep))) = keep
<1> DEFINE T == {t \in Nat : Cardinality(From(S, t)) < keep}
<1>1. Cardinality(S) \in Nat /\ keep \in Nat /\ keep >= 1 /\ keep <= Cardinality(S)
  BY FS_CardinalityType DEF Dated
<1>2. \E t : t \in T
  <2>2. \E t \in Nat : \A r \in S : r.at < t
    BY DEF Dated
  <2>3. PICK t \in Nat : \A r \in S : r.at < t
    BY <2>2
  <2>4. From(S, t) = {}
    BY <2>3 DEF From, Dated
  <2> QED BY <1>1, <2>3, <2>4, FS_EmptySet
<1>3. PICK n \in T : \A m \in T : n <= m
  <2>1. T \subseteq Nat /\ T # {}
    BY <1>2
  <2> HIDE DEF T
  <2> QED BY <2>1, SomeLeast
<1>4. n \in Nat /\ Cardinality(From(S, n)) < keep
  BY <1>3
<1>5. n # 0
  <2>1. From(S, 0) = S
    BY DEF From, Dated
  <2> QED BY <1>1, <1>4, <2>1
<1> DEFINE t == n - 1
<1>6. t \in Nat /\ t + 1 = n /\ t < n
  BY <1>4, <1>5
<1> HIDE DEF t
<1>7. ~ (Cardinality(From(S, t)) < keep)
  <2>1. t \notin T
    <3>1. n \in Nat /\ t \in Nat
      BY <1>4, <1>6
    <3> HIDE DEF T
    <3> QED BY <1>3, <1>6, <3>1
  <2> QED BY <1>6, <2>1
<1>8. \E r \in S : r.at = t /\ From(S, t) = From(S, n) \cup {r}
  <2>1. ASSUME \A r \in S : r.at # t
        PROVE  FALSE
    <3>1. From(S, t) = From(S, n)
      BY <1>4, <1>6, <2>1 DEF From, Dated
    <3> QED BY <1>4, <1>7, <3>1
  <2>2. PICK r \in S : r.at = t
    BY <2>1
  <2>3. From(S, t) = From(S, n) \cup {r}
    <3>1. ASSUME NEW s \in S
          PROVE  s.at >= t <=> s.at >= n \/ s = r
      BY <1>4, <1>6, <2>2 DEF Dated
    <3> QED BY <2>2, <3>1 DEF From
  <2> QED BY <2>2, <2>3
<1>9. PICK r \in S : r.at = t /\ From(S, t) = From(S, n) \cup {r}
  BY <1>8
<1>10. Cardinality(From(S, t)) = keep
  <2>1. IsFiniteSet(From(S, n)) /\ Cardinality(From(S, n)) \in Nat
    BY FromFinite
  <2>2. Cardinality(From(S, t)) = Cardinality(From(S, n)) \/ Cardinality(From(S, t)) = Cardinality(From(S, n)) + 1
    BY <1>9, <2>1, FS_AddElement
  <2> QED BY <1>1, <1>4, <1>7, <2>1, <2>2
<1>11. \E c \in {s.at : s \in S} : Cardinality({s \in S : s.at >= c}) = keep
  BY <1>9, <1>10 DEF From
<1>12. PICK c : c = Audit!Cut(S, keep)
  OBVIOUS
<1>13. c \in {s.at : s \in S} /\ Cardinality({s \in S : s.at >= c}) = keep
  <2>1. c = CHOOSE t1 \in {s.at : s \in S} : Cardinality({s \in S : s.at >= t1}) = keep
    BY <1>12, TrailCounts DEF Audit!Cut
  <2> QED BY <1>11, <2>1, Zenon
<1> QED BY <1>12, <1>13 DEF From, Dated

\* What is trimmed is older than what is left, and leaves as much as it should.
LEMMA OlderIs ==
    ASSUME NEW S, Dated(S), NEW keep \in Int
    PROVE  /\ Audit!Older(S, keep) \subseteq S
           /\ \A d \in Audit!Older(S, keep), r \in S \ Audit!Older(S, keep) : d.at < r.at
           /\ keep <= 0 => Audit!Older(S, keep) = S
           /\ keep >= 0 /\ keep <= Cardinality(S) =>
                 Cardinality(Audit!Older(S, keep)) = Cardinality(S) - keep
           /\ Cardinality(S \ Audit!Older(S, keep)) <= keep \/ keep < 0
<1>1. Cardinality(S) \in Nat /\ IsFiniteSet(S)
  BY FS_CardinalityType DEF Dated
<1>2. CASE keep <= 0
  <2>1. Audit!Older(S, keep) = S
    BY <1>2 DEF Audit!Older
  <2>2. S \ Audit!Older(S, keep) = {} /\ Cardinality({}) = 0
    BY <2>1, FS_EmptySet
  <2>3. keep = 0 => Cardinality(Audit!Older(S, keep)) = Cardinality(S) - keep
    BY <1>1, <2>1
  <2> QED BY <1>1, <1>2, <2>1, <2>2, <2>3
<1>3. CASE keep > 0 /\ Cardinality(S) < keep
  <2>1. Audit!Older(S, keep) = {}
    BY <1>3, TrailCounts DEF Audit!Older
  <2>2. S \ {} = S
    OBVIOUS
  <2> QED BY <1>1, <1>3, <2>1, <2>2
<1>4. CASE keep > 0 /\ ~ (Cardinality(S) < keep)
  <2>1. PICK t : t = Audit!Cut(S, keep)
    OBVIOUS
  <2>2. t \in Nat /\ Cardinality(From(S, t)) = keep
    BY <1>1, <1>4, <2>1, CutIs
  <2>3. PICK D : D = Audit!Older(S, keep)
    OBVIOUS
  <2>4. D = {r \in S : r.at < t}
    BY <1>4, <2>1, <2>3, TrailCounts DEF Audit!Older
  <2>5. S \ D = From(S, t)
    BY <2>2, <2>4 DEF From, Dated
  <2>6. D \subseteq S /\ \A d \in D, r \in S \ D : d.at < r.at
    BY <2>2, <2>4 DEF Dated
  <2>7. Cardinality(D) = Cardinality(S) - keep
    <3>1. IsFiniteSet(D) /\ IsFiniteSet(S \ D)
      BY <1>1, <2>4, FS_Subset
    <3>2. Cardinality(D \cup (S \ D)) = Cardinality(D) + Cardinality(S \ D) - Cardinality(D \cap (S \ D))
      BY <3>1, FS_Union
    <3>3. D \cup (S \ D) = S /\ D \cap (S \ D) = {}
      BY <2>6
    <3>4. Cardinality({}) = 0 /\ Cardinality(D) \in Nat
      BY <3>1, FS_EmptySet, FS_CardinalityType
    <3> QED BY <1>1, <2>2, <2>5, <3>2, <3>3, <3>4
  <2> QED BY <1>4, <2>2, <2>3, <2>5, <2>6, <2>7
<1> QED BY <1>1, <1>2, <1>3, <1>4

Since == {r \in rows : r.at >= began}

\* What holds of the trail at any time: while noise is being trimmed the table is too large
\* by no more than what is left to trim, and once all is, no noise of before is left.
TrailRows ==
    /\ auditNow \in 1..Trail.horizon /\ IsFiniteSet(rows) /\ rows \subseteq Audit!Row
    /\ \A r \in rows : r.at < auditNow
    /\ \A r, s \in rows : r.at = s.at => r = s
    /\ aged \subseteq gone /\ gone \subseteq rows
    /\ pc \in {"idle", "count", "noise", "all", "commit"}
    /\ began \in 0..auditNow /\ excess \in Nat

NoiseLeft == \E r \in Audit!Seen : r.kind = "noise" /\ r.at < began

TrailHolds ==
    /\ TrailRows
    /\ Audit!OldestFirst
    /\ \A d \in gone \ aged : d.kind # "noise" => ~ NoiseLeft /\ pc \notin {"count", "noise", "all"}
    /\ pc = "all" => ~ NoiseLeft
    /\ pc = "noise" => Cardinality(Audit!Seen) <= Trail.maxRows + excess + Cardinality(Since)
    /\ pc = "commit" => Cardinality(Audit!Seen) <= Trail.maxRows + Cardinality(Since)

LEMMA RowsAreDated ==
    ASSUME TrailRows, NEW S, S \subseteq rows
    PROVE  /\ Dated(S) /\ Cardinality(S) \in Nat
           /\ auditNow \in Nat /\ began \in Nat
           /\ \A r \in S : r = [at |-> r.at, kind |-> r.kind] /\ r.kind \in Trail.kinds /\ r.at \in Nat
<1>1. IsFiniteSet(S)
  BY FS_Subset DEF TrailRows
<1>2. \A r \in S : r = [at |-> r.at, kind |-> r.kind] /\ r.kind \in Trail.kinds /\ r.at \in Nat
  BY DEF TrailRows, Audit!Row
<1>3. auditNow \in Nat /\ began \in Nat
  BY TrailIs DEF TrailRows
<1>4. \A r \in S : r.at < auditNow
  BY DEF TrailRows
<1>5. \A r, s \in S : r.at = s.at => r = s
  BY DEF TrailRows
<1> QED BY <1>1, <1>2, <1>3, <1>4, <1>5, FS_CardinalityType DEF Dated

LEMMA TrailAtFirst ==
    ASSUME Audit!Init
    PROVE  TrailHolds
BY TrailIs, FS_EmptySet DEF Audit!Init, TrailHolds, TrailRows, Audit!OldestFirst, Audit!Seen

LEMMA TrailWritten ==
    ASSUME TrailHolds, NEW k \in Trail.kinds, Audit!Write(k)
    PROVE  TrailHolds'
<1> DEFINE new == [at |-> auditNow, kind |-> k]
<1>1. /\ auditNow < Trail.horizon /\ auditNow' = auditNow + 1 /\ rows' = rows \cup {new}
      /\ UNCHANGED <<pc, gone, began, excess, aged>>
  BY DEF Audit!Write
<1>2. TrailRows /\ auditNow \in Nat /\ began \in 0..auditNow /\ rows \subseteq Audit!Row
  BY RowsAreDated DEF TrailHolds, TrailRows
<1>3. new.at = auditNow /\ new.kind = k /\ new \in Audit!Row
  BY <1>1, <1>2, TrailIs DEF TrailRows, Audit!Row
<1>4. \A r \in rows : r.at \in Nat /\ r.at < auditNow
  BY <1>2, RowsAreDated DEF TrailRows
<1> HIDE DEF new
<1>5. new \notin rows /\ new \notin gone
  BY <1>2, <1>3, <1>4 DEF TrailRows
<1>6. TrailRows'
  <2>1. IsFiniteSet(rows')
    BY <1>1, <1>2, FS_AddElement DEF TrailRows
  <2>2. \A r \in rows' : r.at < auditNow'
    BY <1>1, <1>2, <1>3, <1>4
  <2>3. \A r, s \in rows' : r.at = s.at => r = s
    BY <1>1, <1>2, <1>3, <1>4 DEF TrailRows
  <2>4. auditNow' \in 1..Trail.horizon /\ began' \in 0..auditNow'
    BY <1>1, <1>2, TrailIs
  <2> QED BY <1>1, <1>2, <1>3, <2>1, <2>2, <2>3, <2>4 DEF TrailRows
<1>7. /\ Audit!Seen' = Audit!Seen \cup {new} /\ new \notin Audit!Seen
      /\ Since' = Since \cup {new} /\ new \notin Since
  BY <1>1, <1>2, <1>3, <1>5 DEF Audit!Seen, Since
<1>8. Audit!OldestFirst'
  <2>1. \A d \in gone : d.at < new.at
    BY <1>2, <1>3, <1>4 DEF TrailRows
  <2> QED BY <1>1, <1>7, <2>1 DEF TrailHolds, Audit!OldestFirst
<1>9. NoiseLeft' => NoiseLeft
  BY <1>1, <1>2, <1>3, <1>7 DEF NoiseLeft
<1>10. /\ Cardinality(Audit!Seen') = Cardinality(Audit!Seen) + 1
       /\ Cardinality(Since') = Cardinality(Since) + 1
       /\ Cardinality(Audit!Seen) \in Nat /\ Cardinality(Since) \in Nat
  <2>1. Audit!Seen \subseteq rows /\ Since \subseteq rows /\ IsFiniteSet(rows)
    BY <1>2 DEF Audit!Seen, Since, TrailRows
  <2>2. IsFiniteSet(Audit!Seen) /\ IsFiniteSet(Since)
    BY <2>1, FS_Subset
  <2> QED BY <1>7, <2>2, FS_AddElement, FS_CardinalityType
<1>11. /\ pc' = "noise" => Cardinality(Audit!Seen') <= Trail.maxRows + excess' + Cardinality(Since')
       /\ pc' = "commit" => Cardinality(Audit!Seen') <= Trail.maxRows + Cardinality(Since')
  <2>1. Trail.maxRows \in Nat /\ excess \in Nat /\ pc' = pc /\ excess' = excess
    BY <1>1, <1>2, TrailIs DEF TrailRows
  <2>2. /\ pc = "noise" => Cardinality(Audit!Seen) <= Trail.maxRows + excess + Cardinality(Since)
        /\ pc = "commit" => Cardinality(Audit!Seen) <= Trail.maxRows + Cardinality(Since)
    BY DEF TrailHolds
  <2> QED BY <1>10, <2>1, <2>2
<1> QED BY <1>1, <1>6, <1>8, <1>9, <1>11 DEF TrailHolds

\* A statement deletes from what is seen what is older than the rest of its kind.
LEMMA OldestGo ==
    ASSUME TrailHolds, NEW D, D \subseteq Audit!Seen, gone' = gone \cup D, rows' = rows,
           \A d \in D, r \in Audit!Seen \ D : r.kind = d.kind => d.at < r.at
    PROVE  Audit!OldestFirst' /\ Audit!Seen' = Audit!Seen \ D
BY DEF TrailHolds, Audit!OldestFirst, Audit!Seen

LEMMA SeenLess ==
    ASSUME TrailRows, NEW D, D \subseteq Audit!Seen
    PROVE  Cardinality(Audit!Seen \ D) = Cardinality(Audit!Seen) - Cardinality(D)
<1>1. IsFiniteSet(Audit!Seen)
  BY FS_Subset DEF TrailRows, Audit!Seen
<1>2. IsFiniteSet(D) /\ IsFiniteSet(Audit!Seen \ D)
  BY <1>1, FS_Subset
<1>3. Cardinality(D \cup (Audit!Seen \ D)) = Cardinality(D) + Cardinality(Audit!Seen \ D) - Cardinality(D \cap (Audit!Seen \ D))
  BY <1>2, FS_Union
<1>4. D \cup (Audit!Seen \ D) = Audit!Seen /\ D \cap (Audit!Seen \ D) = {}
  OBVIOUS
<1>5. Cardinality({}) = 0 /\ Cardinality(D) \in Nat /\ Cardinality(Audit!Seen) \in Nat /\ Cardinality(Audit!Seen \ D) \in Nat
  BY <1>1, <1>2, FS_EmptySet, FS_CardinalityType
<1>6. Cardinality(Audit!Seen) = Cardinality(D) + Cardinality(Audit!Seen \ D) - 0
  BY <1>3, <1>4, <1>5, Zenon
<1> QED BY <1>5, <1>6

LEMMA TrailAged ==
    ASSUME TrailHolds, Audit!PruneAge
    PROVE  TrailHolds'
<1> DEFINE D == {r \in rows : r.at < auditNow - Trail.retention}
<1>1. /\ pc' = "count" /\ began' = auditNow /\ gone' = D /\ aged' = D
      /\ UNCHANGED <<auditNow, rows, excess>>
  BY DEF Audit!PruneAge
<1>2. TrailRows /\ auditNow \in Nat /\ Trail.retention \in Nat
  BY TrailIs, RowsAreDated DEF TrailHolds
<1>3. \A r \in rows : r.at \in Nat
  BY <1>2, RowsAreDated
<1>4. TrailRows'
  <2>1. began' \in 0..auditNow'
    BY <1>1, <1>2
  <2> QED BY <1>1, <1>2, <2>1 DEF TrailRows
<1>5. Audit!OldestFirst'
  BY <1>1, <1>2, <1>3 DEF Audit!OldestFirst, Audit!Seen
<1> QED BY <1>1, <1>4, <1>5 DEF TrailHolds

LEMMA TrailCounted ==
    ASSUME TrailHolds, Audit!Count
    PROVE  TrailHolds'
<1>1. /\ pc = "count" /\ UNCHANGED <<auditNow, rows, gone, began, aged>>
      /\ Audit!Cardinality(Audit!Seen) = Cardinality(Audit!Seen)
      /\ excess' = IF Cardinality(Audit!Seen) > Trail.maxRows THEN Cardinality(Audit!Seen) - Trail.maxRows ELSE 0
      /\ pc' = IF Cardinality(Audit!Seen) > Trail.maxRows THEN "noise" ELSE "commit"
  BY TrailCounts DEF Audit!Count
<1>2. TrailRows /\ Trail.maxRows \in Nat /\ Audit!Seen \subseteq rows /\ Since \subseteq rows
  BY TrailIs DEF TrailHolds, Audit!Seen, Since
<1>3. Cardinality(Audit!Seen) \in Nat /\ Cardinality(Since) \in Nat
  BY <1>2, RowsAreDated
<1>4. Audit!Seen' = Audit!Seen /\ Since' = Since /\ (NoiseLeft' <=> NoiseLeft)
  BY <1>1 DEF Audit!Seen, Since, NoiseLeft
<1>5. excess' \in Nat
  BY <1>1, <1>2, <1>3
<1>6. TrailRows'
  BY <1>1, <1>2, <1>5 DEF TrailRows
<1>7. Audit!OldestFirst'
  BY <1>1, <1>4 DEF TrailHolds, Audit!OldestFirst
<1>8. /\ pc' = "noise" => Cardinality(Audit!Seen') <= Trail.maxRows + excess' + Cardinality(Since')
      /\ pc' = "commit" => Cardinality(Audit!Seen') <= Trail.maxRows + Cardinality(Since')
  BY <1>1, <1>2, <1>3, <1>4
<1>9. \A d \in gone \ aged : d.kind = "noise"
  BY <1>1 DEF TrailHolds
<1> QED BY <1>1, <1>6, <1>7, <1>8, <1>9 DEF TrailHolds

LEMMA TrailNoiseGoes ==
    ASSUME TrailHolds, Audit!TrimNoise
    PROVE  TrailHolds'
<1>1. PICK N, n, D :
         /\ N = Audit!Noise /\ n = Cardinality(N)
         /\ D = IF n > 0 THEN Audit!Older(N, n - excess) ELSE {}
         /\ pc = "noise" /\ gone' = gone \cup D
         /\ excess' = IF Cardinality(D) < excess THEN excess - Cardinality(D) ELSE 0
         /\ pc' = IF Cardinality(D) < excess THEN "all" ELSE "commit"
         /\ UNCHANGED <<auditNow, rows, began, aged>>
  BY TrailCounts DEF Audit!TrimNoise
<1>2. TrailRows /\ Trail.maxRows \in Nat /\ Audit!Seen \subseteq rows /\ Since \subseteq rows
  BY TrailIs DEF TrailHolds, Audit!Seen, Since
<1>3. /\ N \subseteq Audit!Seen /\ \A r \in N : r.kind = "noise"
      /\ \A r \in Audit!Seen : r.kind = "noise" => r \in N
  BY <1>1 DEF Audit!Noise
<1>4. /\ Dated(N) /\ n \in Nat /\ excess \in Nat /\ n - excess \in Int
      /\ Cardinality(Audit!Seen) \in Nat /\ Cardinality(Since) \in Nat
  BY <1>1, <1>2, <1>3, RowsAreDated DEF TrailRows
<1>5. /\ D \subseteq N
      /\ \A d \in D, r \in N \ D : d.at < r.at
      /\ Cardinality(D) < excess => D = N
      /\ Cardinality(D) \in Nat
  <2>1. CASE n > 0
    <3> DEFINE keep == n - excess
    <3>1. D = Audit!Older(N, keep) /\ keep \in Int
      BY <1>1, <1>4, <2>1
    <3> HIDE DEF keep
    <3>2. D \subseteq N /\ \A d \in D, r \in N \ D : d.at < r.at
      BY <1>4, <3>1, OlderIs
    <3>3. keep <= 0 => D = N
      BY <1>4, <3>1, OlderIs
    <3>4. keep >= 0 /\ keep <= n => Cardinality(D) = n - keep
      BY <1>1, <1>4, <3>1, OlderIs
    <3>5. Cardinality(D) \in Nat
      BY <1>2, <1>3, <3>2, RowsAreDated
    <3> QED BY <1>4, <3>2, <3>3, <3>4, <3>5 DEF keep
  <2>2. CASE ~ (n > 0)
    <3>1. D = {} /\ N = {}
      BY <1>1, <1>4, <2>2, FS_EmptySet DEF Dated
    <3> QED BY <3>1, FS_EmptySet
  <2> QED BY <2>1, <2>2
<1>6. D \subseteq Audit!Seen /\ \A d \in D, r \in Audit!Seen \ D : r.kind = d.kind => d.at < r.at
  BY <1>3, <1>5
<1>7. Audit!OldestFirst' /\ Audit!Seen' = Audit!Seen \ D /\ Since' = Since
  BY <1>1, <1>6, OldestGo DEF Since
<1>8. TrailRows'
  BY <1>1, <1>2, <1>4, <1>5, <1>6 DEF TrailRows
<1>9. \A d \in gone' \ aged' : d.kind = "noise"
  BY <1>1, <1>3, <1>5 DEF TrailHolds
<1>10. pc' = "all" => ~ NoiseLeft'
  <2>1. ASSUME pc' = "all", NEW r \in Audit!Seen \ D, r.kind = "noise"
        PROVE  FALSE
    <3>1. D = N
      BY <1>1, <1>5, <2>1
    <3> QED BY <1>3, <2>1, <3>1
  <2> QED BY <1>7, <2>1 DEF NoiseLeft
<1>11. pc' = "commit" => Cardinality(Audit!Seen') <= Trail.maxRows + Cardinality(Since')
  <2>1. Cardinality(Audit!Seen') = Cardinality(Audit!Seen) - Cardinality(D)
    BY <1>2, <1>6, <1>7, SeenLess
  <2>2. Cardinality(Audit!Seen) <= Trail.maxRows + excess + Cardinality(Since)
    BY <1>1 DEF TrailHolds
  <2> QED BY <1>1, <1>2, <1>4, <1>5, <1>7, <2>1, <2>2
<1>12. pc' # "noise"
  BY <1>1
<1> QED BY <1>7, <1>8, <1>9, <1>10, <1>11, <1>12 DEF TrailHolds

LEMMA TrailAllGoes ==
    ASSUME TrailHolds, Audit!TrimAll
    PROVE  TrailHolds'
<1>1. PICK D :
         /\ D = Audit!Older(Audit!Seen, Trail.maxRows)
         /\ pc = "all" /\ pc' = "commit" /\ gone' = gone \cup D
         /\ UNCHANGED <<auditNow, rows, began, excess, aged>>
  BY DEF Audit!TrimAll
<1>2. TrailRows /\ Trail.maxRows \in Nat /\ Audit!Seen \subseteq rows /\ Since \subseteq rows
  BY TrailIs DEF TrailHolds, Audit!Seen, Since
<1>3. /\ Dated(Audit!Seen) /\ Cardinality(Since) \in Nat /\ Cardinality(Audit!Seen \ D) \in Nat
      /\ Trail.maxRows \in Int
  BY <1>2, RowsAreDated
<1>4. /\ D \subseteq Audit!Seen
      /\ \A d \in D, r \in Audit!Seen \ D : d.at < r.at
      /\ Cardinality(Audit!Seen \ D) <= Trail.maxRows \/ Trail.maxRows < 0
  BY <1>1, <1>3, OlderIs
<1>5. Audit!OldestFirst' /\ Audit!Seen' = Audit!Seen \ D /\ Since' = Since
  BY <1>1, <1>4, OldestGo DEF Since
<1>6. TrailRows'
  BY <1>1, <1>2, <1>4 DEF TrailRows
<1>7. ~ NoiseLeft'
  <2>1. ~ NoiseLeft
    BY <1>1 DEF TrailHolds
  <2> QED BY <1>1, <1>5, <2>1 DEF NoiseLeft
<1>8. Cardinality(Audit!Seen') <= Trail.maxRows + Cardinality(Since')
  BY <1>2, <1>3, <1>4, <1>5
<1> QED BY <1>1, <1>5, <1>6, <1>7, <1>8 DEF TrailHolds

LEMMA TrailEnds ==
    ASSUME TrailHolds, Audit!Commit \/ Audit!Abort
    PROVE  TrailHolds'
<1>1. /\ rows' \subseteq rows /\ gone' = {} /\ aged' = {} /\ began' = 0 /\ excess' = 0 /\ pc' = "idle"
      /\ auditNow' = auditNow
  BY DEF Audit!Commit, Audit!Abort
<1>2. TrailRows /\ auditNow \in Nat
  BY RowsAreDated DEF TrailHolds
<1>3. IsFiniteSet(rows')
  BY <1>1, <1>2, FS_Subset DEF TrailRows
<1>4. TrailRows'
  BY <1>1, <1>2, <1>3 DEF TrailRows
<1> QED BY <1>1, <1>4 DEF TrailHolds, Audit!OldestFirst

LEMMA TrailNext ==
    ASSUME TrailHolds, Audit!Next
    PROVE  TrailHolds'
BY TrailWritten, TrailAged, TrailCounted, TrailNoiseGoes, TrailAllGoes, TrailEnds DEF Audit!Next

LEMMA TrailIsRight ==
    ASSUME TrailHolds
    PROVE  Audit!TypeOK /\ Audit!HistoryLast /\ Audit!OldestFirst /\ Audit!CapHolds
<1>1. TrailRows /\ auditNow \in 1..Trail.horizon /\ began \in 0..auditNow
  BY DEF TrailHolds, TrailRows
<1>2. Audit!TypeOK
  <2>1. began \in 0..Trail.horizon
    BY <1>1, TrailIs
  <2> QED BY <1>1, <2>1 DEF TrailRows, Audit!TypeOK
<1>3. Audit!HistoryLast
  <2>1. ASSUME NEW d \in gone \ aged, d.kind # "noise", NEW r \in Audit!Seen, r.kind = "noise"
        PROVE  r.at >= began
    <3>1. ~ NoiseLeft
      BY <2>1 DEF TrailHolds
    <3>2. r.at \in Nat /\ began \in Nat
      BY <1>1, RowsAreDated DEF Audit!Seen
    <3> QED BY <2>1, <3>1, <3>2 DEF NoiseLeft
  <2> QED BY <2>1 DEF Audit!HistoryLast
<1>4. Audit!CapHolds
  BY TrailCounts DEF TrailHolds, Audit!CapHolds, Since
<1> QED BY <1>2, <1>3, <1>4 DEF TrailHolds

------------------------------------------------------------------------------
(* Types *)

\* What was given out, and whether registration is open.
Given(c) ==
    /\ open \in {TRUE, FALSE}
    /\ tokens \subseteq [user: c.names, ver: Nat, pw: Password, code: c.secrets \cup {None}]
    /\ keys \subseteq [user: c.names, ver: Nat, pw: Password]

LEMMA GivenTokens ==
    ASSUME NEW c, Proper(c), SignedIn(c), Given(c), NEW r \in c.browsers, Panel(c)!GiveToken(r)
    PROVE  Given(c)'
<1>1. PICK q : q = req[r]
  OBVIOUS
<1>2. /\ q.pc = "issue" /\ UNCHANGED <<open, keys>>
      /\ tokens' = tokens \cup {[user |-> q.user, ver |-> accountsRow[q.user].ver, pw |-> q.pw, code |-> q.code]}
  BY <1>1 DEF Panel!GiveToken, Panel!Go, Panel!At, Panel!Issue
<1>3. q.user \in Panel(c)!Accounts /\ q.pw \in Password /\ q \in Requests(c)
  BY <1>1, <1>2 DEF SignedIn, Asked, Waits, Shown
<1>4. q.user \in c.names /\ accountsRow[q.user].ver \in Nat /\ q.code \in c.secrets \cup {None}
  BY <1>3, RowsTyped DEF SignedIn, Ledger, Requests
<1>5. [user |-> q.user, ver |-> accountsRow[q.user].ver, pw |-> q.pw, code |-> q.code]
         \in [user: c.names, ver: Nat, pw: Password, code: c.secrets \cup {None}]
  BY <1>3, <1>4
<1> QED BY <1>2, <1>5, Zenon DEF Given

LEMMA GivenKeys ==
    ASSUME NEW c, Proper(c), SignedIn(c), Given(c), NEW r \in c.browsers, Panel(c)!CommitKey(r)
    PROVE  Given(c)'
<1>1. PICK q : q = req[r]
  OBVIOUS
<1>2. /\ q.pc = "commit" /\ q.op = "key" /\ UNCHANGED <<open, tokens>>
      /\ keys' \subseteq keys \cup {[user |-> q.user, ver |-> q.me.ver, pw |-> q.me.pw]}
  BY <1>1 DEF Panel!CommitKey, Panel!Go, Panel!At, Panel!DoorUnchanged
<1>3. q.user \in Panel(c)!Accounts /\ q.me \in Rows(c)
  BY <1>1, <1>2 DEF SignedIn, Asked, Waits, Commits
<1>4. q.user \in c.names /\ q.me.ver \in Nat /\ q.me.pw \in Password
  BY <1>3, RowsTyped DEF SignedIn, Ledger, Rows
<1>5. [user |-> q.user, ver |-> q.me.ver, pw |-> q.me.pw] \in [user: c.names, ver: Nat, pw: Password]
  BY <1>4
<1> QED BY <1>2, <1>5, Zenon DEF Given

LEMMA GivenNext ==
    ASSUME NEW c, Proper(c), SignedIn(c), Given(c), [Panel(c)!Next]_accounts
    PROVE  Given(c)'
<1>1. ASSUME UNCHANGED open, tokens' \subseteq tokens, keys' \subseteq keys
      PROVE  Given(c)'
  BY <1>1 DEF Given
<1>2. ASSUME NEW r \in c.browsers, Panel(c)!Visitor(r)
      PROVE  Given(c)'
  BY <1>1, <1>2 DEF Panel!Visitor, Panel!Unlock, Panel!Register, Panel!Login, Panel!DoorUnchanged
<1>3. ASSUME NEW r \in c.browsers, Panel(c)!Continue(r)
      PROVE  Given(c)'
  <2>1. CASE Panel(c)!GiveToken(r)
    BY <2>1, GivenTokens
  <2>2. CASE Panel(c)!CommitKey(r)
    BY <2>2, GivenKeys
  <2>3. CASE Panel(c)!Count(r) \/ Panel(c)!Insert(r) \/ Panel(c)!Judge(r) \/ Panel(c)!GiveCookie(r)
    BY <1>1, <2>3 DEF Panel!Count, Panel!Insert, Panel!Judge, Panel!GiveCookie, Panel!DoorUnchanged
  <2>4. CASE \/ Panel(c)!CommitChange(r) \/ Panel(c)!CommitLogoutAll(r) \/ Panel(c)!CommitSetup(r)
             \/ Panel(c)!CommitEnable(r) \/ Panel(c)!CommitDisable(r) \/ Panel(c)!CommitPatch(r)
             \/ Panel(c)!CommitReset(r)
    BY <1>1, <2>4 DEF Panel!CommitChange, Panel!CommitLogoutAll, Panel!CommitSetup, Panel!CommitEnable,
       Panel!CommitDisable, Panel!CommitPatch, Panel!CommitReset, Panel!DoorUnchanged
  <2> QED BY <1>3, <2>1, <2>2, <2>3, <2>4 DEF Panel!Continue
<1>4. ASSUME NEW r \in c.browsers, NEW n \in c.names, Panel(c)!Own(r, n)
      PROVE  Given(c)'
  BY <1>1, <1>4 DEF Panel!Own, Panel!LogoutAll, Panel!TotpEnable, Panel!TotpDisable, Panel!CreateKey,
     Panel!ChangePassword, Panel!TotpSetup, Panel!Enter, Panel!DoorUnchanged
<1>5. ASSUME NEW r \in c.browsers, NEW n \in c.names, Panel(c)!ByAdmin(r, n)
      PROVE  Given(c)'
  <2>1. CASE Panel(c)!SetOpen(r, n)
    BY <2>1 DEF Panel!SetOpen, Given
  <2>2. CASE \E on \in BOOLEAN : Panel(c)!SetLock(r, n, on)
    BY <1>1, <2>2 DEF Panel!SetLock
  <2>3. CASE \E m \in c.names, p \in Password : Panel(c)!Reset(r, n, m, p) \/ \E w \in Panel(c)!Changes : Panel(c)!Patch(r, n, m, w, p)
    BY <1>1, <2>3 DEF Panel!Reset, Panel!Patch, Panel!DoorUnchanged
  <2> QED BY <1>5, <2>1, <2>2, <2>3 DEF Panel!ByAdmin
<1>6. ASSUME (\E k \in keys : Panel(c)!DeleteKey(k)) \/ Panel(c)!Expire
      PROVE  Given(c)'
  BY <1>1, <1>6 DEF Panel!DeleteKey, Panel!Expire, Panel!DoorUnchanged
<1>7. CASE UNCHANGED accounts
  BY <1>1, <1>7 DEF accounts
<1> QED BY <1>2, <1>3, <1>4, <1>5, <1>6, <1>7 DEF Panel!Next

LEMMA PanelTyped ==
    ASSUME NEW c, Proper(c), SignedIn(c), Given(c)
    PROVE  Panel(c)!TypeOK
<1>1. /\ accountsRow \in [c.names -> Rows(c) \cup {None}] /\ elected \subseteq c.names
      /\ confirmed \in [c.names -> c.secrets \cup {None}] /\ req \in [c.browsers -> Requests(c)]
  BY RowsTyped DEF SignedIn, Ledger, Asked
<1>2. lock \in Nat /\ ops \in Nat /\ cookie \in [c.browsers -> Nat] /\ unlocks \in [c.browsers -> Nat]
  BY DEF SignedIn, Door
<1>3. Panel(c)!Row = Rows(c)
  BY DEF Panel!Row, Rows
<1> QED BY <1>1, <1>2, <1>3 DEF Given, Requests, Panel!TypeOK, Panel!Token, Panel!Key

ShellsKnown ==
    /\ shellsGone \subseteq Sessions /\ shellsTold \subseteq Sessions /\ revoked \subseteq Users
    /\ remote \in [Sessions -> {"reads", "stalled", "exited"}]

LEMMA ShellsKnownNext ==
    ASSUME ShellsKnown, [Shells!Next]_shells
    PROVE  ShellsKnown'
<1>1. CASE UNCHANGED Shells!World
  BY <1>1 DEF Shells!World, ShellsKnown
<1>2. ASSUME NEW s \in Sessions, Shells!Accept(s) \/ Shells!Own(s) \/ Shells!Fails(s)
      PROVE  UNCHANGED Shells!World
  BY <1>2 DEF Shells!Accept, Shells!Own, Shells!Fails, Shells!Authenticate, Shells!AcquireUserSlot,
     Shells!Prepare, Shells!AcquireInstanceSlot, Shells!FirstFrame, Shells!CheckHost, Shells!Connect,
     Shells!Disconnected, Shells!Cleanup, Shells!Finally, Shells!ReleaseUserSlot, Shells!ReleaseInstanceSlot
<1>3. ASSUME NEW s \in Sessions,
             \/ Shells!Input(s) \/ Shells!Drained(s) \/ Shells!BigFrame(s)
             \/ Shells!PumpEnds(s) \/ Shells!WatchRevoked(s) \/ Shells!WatchIdle(s)
      PROVE  ShellsKnown'
  <2>1. shellsTold' \subseteq shellsTold \cup {s} /\ UNCHANGED <<shellsGone, remote, revoked>>
    BY <1>3 DEF Shells!Input, Shells!Drained, Shells!BigFrame, Shells!PumpEnds, Shells!WatchRevoked,
       Shells!WatchIdle, Shells!EndSession
  <2> QED BY <2>1 DEF ShellsKnown
<1>4. ASSUME NEW s \in Sessions, Shells!Leaves(s) \/ Shells!Stalls(s) \/ Shells!Resumes(s) \/ Shells!Exits(s)
      PROVE  ShellsKnown'
  BY <1>4 DEF Shells!Leaves, Shells!Stalls, Shells!Resumes, Shells!Exits, ShellsKnown
<1>5. ASSUME NEW u \in Users, Shells!Revoke(u)
      PROVE  ShellsKnown'
  BY <1>5 DEF Shells!Revoke, ShellsKnown
<1>6. CASE UNCHANGED shells
  BY <1>1, <1>6 DEF shells, Shells!World
<1> QED BY <1>1, <1>2, <1>3, <1>4, <1>5, <1>6 DEF Shells!Next

BansSpent == bansOps \in 0..Barring.maxOps /\ faults \in 0..Barring.maxFaults

LEMMA BansSpentNext ==
    ASSUME BansSpent, [Bans!Next]_bans
    PROVE  BansSpent'
<1>1. Barring.maxOps \in Nat /\ Barring.maxFaults \in Nat
  BY PartsAssumption DEF Bans!IpBanAssumption
<1>2. ASSUME bansOps' = bansOps \/ (bansOps < Barring.maxOps /\ bansOps' = bansOps + 1),
             faults' = faults \/ (faults < Barring.maxFaults /\ faults' = faults + 1)
      PROVE  BansSpent'
  BY <1>1, <1>2 DEF BansSpent
<1>3. ASSUME NEW r \in Barring.threads, Bans!Work(r)
      PROVE  BansSpent'
  BY <1>2, <1>3 DEF Bans!Work, Bans!Refresh, Bans!Load, Bans!ReadRules, Bans!Store, Bans!Judge, Bans!Add,
     Bans!Look, Bans!Commit, Bans!Unpin, Bans!Find, Bans!Erase, Bans!Remove, Bans!SaveRules, Bans!SetRules,
     Bans!Fault, Bans!NoFault
<1>4. ASSUME NEW r \in Barring.threads, Bans!LoadFails(r) \/ Bans!BanFails(r)
      PROVE  BansSpent'
  BY <1>2, <1>4 DEF Bans!LoadFails, Bans!BanFails, Bans!Fault
<1>5. ASSUME NEW r \in Barring.threads,
             \/ \E k \in Barring.addresses : Bans!Visit(r, k) \/ Bans!AskBan(r, k) \/ Bans!AskUnban(r, k)
             \/ \E rs \in Barring.rules : Bans!AskSave(r, rs)
      PROVE  BansSpent'
  BY <1>2, <1>5 DEF Bans!Visit, Bans!AskBan, Bans!AskUnban, Bans!AskSave, Bans!Ask
<1>6. ASSUME NEW p \in Barring.processes,
             Bans!CacheAges(p) \/ Bans!Crash(p) \/ \E k \in Barring.addresses : Bans!PinAges(p, k)
      PROVE  BansSpent'
  BY <1>2, <1>6 DEF Bans!CacheAges, Bans!Crash, Bans!PinAges, Bans!Fault
<1>7. CASE UNCHANGED bans
  BY <1>2, <1>7 DEF bans
<1> QED BY <1>3, <1>4, <1>5, <1>6, <1>7 DEF Bans!Next

LEMMA BansTypesHold ==
    ASSUME BansHold, BansSpent
    PROVE  Bans!TypeOK
BY DEF BansHold, BansTyped, BansSpent, OneRefresh, Refreshing, Sets, CacheType, PinType, ReqType,
       Bans!TypeOK, Bans!Copy, Bans!Of

------------------------------------------------------------------------------
(* The parts together *)

PartsSafe ==
    /\ part = "one by one" => SignedIn(OneByOne)
    /\ part = "second factor" => SignedIn(SecondFactor)
    /\ part = "elected" => SignedIn(Elected)
    /\ part = "shells" => Slotted
    /\ part = "pins" => IInv /\ Alarmed
    /\ part = "bans" => BansHold

LEMMA InitPartsSafe == PartInit => PartsSafe
<1>1. PartInit => /\ part = "one by one" => Panel(OneByOne)!Init
                  /\ part = "second factor" => Panel(SecondFactor)!Init
                  /\ part = "elected" => Panel(Elected)!Init
                  /\ part = "shells" => Shells!Init
                  /\ part = "pins" => Init
                  /\ part = "bans" => Bans!Init
  BY DEF PartInit
<1> QED BY <1>1, PanelsProper, InitSignedIn, InitSlotted, InitIInv, InitAlarmed, InitBans
        DEF PartsSafe

LEMMA PartSteps ==
    ASSUME [PartNext]_all
    PROVE  /\ UNCHANGED part
           /\ part = "one by one" => [Panel(OneByOne)!Next]_accounts
           /\ part = "second factor" => [Panel(SecondFactor)!Next]_accounts
           /\ part = "elected" => [Panel(Elected)!Next]_accounts
           /\ part = "shells" => [Shells!Next]_shells
           /\ part = "pins" => [Next]_vars
           /\ part = "bans" => [Bans!Next]_bans
BY DEF PartNext, all, hostKey, vars

LEMMA NextPartsSafe == ASSUME PartsSafe, [PartNext]_all PROVE PartsSafe'
<1>1. (part = "one by one" => SignedIn(OneByOne)') /\ (part = "second factor" => SignedIn(SecondFactor)')
      /\ (part = "elected" => SignedIn(Elected)')
  BY PartSteps, PanelsProper, NextSignedIn DEF PartsSafe
<1>2. (part = "shells" => Slotted') /\ (part = "pins" => IInv' /\ Alarmed')
  BY PartSteps, NextSlotted, NextIInv, NextAlarmed DEF PartsSafe
<1>3. part = "bans" => BansHold'
  BY PartSteps, BansNext DEF PartsSafe
<1>4. UNCHANGED part
  BY PartSteps
<1> QED BY <1>1, <1>2, <1>3, <1>4 DEF PartsSafe

LEMMA AlwaysPartsSafe == PartSpec => []PartsSafe
<1>1. PartsSafe /\ [PartNext]_all => PartsSafe'
  BY NextPartsSafe
<1> QED BY <1>1, InitPartsSafe, PTL DEF PartSpec

PartsKnown ==
    /\ part = "one by one" => Given(OneByOne)
    /\ part = "second factor" => Given(SecondFactor)
    /\ part = "elected" => Given(Elected)
    /\ part = "rates" => Counted
    /\ part = "audit" => TrailHolds
    /\ part = "shells" => ShellsKnown
    /\ part = "bans" => BansSpent

LEMMA InitPartsKnown == PartInit => PartsKnown
<1>1. PartInit => /\ part = "one by one" => Panel(OneByOne)!Init
                  /\ part = "second factor" => Panel(SecondFactor)!Init
                  /\ part = "elected" => Panel(Elected)!Init
                  /\ part = "rates" => Rates!Init
                  /\ part = "audit" => Audit!Init
                  /\ part = "shells" => Shells!Init
                  /\ part = "bans" => Bans!Init
  BY DEF PartInit
<1>2. ASSUME NEW c, Panel(c)!Init
      PROVE  Given(c)
  BY <1>2 DEF Panel!Init, Given
<1>3. Shells!Init => ShellsKnown
  BY DEF Shells!Init, ShellsKnown
<1>4. Bans!Init => BansSpent
  <2>1. Barring.maxOps \in Nat /\ Barring.maxFaults \in Nat
    BY PartsAssumption DEF Bans!IpBanAssumption
  <2>2. Bans!Init => bansOps = 0 /\ faults = 0
    BY DEF Bans!Init
  <2> QED BY <2>1, <2>2 DEF BansSpent
<1> QED BY <1>1, <1>2, <1>3, <1>4, CountedAtFirst, TrailAtFirst DEF PartsKnown

LEMMA PartsKnownNext == ASSUME PartsSafe, PartsKnown, [PartNext]_all PROVE PartsKnown'
<1>1. /\ part = "one by one" => Given(OneByOne)'
      /\ part = "second factor" => Given(SecondFactor)'
      /\ part = "elected" => Given(Elected)'
  BY PartSteps, PanelsProper, GivenNext DEF PartsSafe, PartsKnown
<1>2. part = "rates" => [Rates!Next]_rates
  BY DEF PartNext, all
<1>3. part = "audit" => [Audit!Next]_audit
  BY DEF PartNext, all
<1>4. ASSUME Counted, UNCHANGED rates
      PROVE  Counted'
  BY <1>4 DEF Counted, BucketFits, rates
<1>5. ASSUME TrailHolds, UNCHANGED audit
      PROVE  TrailHolds'
  BY <1>5 DEF TrailHolds, TrailRows, NoiseLeft, Since, Audit!Seen, Audit!OldestFirst, audit
<1>6. (part = "rates" => Counted') /\ (part = "audit" => TrailHolds')
  BY <1>2, <1>3, <1>4, <1>5, CountedNext, TrailNext DEF PartsKnown
<1>7. (part = "shells" => ShellsKnown') /\ (part = "bans" => BansSpent')
  BY PartSteps, ShellsKnownNext, BansSpentNext DEF PartsKnown
<1>8. UNCHANGED part
  BY PartSteps
<1> QED BY <1>1, <1>6, <1>7, <1>8 DEF PartsKnown

\* What a session or a key was earned by is what it costs, an administrator can be reached, and
\* only the first account became one by registering: for any names, passwords, secrets and
\* browsers, one request at a time, and for registrations that overlap.
THEOREM WhoIsSignedIn == PartSpec => []SignedInRightly
<1>1. OneByOne.overlaps = {} /\ SecondFactor.overlaps = {}
  BY DEF OneByOne, SecondFactor
<1>2. PartsSafe => SignedInRightly
  BY <1>1, PanelsProper, SignedInHolds DEF PartsSafe, SignedInRightly
<1> QED BY <1>2, AlwaysPartsSafe, PTL

\* The slots of web SSH are those of the sessions there are, and of owners; an alarm about a
\* host key is real; an address that a process has told to be banned is refused there until
\* somebody unbans it, however its bans, unbans and refreshes overlap: for any
\* sessions, users, instances, limits, attempts, keys, addresses, processes and threads.
THEOREM GuardsAreUp == PartSpec => []GuardsHold
<1>1. PartsSafe => GuardsHold
  BY SlottedHolds, AlarmedHolds, BansAreKept DEF PartsSafe, GuardsHold
<1> QED BY <1>1, AlwaysPartsSafe, PTL

\* A limit lets no more through in any window than it says, and a refusal names a time that is
\* enough; the trail forgets noise first and the oldest first, and is cut to its size: for any
\* limits, windows, buckets and sizes of the table.
THEOREM LimitsAreKept == PartSpec => []LimitsHold
<1>1. ASSUME PartsSafe, PartsKnown
      PROVE  TypesHold
  <2>1. /\ part = "one by one" => Panel(OneByOne)!TypeOK
        /\ part = "second factor" => Panel(SecondFactor)!TypeOK
        /\ part = "elected" => Panel(Elected)!TypeOK
    BY <1>1, PanelsProper, PanelTyped DEF PartsSafe, PartsKnown
  <2>2. /\ part = "rates" => Rates!TypeOK
        /\ part = "audit" => Audit!TypeOK
    BY <1>1, CountedEnough, TrailIsRight DEF PartsKnown
  <2>3. part = "shells" => Shells!TypeOK
    BY <1>1 DEF PartsSafe, PartsKnown, Slotted, ShellsKnown, Shells!TypeOK
  <2>4. part = "pins" => TypeOK
    BY <1>1 DEF PartsSafe, IInv
  <2>5. part = "bans" => Bans!TypeOK
    BY <1>1, BansTypesHold DEF PartsSafe, PartsKnown
  <2> QED BY <2>1, <2>2, <2>3, <2>4, <2>5 DEF TypesHold
<1>2. ASSUME PartsSafe, PartsKnown
      PROVE  LimitsHold
  BY <1>1, <1>2, CountedEnough, TrailIsRight DEF PartsKnown, LimitsHold
<1>3. PartsSafe /\ PartsKnown /\ [PartNext]_all => PartsKnown'
  BY PartsKnownNext
<1> QED BY <1>2, <1>3, InitPartsKnown, AlwaysPartsSafe, PTL DEF PartSpec

\* A session that was revoked stays revoked, whatever is done to its account.
THEOREM RevocationLasts == PartSpec => RevokedStays
<1>1. PartsSafe /\ [PartNext]_all => (part = "one by one" => Panel(OneByOne)!NoRevival)
  BY PartSteps, PanelsProper, NextSignedIn, RevokedForGood DEF PartsSafe
<1>2. PartsSafe /\ [PartNext]_all => [part = "one by one" => Panel(OneByOne)!NoRevival]_all
  BY <1>1
<1> QED BY <1>2, AlwaysPartsSafe, PTL DEF PartSpec, RevokedStays

=============================================================================
