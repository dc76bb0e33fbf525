----------------------------- MODULE EndsProofs ------------------------------
(***************************************************************************)
(* Theorems about what must be whole when it is used (NothingHalf): the    *)
(* data directory that a program begins with, the answer to a request over *)
(* the ceiling on bodies, the console capture that is read.  They hold for *)
(* any number of programs, deaths, requests and bytes.                     *)
(***************************************************************************)
EXTENDS MCEnds, TLAPS

------------------------------------------------------------------------------
(* The start of the portable edition *)

Files == Migration!DataFiles
Pcs == {"off", "starts", "copies", "installs", "clears", "renames", "ready", "runs", "refused"}

Typed ==
    /\ Migration!TypeOK
    /\ migrationPc \in [Procs -> Pcs] /\ staging \in [Procs -> {None} \cup SUBSET Files]

\* The data directory is absent, empty, or has all there is in the old one.
Vacant == dest \in {None, {}}
Whole == ~Vacant => source \subseteq dest

\* A program that has staged files had something to migrate, and has all of it, sound,
\* when it is to be installed.
Staged ==
    \A p \in Procs :
       /\ migrationPc[p] \in {"copies", "installs", "clears", "renames"} =>
             source # {} /\ staging[p] # None
       /\ migrationPc[p] \in {"installs", "clears", "renames"} =>
             source \subseteq staging[p] /\ ~Migration!Bad

\* A program that is past the migration has found or made a directory that nobody clears.
Settled ==
    \A p \in Procs :
       /\ migrationPc[p] \in {"ready", "runs"} => source = {} \/ ~Vacant
       /\ migrationPc[p] = "runs" => dest # None

Sealed == sealed => "tenants" \in source

Migrated ==
    /\ Typed /\ Whole /\ Staged /\ Settled /\ Sealed
    /\ Migration!Opens /\ Migration!NotReplaced

LEMMA MigrationConstants ==
    /\ MaxCrashes \in Nat
    /\ \A files : files \subseteq Files \cup {"own"} => files # None
BY PartsAssumption DEF Migration!MigrationAssumption, Files

LEMMA InitMigrated == Migration!Init => Migrated
<1> SUFFICES ASSUME Migration!Init PROVE Migrated
  OBVIOUS
<1>1. /\ source \subseteq Files /\ damaged \subseteq source /\ sealed \in BOOLEAN
      /\ Sealed /\ Vacant /\ used = FALSE /\ crashes = 0
      /\ migrationPc = [p \in Procs |-> "off"] /\ staging = [p \in Procs |-> None]
  BY DEF Migration!Init, Sealed, Vacant, Files
<1>2. Typed
  <2>1. migrationPc \in [Procs -> Pcs] /\ staging \in [Procs -> {None} \cup SUBSET Files]
    BY <1>1 DEF Pcs
  <2>2. crashes \in 0..MaxCrashes
    BY <1>1, MigrationConstants
  <2> QED BY <1>1, <2>1, <2>2 DEF Typed, Migration!TypeOK, Pcs, Files, Vacant
<1>3. Whole /\ Staged /\ Settled
  BY <1>1 DEF Whole, Staged, Settled
<1>4. Migration!Opens /\ Migration!NotReplaced
  BY <1>1 DEF Vacant, Migration!Opens, Migration!NotReplaced
<1> QED BY <1>1, <1>2, <1>3, <1>4 DEF Migrated

\* Process p is at step `to` next, and may change its staging directory.
StepsTo(p, to) ==
    /\ migrationPc' = [migrationPc EXCEPT ![p] = to]
    /\ staging' \in [Procs -> {None} \cup SUBSET Files]
    /\ \A q \in Procs \ {p} : staging'[q] = staging[q]
    /\ UNCHANGED <<source, sealed, damaged>> /\ crashes' \in 0..MaxCrashes

LEMMA StepsTyped ==
    ASSUME Migrated, NEW p \in Procs, NEW to \in Pcs, StepsTo(p, to),
           dest' = None \/ dest' \subseteq Files \cup {"own"}, used' \in BOOLEAN
    PROVE  /\ Typed' /\ Sealed' /\ migrationPc'[p] = to
           /\ \A q \in Procs \ {p} : migrationPc'[q] = migrationPc[q]
           /\ Migration!Bad' <=> Migration!Bad
<1>1. /\ migrationPc' \in [Procs -> Pcs] /\ migrationPc'[p] = to
      /\ \A q \in Procs \ {p} : migrationPc'[q] = migrationPc[q]
  BY DEF Migrated, Typed, StepsTo
<1>2. Typed'
  BY <1>1 DEF Migrated, Typed, Migration!TypeOK, StepsTo, Pcs, Files
<1> QED BY <1>1, <1>2 DEF Migrated, Sealed, Migration!Bad, StepsTo

\* A step that leaves the data directory alone.
LEMMA StepKeeps ==
    ASSUME Migrated, NEW p \in Procs, NEW to \in Pcs, StepsTo(p, to), UNCHANGED <<dest, used>>,
           to \in {"copies", "installs", "clears", "renames"} =>
              source # {} /\ staging'[p] # None,
           to \in {"installs", "clears", "renames"} =>
              source \subseteq staging'[p] /\ ~Migration!Bad,
           to \in {"ready", "runs"} => source = {} \/ ~Vacant,
           to = "runs" => dest # None
    PROVE  Migrated'
<1>1. /\ Typed' /\ Sealed' /\ migrationPc'[p] = to
      /\ \A q \in Procs \ {p} : migrationPc'[q] = migrationPc[q]
      /\ Migration!Bad' <=> Migration!Bad
  BY StepsTyped DEF Migrated, Typed, Migration!TypeOK, Files
<1>2. UNCHANGED <<source, dest, used>> /\ \A q \in Procs \ {p} : staging'[q] = staging[q]
  BY DEF StepsTo
<1>3. Staged'
  BY <1>1, <1>2 DEF Migrated, Staged
<1>4. Settled'
  BY <1>1, <1>2 DEF Migrated, Settled, Vacant
<1>5. Whole' /\ Migration!Opens' /\ Migration!NotReplaced'
  BY <1>1, <1>2 DEF Migrated, Whole, Vacant, Migration!Opens, Migration!NotReplaced
<1> QED BY <1>1, <1>3, <1>4, <1>5 DEF Migrated

\* Before there is a directory to keep, a step may make or remove it: nobody has begun who
\* had something to migrate.
LEMMA StepMakes ==
    ASSUME Migrated, NEW p \in Procs, NEW to \in Pcs, StepsTo(p, to), Vacant, UNCHANGED used,
           migrationPc[p] \in {"clears", "renames"} /\ source # {},
           \/ dest' = None /\ to = "renames" /\ UNCHANGED staging
           \/ dest' = staging[p] /\ to = "ready"
    PROVE  Migrated'
<1>1. /\ source \subseteq staging[p] /\ staging[p] \subseteq Files /\ staging[p] # None
      /\ ~Migration!Bad
  BY DEF Migrated, Staged, Typed
<1>2. dest' = None \/ (dest' = staging[p] /\ ~Vacant' /\ source \subseteq dest')
  BY <1>1 DEF Vacant
<1>3. /\ Typed' /\ Sealed' /\ migrationPc'[p] = to
      /\ \A q \in Procs \ {p} : migrationPc'[q] = migrationPc[q]
      /\ Migration!Bad' <=> Migration!Bad
  BY <1>1, StepsTyped DEF Migrated, Typed, Migration!TypeOK, Files
<1>4. UNCHANGED <<source, used>> /\ \A q \in Procs \ {p} : staging'[q] = staging[q]
  BY DEF StepsTo
<1>5. ~used
  BY MigrationConstants DEF Migrated, Migration!NotReplaced, Vacant
<1>6. \A q \in Procs \ {p} : migrationPc[q] \notin {"ready", "runs"}
  BY DEF Migrated, Settled
<1>7. Staged'
  BY <1>1, <1>3, <1>4 DEF Migrated, Staged
<1>8. Settled'
  BY <1>1, <1>2, <1>3, <1>4, <1>6 DEF Settled
<1>9. Whole' /\ Migration!Opens' /\ Migration!NotReplaced'
  BY <1>1, <1>2, <1>3, <1>4, <1>5 DEF Whole, Vacant, Migration!Opens, Migration!NotReplaced
<1> QED BY <1>3, <1>7, <1>8, <1>9 DEF Migrated

\* A change of the staging directory of one process.
LEMMA Restaged ==
    ASSUME Typed, NEW p \in Procs, NEW to \in Pcs, NEW files \in {None} \cup SUBSET Files,
           migrationPc' = [migrationPc EXCEPT ![p] = to],
           staging' = [staging EXCEPT ![p] = files],
           UNCHANGED <<source, sealed, damaged>>, crashes' \in 0..MaxCrashes
    PROVE  StepsTo(p, to) /\ staging'[p] = files
BY DEF StepsTo, Typed

LEMMA NotRestaged ==
    ASSUME Typed, NEW p \in Procs, NEW to \in Pcs,
           migrationPc' = [migrationPc EXCEPT ![p] = to], UNCHANGED staging,
           UNCHANGED <<source, sealed, damaged>>, crashes' \in 0..MaxCrashes
    PROVE  StepsTo(p, to)
BY DEF StepsTo, Typed

\* Sound files are those that can be opened.
LEMMA SoundIsGood ==
    ASSUME Migrated, Migration!Sound(source)
    PROVE  ~Migration!Bad
BY DEF Migration!Sound, Migration!Bad, Migrated, Typed, Migration!TypeOK, Sealed

LEMMA StagingMigrated ==
    ASSUME Migrated, NEW p \in Procs,
           \/ Migration!Begin(p) \/ Migration!NotNeeded(p) \/ Migration!Stage(p)
           \/ Migration!Copy(p) \/ Migration!Validate(p) \/ Migration!Refuse(p)
    PROVE  Migrated'
<1>0. /\ Typed /\ crashes \in 0..MaxCrashes /\ {} \in SUBSET Files /\ staging \in [Procs -> {None} \cup SUBSET Files]
      /\ {"starts", "ready", "copies", "installs", "refused"} \subseteq Pcs
      /\ source \subseteq Files /\ \A files \in SUBSET Files : files # None
  BY MigrationConstants DEF Migrated, Typed, Migration!TypeOK, Pcs, Files
<1>1. CASE Migration!Begin(p)
  <2>1. StepsTo(p, "starts")
    BY <1>0, <1>1, NotRestaged DEF Migration!Begin, Migration!Goes, Migration!Legacy
  <2> QED BY <1>0, <1>1, <2>1, StepKeeps DEF Migration!Begin
<1>2. CASE Migration!NotNeeded(p)
  <2>1. StepsTo(p, "ready")
    BY <1>0, <1>2, NotRestaged DEF Migration!NotNeeded, Migration!Goes, Migration!Legacy
  <2> QED BY <1>0, <1>2, <2>1, StepKeeps DEF Migration!NotNeeded, Vacant
<1>3. CASE Migration!Stage(p)
  <2>1. StepsTo(p, "copies") /\ staging'[p] = {}
    BY <1>0, <1>3, Restaged DEF Migration!Stage, Migration!Goes, Migration!Legacy
  <2> QED BY <1>0, <1>3, <2>1, StepKeeps DEF Migration!Stage
<1>4. CASE Migration!Copy(p)
  <2>1. staging[p] # None /\ source # {}
    BY <1>4 DEF Migration!Copy, Migrated, Staged
  <2>2. PICK f \in source : staging' = [staging EXCEPT ![p] = @ \cup {f}]
    BY <1>4 DEF Migration!Copy
  <2>3. staging[p] \cup {f} \in SUBSET Files
    BY <1>0, <2>1, <2>2
  <2>4. migrationPc' = [migrationPc EXCEPT ![p] = "copies"]
    BY <1>0, <1>4 DEF Migration!Copy, Typed
  <2>5. StepsTo(p, "copies") /\ staging'[p] = staging[p] \cup {f}
    BY <1>0, <1>4, <2>2, <2>3, <2>4, Restaged DEF Migration!Copy, Migration!Legacy
  <2> QED BY <1>0, <1>4, <2>1, <2>3, <2>5, StepKeeps DEF Migration!Copy
<1>5. CASE Migration!Validate(p)
  <2>1. /\ staging[p] = source /\ ~Migration!Bad /\ source # {}
    BY <1>5, SoundIsGood DEF Migration!Validate, Migration!Goes, Migrated, Staged
  <2>2. Migration!Opened(source) \in SUBSET Files /\ source \subseteq Migration!Opened(source)
    BY <1>0 DEF Migration!Opened, Files, Migration!DataFiles
  <2>3. StepsTo(p, "installs") /\ staging'[p] = Migration!Opened(source)
    BY <1>0, <1>5, <2>1, <2>2, Restaged
    DEF Migration!Validate, Migration!Goes, Migration!Legacy
  <2> QED BY <1>0, <1>5, <2>1, <2>2, <2>3, StepKeeps DEF Migration!Validate
<1>6. CASE Migration!Refuse(p)
  <2>1. StepsTo(p, "refused")
    BY <1>0, <1>6, Restaged DEF Migration!Refuse, Migration!Goes, Migration!Legacy
  <2> QED BY <1>0, <1>6, <2>1, StepKeeps DEF Migration!Refuse
<1> QED BY <1>1, <1>2, <1>3, <1>4, <1>5, <1>6

LEMMA InstallingMigrated ==
    ASSUME Migrated, NEW p \in Procs,
           Migration!Install(p) \/ Migration!Clear(p) \/ Migration!Rename(p)
    PROVE  Migrated'
<1>0. /\ Typed /\ crashes \in 0..MaxCrashes /\ None \in {None} \cup SUBSET Files
      /\ {"ready", "clears", "renames", "refused"} \subseteq Pcs
      /\ migrationPc[p] \in {"installs", "clears", "renames"}
  BY DEF Migrated, Typed, Migration!TypeOK, Pcs, Migration!Install, Migration!Clear,
         Migration!Rename, Migration!Goes
<1>1. source # {} /\ staging[p] # None /\ source \subseteq staging[p] /\ ~Migration!Bad
  BY <1>0 DEF Migrated, Staged
<1>2. CASE Migration!Install(p)
  <2>1. ASSUME NEW to \in {"clears", "renames"}, Migration!Goes(p, "installs", to),
               UNCHANGED <<staging, dest, used, Migration!Legacy>>
        PROVE  Migrated'
    <3>1. StepsTo(p, to)
      BY <1>0, <2>1, NotRestaged DEF Migration!Goes, Migration!Legacy
    <3> QED BY <1>0, <1>1, <2>1, <3>1, StepKeeps
  <2>2. ASSUME ~Vacant, Migration!Goes(p, "installs", "ready"),
               staging' = [staging EXCEPT ![p] = None],
               UNCHANGED <<dest, used, Migration!Legacy>>
        PROVE  Migrated'
    <3>1. StepsTo(p, "ready")
      BY <1>0, <2>2, Restaged DEF Migration!Goes, Migration!Legacy
    <3> QED BY <1>0, <2>2, <3>1, StepKeeps
  <2> QED BY <1>2, <2>1, <2>2 DEF Migration!Install, Vacant
<1>3. CASE Migration!Clear(p)
  <2>1. CASE dest = {}
    <3>1. /\ Migration!Goes(p, "clears", "renames") /\ dest' = None
          /\ UNCHANGED <<staging, used, Migration!Legacy>>
      BY <1>3, <2>1 DEF Migration!Clear
    <3>2. StepsTo(p, "renames")
      BY <1>0, <3>1, NotRestaged DEF Migration!Goes, Migration!Legacy
    <3> QED BY <1>0, <1>1, <2>1, <3>1, <3>2, StepMakes DEF Vacant, Migration!Goes
  <2>2. CASE dest # {}
    <3>1. StepsTo(p, "refused")
      BY <1>0, <1>3, <2>2, Restaged DEF Migration!Clear, Migration!Goes, Migration!Legacy
    <3> QED BY <1>0, <1>3, <2>2, <3>1, StepKeeps DEF Migration!Clear
  <2> QED BY <2>1, <2>2
<1>4. CASE Migration!Rename(p)
  <2>1. CASE Vacant
    <3>1. /\ Migration!Goes(p, "renames", "ready") /\ dest' = staging[p]
          /\ staging' = [staging EXCEPT ![p] = None] /\ UNCHANGED <<used, Migration!Legacy>>
      BY <1>4, <2>1 DEF Migration!Rename, Vacant
    <3>2. StepsTo(p, "ready")
      BY <1>0, <3>1, Restaged DEF Migration!Goes, Migration!Legacy
    <3> QED BY <1>0, <1>1, <2>1, <3>1, <3>2, StepMakes DEF Migration!Goes
  <2>2. CASE ~Vacant
    <3>1. StepsTo(p, "refused")
      BY <1>0, <1>4, <2>2, Restaged
      DEF Migration!Rename, Migration!Goes, Migration!Legacy, Vacant
    <3> QED BY <1>0, <1>4, <2>2, <3>1, StepKeeps DEF Migration!Rename, Vacant
  <2> QED BY <2>1, <2>2
<1> QED BY <1>2, <1>3, <1>4

LEMMA RunningMigrated ==
    ASSUME Migrated, NEW p \in Procs,
           \/ Migration!EnsureWritable(p) \/ Migration!Write(p)
           \/ Migration!End(p) \/ Migration!Crash(p)
    PROVE  Migrated'
<1>0. /\ Typed /\ crashes \in 0..MaxCrashes /\ None \in {None} \cup SUBSET Files
      /\ {"runs", "off"} \subseteq Pcs /\ used \in BOOLEAN
      /\ dest = None \/ dest \subseteq Files \cup {"own"}
  BY DEF Migrated, Typed, Migration!TypeOK, Pcs, Files
<1>1. CASE Migration!EnsureWritable(p)
  <2>1. StepsTo(p, "runs")
    BY <1>0, <1>1, NotRestaged
    DEF Migration!EnsureWritable, Migration!Goes, Migration!Legacy
  <2>2. CASE dest # None
    <3>1. source = {} \/ ~Vacant
      BY <1>1 DEF Migration!EnsureWritable, Migration!Goes, Migrated, Settled
    <3> QED BY <1>0, <1>1, <2>1, <2>2, <3>1, StepKeeps DEF Migration!EnsureWritable
  <2>3. CASE dest = None
    <3>1. dest' = {} /\ UNCHANGED used /\ source = {} /\ ~used
      BY <1>1, <2>3
      DEF Migration!EnsureWritable, Migration!Goes, Migrated, Settled, Vacant,
          Migration!NotReplaced
    <3>2. /\ Typed' /\ Sealed' /\ migrationPc'[p] = "runs"
          /\ \A q \in Procs \ {p} : migrationPc'[q] = migrationPc[q]
          /\ Migration!Bad' <=> Migration!Bad
      BY <1>0, <2>1, <3>1, StepsTyped
    <3>3. UNCHANGED source /\ {} # None
      BY <2>1, MigrationConstants DEF StepsTo
    <3>4. Staged'
      BY <2>1, <3>1, <3>2 DEF Migrated, Staged, StepsTo
    <3>5. Settled' /\ Whole' /\ Migration!Opens' /\ Migration!NotReplaced'
      BY <3>1, <3>2, <3>3 DEF Settled, Whole, Vacant, Migration!Opens, Migration!NotReplaced
    <3> QED BY <3>2, <3>4, <3>5 DEF Migrated
  <2> QED BY <2>2, <2>3
<1>2. CASE Migration!Write(p)
  <2>1. /\ UNCHANGED <<source, sealed, damaged, crashes, migrationPc, staging>>
        /\ used' = TRUE /\ dest' = dest \cup {"own"} /\ migrationPc[p] = "runs"
    BY <1>2 DEF Migration!Write, Migration!Legacy
  <2>2. dest # None /\ source \subseteq dest
    BY <2>1 DEF Migrated, Settled, Whole
  <2>3. dest' \subseteq Files \cup {"own"} /\ ~Vacant' /\ dest' # None
    BY <1>0, <2>1, <2>2, MigrationConstants DEF Vacant
  <2>4. Typed'
    BY <2>1, <2>3 DEF Migrated, Typed, Migration!TypeOK, Files
  <2>5. Staged' /\ Sealed' /\ (Migration!Bad' <=> Migration!Bad)
    BY <2>1 DEF Migrated, Staged, Sealed, Migration!Bad
  <2>6. Settled' /\ Whole'
    BY <2>1, <2>2, <2>3 DEF Settled, Whole
  <2>7. Migration!Opens' /\ Migration!NotReplaced'
    BY <2>1, <2>2, <2>3, <2>5 DEF Migrated, Migration!Opens, Migration!NotReplaced
  <2> QED BY <2>4, <2>5, <2>6, <2>7 DEF Migrated
<1>3. CASE Migration!End(p)
  <2>1. StepsTo(p, "off")
    BY <1>0, <1>3, NotRestaged DEF Migration!End, Migration!Goes, Migration!Legacy
  <2> QED BY <1>0, <1>3, <2>1, StepKeeps DEF Migration!End
<1>4. CASE Migration!Crash(p)
  <2>1. crashes' \in 0..MaxCrashes
    BY <1>0, <1>4, MigrationConstants DEF Migration!Crash
  <2>2. StepsTo(p, "off")
    BY <1>0, <1>4, <2>1, Restaged DEF Migration!Crash
  <2> QED BY <1>0, <1>4, <2>2, StepKeeps DEF Migration!Crash
<1> QED BY <1>1, <1>2, <1>3, <1>4

LEMMA NextMigrated == ASSUME Migrated, [Migration!Next]_migration PROVE Migrated'
<1>1. CASE Migration!Next
  BY <1>1, StagingMigrated, InstallingMigrated, RunningMigrated
  DEF Migration!Next, Migration!Starts
<1>2. CASE UNCHANGED migration
  BY <1>2
  DEF migration, Migrated, Typed, Migration!TypeOK, Whole, Vacant, Staged, Settled, Sealed,
      Migration!Bad, Migration!Opens, Migration!NotReplaced
<1> QED BY <1>1, <1>2

\* What a program may rely on when it begins.
LEMMA MigratedHolds ==
    ASSUME Migrated
    PROVE  /\ Migration!TypeOK /\ Migration!AllOrNothing
           /\ Migration!Opens /\ Migration!NotReplaced
BY DEF Migrated, Typed, Settled, Whole, Migration!AllOrNothing

------------------------------------------------------------------------------
(* The ceiling on the body of a request *)

Refusal == <<"413", "body413">>
Sendable == {"start", "body", "413", "body413"}

\* What the client was sent: nothing, the refusal, or the answer of the application.
AnswerBegun ==
    /\ Len(sent) > 0 /\ sent[1] = "start"
    /\ \A i \in 2..Len(sent) : sent[i] = "body"

Limited ==
    /\ Bodies!TypeOK /\ sent \in Seq(Sendable) /\ received + left <= MaxBody
    /\ ~(started /\ replaced)
    /\ app \in {"new", "runs", "raised"} => sent = <<>> /\ ~started /\ ~replaced
    /\ app \in {"answers", "raising"} => started \/ replaced
    /\ started => AnswerBegun
    /\ replaced => sent = Refusal
    /\ started /\ tooLarge => early
    /\ ~started => sent \in {<<>>, Refusal}

LEMMA BodyConstants ==
    MaxBytes \in Nat /\ MaxBody \in Nat /\ Chunk \subseteq Nat
BY PartsAssumption DEF Bodies!BodyLimitAssumption

LEMMA InitLimited == Bodies!Init => Limited
<1> SUFFICES ASSUME Bodies!Init PROVE Limited
  OBVIOUS
<1>1. /\ left \in 0..MaxBody /\ declared \in {-1, left} /\ received = 0 /\ handed = 0
      /\ started = FALSE /\ tooLarge = FALSE /\ replaced = FALSE /\ app = "new" /\ sent = <<>>
      /\ early = FALSE
  BY DEF Bodies!Init
<1>2. sent \in Seq(Sendable) /\ \A i \in DOMAIN sent : sent[i] \in Sendable
  BY <1>1
<1>3. declared \in -1..MaxBody /\ 0 \in 0..MaxBody /\ 0 \in 0..MaxBytes /\ 0 + left <= MaxBody
  BY <1>1, BodyConstants
<1>4. Bodies!TypeOK
  BY <1>1, <1>2, <1>3 DEF Bodies!TypeOK, Sendable
<1> QED BY <1>1, <1>2, <1>3, <1>4 DEF Limited

\* The answers begun by a step.
LEMMA Refuses ==
    ASSUME sent = <<>>, Bodies!Refuse
    PROVE  sent' = Refusal /\ sent' \in Seq(Sendable)
BY DEF Bodies!Refuse, Refusal, Sendable

LEMMA NextLimited == ASSUME Limited, [Bodies!Next]_bodies PROVE Limited'
<1>0. /\ sent \in Seq(Sendable) /\ Bodies!TypeOK /\ started \in BOOLEAN /\ replaced \in BOOLEAN
      /\ left \in 0..MaxBody /\ received \in 0..MaxBody /\ handed \in 0..MaxBytes
  BY DEF Limited, Bodies!TypeOK
<1>1. CASE Bodies!Enter
  <2>1. CASE declared > MaxBytes
    <3>1. sent' = Refusal /\ sent' \in Seq(Sendable)
      BY <1>1, <2>1, Refuses DEF Bodies!Enter, Limited
    <3> QED BY <1>0, <1>1, <2>1, <3>1
            DEF Bodies!Enter, Bodies!Counters, Limited, Bodies!TypeOK, Refusal
  <2>2. CASE ~(declared > MaxBytes)
    BY <1>0, <1>1, <2>2 DEF Bodies!Enter, Bodies!Counters, Limited, Bodies!TypeOK
  <2> QED BY <2>1, <2>2
<1>2. CASE Bodies!Receive
  <2>1. PICK n \in Chunk :
          /\ n <= left /\ left' = left - n /\ received' = received + n
          /\ IF received + n > MaxBytes
             THEN tooLarge' = TRUE /\ UNCHANGED handed
                  /\ early' = (IF tooLarge THEN early ELSE started)
                  /\ app' = IF app = "answers" THEN "raising" ELSE "raised"
             ELSE UNCHANGED <<tooLarge, early>> /\ handed' = received + n /\ UNCHANGED app
    BY <1>2 DEF Bodies!Receive
  <2>2. n \in Nat
    BY BodyConstants
  <2>3. /\ left' \in 0..MaxBody /\ received' \in 0..MaxBody /\ received' + left' <= MaxBody
        /\ handed' \in 0..MaxBytes /\ tooLarge' \in BOOLEAN /\ early' \in BOOLEAN
        /\ started /\ tooLarge' => early'
    <3>1. /\ left' \in 0..MaxBody /\ received' \in 0..MaxBody
          /\ received' + left' <= MaxBody /\ received + n \in Nat
      BY <1>0, <2>1, <2>2, BodyConstants DEF Limited
    <3>2. CASE received + n > MaxBytes
      <4>1. tooLarge' = TRUE /\ early' = (IF tooLarge THEN early ELSE started) /\ UNCHANGED handed
        BY <2>1, <3>2
      <4>2. early \in BOOLEAN /\ (started /\ tooLarge => early)
        BY DEF Limited, Bodies!TypeOK
      <4> QED BY <1>0, <3>1, <4>1, <4>2
    <3>3. CASE ~(received + n > MaxBytes)
      <4>1. handed' \in 0..MaxBytes
        BY <2>1, <3>1, <3>3, BodyConstants
      <4>2. /\ UNCHANGED <<tooLarge, early>> /\ tooLarge \in BOOLEAN /\ early \in BOOLEAN
            /\ started /\ tooLarge => early
        BY <1>0, <2>1, <3>3 DEF Limited, Bodies!TypeOK
      <4> QED BY <3>1, <4>1, <4>2
    <3> QED BY <3>2, <3>3
  <2>4. /\ app \in {"runs", "raised", "answers"} /\ UNCHANGED <<declared, started, replaced, sent>>
        /\ app' \in {"runs", "raised", "answers", "raising"}
        /\ app' \in {"runs", "raised"} <=> app \in {"runs", "raised"}
    BY <1>2, <2>1 DEF Bodies!Receive
  <2> QED BY <1>0, <2>3, <2>4 DEF Limited, Bodies!TypeOK, AnswerBegun
<1>3. CASE Bodies!Start
  <2>1. CASE tooLarge
    <3>1. sent' = Refusal /\ sent' \in Seq(Sendable)
      BY <1>3, <2>1, Refuses DEF Bodies!Start, Limited
    <3> QED BY <1>0, <1>3, <2>1, <3>1
            DEF Bodies!Start, Bodies!Counters, Limited, Bodies!TypeOK, Refusal
  <2>2. CASE ~tooLarge
    <3>1. sent' = <<"start">> /\ sent' \in Seq(Sendable)
      BY <1>3, <2>2 DEF Bodies!Start, Limited, Sendable
    <3>2. AnswerBegun'
      BY <3>1 DEF AnswerBegun
    <3>3. /\ app' = "answers" /\ started' = TRUE /\ replaced = FALSE
          /\ UNCHANGED <<replaced, declared, received, tooLarge, early, handed, left>>
      BY <1>0, <1>3, <2>2 DEF Bodies!Start, Bodies!Counters, Limited
    <3>4. \A i \in DOMAIN sent' : sent'[i] \in Sendable
      BY <3>1
    <3>5. Bodies!TypeOK'
      <4>1. /\ started' \in BOOLEAN /\ replaced' \in BOOLEAN /\ tooLarge' \in BOOLEAN
            /\ early' \in BOOLEAN
        BY <1>0, <3>3 DEF Bodies!TypeOK
      <4>2. /\ declared' \in -1..MaxBody /\ left' \in 0..MaxBody /\ received' \in 0..MaxBody
            /\ handed' \in 0..MaxBytes
        BY <1>0, <3>3 DEF Bodies!TypeOK
      <4> QED BY <3>3, <3>4, <4>1, <4>2 DEF Bodies!TypeOK, Sendable
    <3> QED BY <2>2, <3>1, <3>2, <3>3, <3>5 DEF Limited
  <2> QED BY <2>1, <2>2
<1>4. CASE Bodies!Body
  <2>1. CASE replaced
    BY <1>0, <1>4, <2>1
    DEF Bodies!Body, Bodies!Counters, Limited, Bodies!TypeOK, AnswerBegun
  <2>2. CASE ~replaced
    <3>1. sent' = Append(sent, "body") /\ AnswerBegun /\ started
      BY <1>4, <2>2 DEF Bodies!Body, Limited
    <3>2. sent' \in Seq(Sendable) /\ Len(sent') = Len(sent) + 1
          /\ \A i \in 1..Len(sent) : sent'[i] = sent[i]
          /\ sent'[Len(sent) + 1] = "body"
      BY <1>0, <3>1 DEF Sendable
    <3>3. AnswerBegun'
      BY <1>0, <3>1, <3>2 DEF AnswerBegun
    <3>4. UNCHANGED <<declared, started, replaced, app, received, tooLarge, early, handed, left>>
      BY <1>4 DEF Bodies!Body, Bodies!Counters
    <3> QED BY <1>0, <1>4, <2>2, <3>1, <3>2, <3>3, <3>4
            DEF Bodies!Body, Limited, Bodies!TypeOK, Sendable
  <2> QED BY <2>1, <2>2
<1>5. CASE Bodies!Done \/ Bodies!Swallow
  BY <1>0, <1>5
  DEF Bodies!Done, Bodies!Swallow, Bodies!Counters, Limited, Bodies!TypeOK, AnswerBegun
<1>6. CASE Bodies!Escape
  <2>1. CASE ~started /\ ~replaced
    <3>1. sent' = Refusal /\ sent' \in Seq(Sendable)
      BY <1>6, <2>1, Refuses DEF Bodies!Escape, Limited
    <3> QED BY <1>0, <1>6, <2>1, <3>1
            DEF Bodies!Escape, Bodies!Counters, Limited, Bodies!TypeOK, Refusal
  <2>2. CASE started \/ replaced
    BY <1>0, <1>6, <2>2
    DEF Bodies!Escape, Bodies!Counters, Limited, Bodies!TypeOK, AnswerBegun
  <2> QED BY <2>1, <2>2
<1>7. CASE UNCHANGED bodies
  BY <1>7 DEF bodies, Limited, Bodies!TypeOK, AnswerBegun
<1> QED BY <1>1, <1>2, <1>3, <1>4, <1>5, <1>6, <1>7 DEF Bodies!Next

LEMMA LimitedHolds ==
    ASSUME Limited
    PROVE  Bodies!TypeOK /\ Bodies!OneAnswer /\ Bodies!OverIsRefused
<1>1. CASE started
  <2>1. ~(tooLarge /\ ~early)
    BY <1>1 DEF Limited
  <2> QED BY <1>1, <2>1 DEF Limited, AnswerBegun, Bodies!OneAnswer, Bodies!OverIsRefused, Bodies!Starts
<1>2. CASE sent = <<>>
  BY <1>2 DEF Limited, Bodies!OneAnswer, Bodies!OverIsRefused, Bodies!Starts
<1>3. CASE sent = Refusal
  BY <1>3 DEF Limited, Refusal, Bodies!OneAnswer, Bodies!OverIsRefused, Bodies!Starts
<1> QED BY <1>1, <1>2, <1>3 DEF Limited

------------------------------------------------------------------------------
(* Captures of the serial console *)

Capturing == {"clean", "capture", "poll", "read"}
Steps == {"idle", "tags", "merge", "power", "switch", "guard", "kill", "end"} \cup Capturing

\* Captures are under way one at a time (Apart of MCEnds), and the one that is has a capture
\* of its own.
Captured ==
    /\ at \in [CaptureRequests -> Steps] /\ DOMAIN op = CaptureRequests
    /\ DOMAIN shot = CaptureRequests /\ DOMAIN shots = CaptureIds
    /\ \A r \in CaptureRequests :
          /\ at[r] \in Capturing => op[r] = "capture"
          /\ at[r] \in {"poll", "read"} => shot[r] \in CaptureIds
          /\ at[r] = "read" => shots[shot[r]] = "SUCCEEDED"
    /\ \A q, r \in CaptureRequests : at[q] \in Capturing /\ at[r] \in Capturing => q = r

LEMMA InitCaptured == Captures!Init => Captured
BY DEF Captures!Init, Captured, Capturing, Steps

\* Request r goes on; nobody else's step changes, and the captures do not.
LEMMA GoesCaptured ==
    ASSUME Captured, NEW r \in CaptureRequests, NEW step \in Steps, Captures!Go(r, step),
           UNCHANGED <<shots, op, shot>>, step \in Capturing => at[r] \in Capturing,
           step = "poll" => at[r] = "poll",
           step = "read" => at[r] = "poll" /\ shots[shot[r]] = "SUCCEEDED"
    PROVE  Captured'
<1>1. /\ at' \in [CaptureRequests -> Steps] /\ at'[r] = step
      /\ \A q \in CaptureRequests \ {r} : at'[q] = at[q]
  BY DEF Captured, Captures!Go
<1> QED BY <1>1 DEF Captured, Capturing

LEMMA BeginCaptured ==
    ASSUME Captured, NEW r \in CaptureRequests, NEW kind \in {"capture", "stop", "terminate"},
           Captures!Begin(r, kind)
    PROVE  Captured'
<1> DEFINE first == Captures!First(kind)
<1>1. /\ first \in {"clean", "power", "guard"} /\ (first = "clean" => kind = "capture")
  BY DEF Captures!First, Captures!TagKinds
<1>2. /\ at' = [at EXCEPT ![r] = first] /\ op' = [op EXCEPT ![r] = kind]
      /\ UNCHANGED <<shots, shot>>
      /\ kind = "capture" => \A q \in CaptureRequests : at[q] \in Capturing => op[q] # "capture"
  BY DEF Captures!Begin, Captures!Busy, Capturing
<1> HIDE DEF first
<1>3. /\ at' \in [CaptureRequests -> Steps] /\ at'[r] = first /\ op'[r] = kind
      /\ DOMAIN op' = CaptureRequests
      /\ \A q \in CaptureRequests \ {r} : at'[q] = at[q] /\ op'[q] = op[q]
  BY <1>1, <1>2 DEF Captured, Steps, Capturing
<1> QED BY <1>1, <1>2, <1>3 DEF Captured, Capturing

LEMMA StepCaptured ==
    ASSUME Captured, NEW r \in CaptureRequests, Captures!Step(r) \/ Captures!Fails(r)
    PROVE  Captured'
<1>0. /\ at \in [CaptureRequests -> Steps]
      /\ \A q \in CaptureRequests \ {r} : at[r] \in Capturing => at[q] \notin Capturing
  BY DEF Captured
<1>1. CASE Captures!Fails(r)
  BY <1>1, GoesCaptured DEF Captures!Fails, Steps, Capturing
<1>2. CASE Captures!ReadTags(r) \/ Captures!WriteTags(r)
  BY <1>2, GoesCaptured DEF Captures!ReadTags, Captures!WriteTags, Steps, Capturing
<1>3. CASE Captures!CheckPower(r) \/ Captures!Switch(r)
  BY <1>3, GoesCaptured DEF Captures!CheckPower, Captures!Switch, Steps, Capturing
<1>4. CASE Captures!Guard(r) \/ Captures!Terminate(r)
  BY <1>4, GoesCaptured DEF Captures!Guard, Captures!Terminate, Steps, Capturing
<1>5. CASE Captures!Clean(r)
  <2>1. /\ at[r] = "clean" /\ at' = [at EXCEPT ![r] = "capture"] /\ UNCHANGED <<op, shot>>
        /\ DOMAIN shots' = CaptureIds
    BY <1>5 DEF Captures!Clean, Captures!Go
  <2>2. /\ at' \in [CaptureRequests -> Steps] /\ at'[r] = "capture"
        /\ \A q \in CaptureRequests \ {r} : at'[q] = at[q]
    BY <1>0, <2>1 DEF Steps, Capturing
  <2> QED BY <1>0, <2>1, <2>2 DEF Captured, Capturing
<1>6. CASE Captures!Capture(r)
  <2>1. PICK c \in CaptureIds : /\ shots' = [shots EXCEPT ![c] = "REQUESTED"]
                                /\ shot' = [shot EXCEPT ![r] = c]
    BY <1>6 DEF Captures!Capture
  <2>2. at[r] = "capture" /\ at' = [at EXCEPT ![r] = "poll"] /\ UNCHANGED op
    BY <1>6 DEF Captures!Capture, Captures!Go
  <2>3. /\ at' \in [CaptureRequests -> Steps] /\ at'[r] = "poll" /\ shot'[r] = c
        /\ DOMAIN shots' = CaptureIds /\ DOMAIN shot' = CaptureRequests
        /\ \A q \in CaptureRequests \ {r} : at'[q] = at[q] /\ shot'[q] = shot[q]
    BY <1>0, <2>1, <2>2 DEF Captured, Steps, Capturing
  <2> QED BY <1>0, <2>2, <2>3 DEF Captured, Capturing
<1>7. CASE Captures!Poll(r)
  <2>1. PICK step \in {"read", "poll", "end"} :
          /\ Captures!Go(r, step) /\ at[r] = "poll" /\ UNCHANGED <<shots, op, shot>>
          /\ step = "read" => shots[shot[r]] = "SUCCEEDED"
    BY <1>7 DEF Captures!Poll
  <2> QED BY <2>1, GoesCaptured DEF Steps, Capturing
<1>8. CASE Captures!ReadShot(r)
  BY <1>8, GoesCaptured DEF Captures!ReadShot, Steps, Capturing
<1> QED BY <1>1, <1>2, <1>3, <1>4, <1>5, <1>6, <1>7, <1>8 DEF Captures!Step

LEMMA NextCaptured == ASSUME Captured, [Captures!Next]_instance PROVE Captured'
<1>1. ASSUME NEW c \in CaptureIds, Captures!Finish(c) PROVE Captured'
  <2>1. PICK s : shots' = [shots EXCEPT ![c] = s]
    BY <1>1 DEF Captures!Finish
  <2>2. shots[c] = "REQUESTED" /\ UNCHANGED <<at, op, shot>>
    BY <1>1 DEF Captures!Finish
  <2> QED BY <2>1, <2>2 DEF Captured
<1>2. CASE UNCHANGED instance
  BY <1>2 DEF instance, Captured
<1> QED BY <1>1, <1>2, StepCaptured, BeginCaptured DEF Captures!Next

------------------------------------------------------------------------------
(* The parts together *)

PartsWhole ==
    /\ part = "migration" => Migrated
    /\ part = "bodies" => Limited
    /\ part = "captures" => Captured

LEMMA InitPartsWhole == PartInit => PartsWhole
<1> SUFFICES ASSUME PartInit PROVE PartsWhole
  OBVIOUS
<1>1. /\ part = "migration" => Migration!Init
      /\ part = "bodies" => Bodies!Init
      /\ part = "captures" => Captures!Init
  BY DEF PartInit
<1> QED BY <1>1, InitMigrated, InitLimited, InitCaptured DEF PartsWhole

LEMMA NextPartsWhole == ASSUME PartsWhole, [PartNext]_all PROVE PartsWhole'
<1>1. /\ UNCHANGED part
      /\ part = "migration" => [Migration!Next]_migration
      /\ part = "bodies" => [Bodies!Next]_bodies
      /\ part = "captures" => [Captures!Next]_instance
  BY DEF PartNext, all
<1> QED BY <1>1, NextMigrated, NextLimited, NextCaptured DEF PartsWhole

\* Nothing is taken for whole that is not, whatever crashes, for any number of programs
\* started at once, any ceiling on bodies and any client, and any number of captures asked
\* for one at a time.
THEOREM NothingIsHalf == PartSpec => []NothingHalf
<1>1. PartsWhole => NothingHalf
  BY MigratedHolds, LimitedHolds
  DEF PartsWhole, NothingHalf, TypesHold, Captured, Captures!ReadsFinished
<1>2. PartsWhole /\ [PartNext]_all => PartsWhole'
  BY NextPartsWhole
<1> QED BY <1>1, <1>2, InitPartsWhole, PTL DEF PartSpec

==============================================================================
