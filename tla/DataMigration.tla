--------------------------- MODULE DataMigration ---------------------------
(***************************************************************************)
(* The start of the portable edition (app/runtime_paths.py): the data of   *)
(* an earlier installation are copied to a staging directory beside the    *)
(* new data directory, looked at, and put in its place by one rename.      *)
(* The program may be started twice at the same time and die at any step.  *)
(*                                                                         *)
(* A directory is the set of its files, None when it is absent.  The file  *)
(* "own" stands for what a running program writes.                         *)
(***************************************************************************)
EXTENDS Naturals, FiniteSets

CONSTANTS Procs, None, MaxCrashes

DataFiles == {"tenants", "jobs", "secret"}

MigrationAssumption ==
    MaxCrashes \in Nat /\ \A files \in SUBSET (DataFiles \cup {"own"}) : files # None

VARIABLES
    source,     \* the files of the legacy directory
    sealed,     \* its tenants have keys, sealed with its secret
    damaged,    \* the files of it that cannot be read
    dest,       \* the data directory
    pc,         \* of every process
    staging,    \* the staging directory of a process
    used,       \* a program wrote to the data directory
    crashes

vars == <<source, sealed, damaged, dest, pc, staging, used, crashes>>

TypeOK ==
    /\ source \subseteq DataFiles /\ damaged \subseteq source /\ sealed \in BOOLEAN
    /\ dest = None \/ dest \subseteq DataFiles \cup {"own"}
    /\ pc \in [Procs -> {"off", "starts", "copies", "installs", "clears", "renames", "ready", "runs", "refused"}]
    /\ \A p \in Procs : staging[p] = None \/ staging[p] \subseteq DataFiles
    /\ used \in BOOLEAN /\ crashes \in 0..MaxCrashes

Init ==
    /\ source \in SUBSET DataFiles /\ damaged \in SUBSET source
    /\ sealed \in {b \in BOOLEAN : b => "tenants" \in source}
    /\ dest \in {None, {}} /\ used = FALSE /\ crashes = 0
    /\ pc = [p \in Procs |-> "off"] /\ staging = [p \in Procs |-> None]

Goes(p, from, to) == pc[p] = from /\ pc' = [pc EXCEPT ![p] = to]
Legacy == <<source, sealed, damaged, crashes>>

----------------------------------------------------------------------------
\* prepare_runtime_data.
Begin(p) == Goes(p, "off", "starts") /\ UNCHANGED <<Legacy, dest, staging, used>>

\* The data directory has something in it, or there is nothing to migrate.
NotNeeded(p) ==
    /\ Goes(p, "starts", "ready") /\ (source = {} \/ dest \notin {None, {}})
    /\ UNCHANGED <<Legacy, dest, staging, used>>

CopyInPlace(p) == \* mutant: the files are copied to the data directory itself
    /\ pc[p] = "starts" /\ source # {} /\ dest \in {None, {}}
    /\ \E f \in source : dest' = {f} /\ staging' = [staging EXCEPT ![p] = {f}]
    /\ pc' = [pc EXCEPT ![p] = "copies"] /\ UNCHANGED <<Legacy, used>>

Stage(p) ==
    /\ source # {} /\ dest \in {None, {}}
    /\ Goes(p, "starts", "copies") /\ staging' = [staging EXCEPT ![p] = {}]
    /\ UNCHANGED <<Legacy, dest, used>>

Copy(p) ==
    /\ pc[p] = "copies" /\ \E f \in source \ staging[p] : staging' = [staging EXCEPT ![p] = @ \cup {f}]
    /\ UNCHANGED <<Legacy, dest, pc, used>>

\* _default_validate_staging: both files are JSON, every key can be decrypted with the
\* secret that was copied (an absent one is created anew, and decrypts nothing).
Sound(files) ==
    /\ damaged \cap files \cap {"tenants", "jobs"} = {}
    /\ "tenants" \in files /\ sealed => "secret" \in files /\ "secret" \notin damaged

\* ConfigStore creates a secret where there is none.
Opened(files) == IF "tenants" \in files THEN files \cup {"secret"} ELSE files

Validate(p) ==
    /\ staging[p] = source
    /\ Sound(staging[p])
    /\ Goes(p, "copies", "installs") /\ staging' = [staging EXCEPT ![p] = Opened(@)]
    /\ UNCHANGED <<Legacy, dest, used>>

\* The exception removes the staging directory and ends the start.
Refuse(p) ==
    /\ staging[p] = source /\ ~Sound(staging[p])
    /\ Goes(p, "copies", "refused") /\ staging' = [staging EXCEPT ![p] = None]
    /\ UNCHANGED <<Legacy, dest, used>>

\* The data directory is looked at again.
Install(p) ==
    /\ \/ dest = None /\ Goes(p, "installs", "renames") /\ UNCHANGED staging
       \/ dest = {} /\ Goes(p, "installs", "clears") /\ UNCHANGED staging
       \/ dest \notin {None, {}} /\ Goes(p, "installs", "ready") /\ staging' = [staging EXCEPT ![p] = None]
    /\ UNCHANGED <<Legacy, dest, used>>

\* rmdir, which fails when there is something in it or it is gone.
Clear(p) ==
    /\ \/ dest = {} /\ Goes(p, "clears", "renames") /\ dest' = None /\ UNCHANGED staging
       \/ dest # {} /\ Goes(p, "clears", "refused") /\ staging' = [staging EXCEPT ![p] = None] /\ UNCHANGED dest
    /\ UNCHANGED <<Legacy, used>>

\* rename, which takes the place of an empty directory only.
Rename(p) ==
    /\ staging' = [staging EXCEPT ![p] = None]
    /\ \/ dest \in {None, {}} /\ Goes(p, "renames", "ready") /\ dest' = staging[p]
       \/ dest \notin {None, {}} /\ Goes(p, "renames", "refused") /\ UNCHANGED dest
    /\ UNCHANGED <<Legacy, used>>

\* ensure_writable_directory: mkdir, and a file that is written and removed.
EnsureWritable(p) ==
    /\ Goes(p, "ready", "runs") /\ dest' = (IF dest = None THEN {} ELSE dest)
    /\ UNCHANGED <<Legacy, staging, used>>

\* External: the program writes its own data.
Write(p) ==
    /\ pc[p] = "runs" /\ ~used /\ used' = TRUE /\ dest' = dest \cup {"own"}
    /\ UNCHANGED <<Legacy, pc, staging>>

\* The process ends; a staging directory that it leaves behind is not looked at again.
End(p) ==
    /\ Goes(p, "refused", "off") /\ UNCHANGED <<Legacy, dest, staging, used>>

Crash(p) ==
    /\ pc[p] # "off" /\ crashes < MaxCrashes /\ crashes' = crashes + 1
    /\ pc' = [pc EXCEPT ![p] = "off"] /\ staging' = [staging EXCEPT ![p] = None]
    /\ UNCHANGED <<source, sealed, damaged, dest, used>>

Starts(p) ==
    \/ Begin(p) \/ NotNeeded(p) \/ Stage(p) \/ Copy(p) \/ Validate(p) \/ Refuse(p)
    \/ Install(p) \/ Clear(p) \/ Rename(p) \/ EnsureWritable(p) \/ End(p)

Next == \E p \in Procs : Starts(p) \/ Write(p) \/ Crash(p)

Spec == Init /\ [][Next]_vars
FairSpec == Spec /\ \A p \in Procs : WF_vars(Starts(p))

----------------------------------------------------------------------------
Bad == damaged \cap {"tenants", "jobs"} # {} \/ (sealed /\ ("secret" \notin source \/ "secret" \in damaged))

\* A program runs with all of the earlier data or, when there were none, with none of them:
\* it never begins with a part, although processes die between any two steps.
AllOrNothing ==
    \A p \in Procs : pc[p] = "runs" => source \subseteq dest

\* What is migrated can be opened: its keys can be decrypted with the secret beside them.
Opens == dest # None /\ dest \cap {"tenants", "jobs"} # {} => ~Bad

\* Data that a program has written are not replaced by a second start.
NotReplaced == used => dest # None /\ "own" \in dest

\* Every start ends in a program that runs, or, when the data are damaged or another start
\* was faster, in a refusal; and sound data do get migrated. (NobodyWaits of MCEnds.)
AllOff == \A p \in Procs : pc[p] = "off"
Settled == Bad \/ source = {} \/ (dest # None /\ source \subseteq dest)
Migrated == AllOff ~> Settled
=============================================================================
