------------------------------- MODULE MCEnds -------------------------------
(***************************************************************************)
(* What must happen in the end, and what must be whole when it has: the    *)
(* components of the other runs, under fairness.  They share no state: a   *)
(* behaviour is of one part, which never changes, so that one formula can  *)
(* ask every part for what it promises.                                    *)
(***************************************************************************)
EXTENDS Integers, Sequences, TLC

CONSTANTS
    None,
    MaxBytes, Chunk, MaxBody,                    \* of the bodies
    Procs, MaxCrashes,                           \* of the migration
    CaptureRequests, CaptureIds, CapturePolls    \* of the captures

VARIABLES
    part,  \* the part this behaviour is of
    declared, left, received, started, tooLarge, replaced, app, early, handed, sent,
    userSlots, instanceSlots, session, gone, told, remote, revoked,
    db, cache, pins, lock, req, bansTold, undone, ops, faults,
    mem, shared, status, run, made, page, done, clicks, metadataFaults,
    pub, job, thr, asker, agreed, asks, addressesFaults,
    priv, meta, imds, guestReq, card, hand, record, sync, guestLock, reqs, edits,
    guestFaults,
    hour, obj, retries, ran, disk, pc, since, busy, busyTenants, busySchedules, tick, todo,
    size, active, fired, erred,
    source, sealed, damaged, dest, migrationPc, staging, used, crashes,
    state, tags, shots, at, op, had, shot, polls, shield, under,
    row, updateReq, updateJob, worker, locked, box, code, build, updateCrashes

\* Two threads of an API process, and another process that has visitors.
Where == [r \in {"r1", "r2", "r3"} |-> IF r = "r3" THEN "other" ELSE "api"]
Banned == ("r1" :> {"visit"}) @@ ("r2" :> {"ban", "unban"}) @@ ("r3" :> {"visit"})
Saved == ("r2" :> {"ban", "unban", "save"}) @@ ("r3" :> {"visit"})

\* Bodies below, at and above the ceiling, declared and chunked.
Bodies == INSTANCE BodyLimit

\* Shells that stop reading their input for a while.
Shells == INSTANCE WebSsh WITH
    Sessions <- {1, 2}, Users <- {"ann"}, Instances <- {"box"},
    Owned <- [u \in {"ann"} |-> {"box"}], MaxPerUser <- 1, MaxPerInstance <- 1,
    MayStall <- TRUE, Reads <- TRUE

\* Two processes with visitors; one of them also bans and unbans.
Bans == INSTANCE IpBan WITH
    Process <- {"api", "other"}, Key <- {"k"}, Allowed <- {}, Request <- {"r1", "r2", "r3"},
    ProcessOf <- Where, Serves <- Banned, Rules <- {}, MaxOps <- 2, MaxFaults <- 1,
    Faults <- {"crash"}, NoOne <- "no one", told <- bansTold

\* One that also saves a rule that bans, and another with visitors.
Rules == INSTANCE IpBan WITH
    Process <- {"api", "other"}, Key <- {"k"}, Allowed <- {}, Request <- {"r2", "r3"},
    ProcessOf <- [r \in {"r2", "r3"} |-> Where[r]], Serves <- Saved, Rules <- {{"k"}},
    MaxOps <- 2, MaxFaults <- 1, Faults <- {"db", "lost", "crash"}, NoOne <- "no one",
    told <- bansTold

\* A page over two processes that fail and die.
Metadata == INSTANCE LaunchMeta WITH
    Process <- {1, 2}, Page <- {"page"}, Key <- {"key"}, TTL <- 2, MaxEntries <- 1,
    MaxClicks <- 1, MaxFaults <- 2, Forced <- BOOLEAN,
    Faults <- {"fetch", "share", "status", "crash", "clear"}, faults <- metadataFaults

\* Rotations that overlap and die, and somebody else who binds addresses.
Rotations == INSTANCE IpRotation WITH
    Private <- {"a"}, Asker <- {"page", "script"}, Thread <- {1, 2}, Selections <- {{"a"}},
    MaxPub <- 4, Quota <- 4, Bound <- [p \in {"a"} |-> 1],
    Checked <- [q \in {"page", "script"} |-> q = "page"], MaxAsks <- 2, MaxFaults <- 1,
    Many <- 1, Faults <- {"unbound", "slow", "save", "crash", "take", "move"},
    faults <- addressesFaults

\* One run of the script after the other, every failure but a kill.
Guest == INSTANCE IpSync WITH
    Addr <- {"a", "b"}, Request <- {"r"}, Sync <- {"timer", "install"}, Room <- 2,
    Apart <- TRUE, MaxReqs <- 2, MaxEdits <- 0, MaxFaults <- 1,
    Faults <- {"oracle", "ip", "reboot"}, req <- guestReq, lock <- guestLock,
    faults <- guestFaults

\* Two jobs of one tenant.
Runner == INSTANCE DesktopRunner WITH
    Tenants <- {"ann"}, Retries <- {1, 2}, Newest <- <<2, 1>>,
    TenantOf <- [r \in {1, 2} |-> "ann"], Schedules <- {}, At <- <<>>, Day <- 1,
    MaxAttempts <- 2, Interval <- 1, Jitter <- 0, Backoff <- 0, Ops <- {}, Faults <- {}

\* Two programs that are started at once, and die.
Migration == INSTANCE DataMigration WITH
    pc <- migrationPc

\* Console captures, of an instance that is stopped meanwhile.
Captures == INSTANCE InstanceOps WITH
    Requests <- CaptureRequests, Captures <- CaptureIds, Polls <- CapturePolls,
    Ops <- {"capture", "stop", "terminate"}, Apart <- {"capture"}, Answers <- {TRUE}

\* An update that fails anywhere, and the page of an administrator that polls.
Updates == INSTANCE SelfUpdate WITH
    Process <- {"api"}, Request <- {"r"}, ProcessOf <- [r \in {"r"} |-> "api"],
    MaxRuns <- 1, MaxCrashes <- 1, Pg <- TRUE, NoOne <- None, Kinds <- {"apply", "status"},
    FirstRow <- {"absent", "settled", "unreported"},
    Faults <- {"prepare", "detach", "created", "prune"}, req <- updateReq, job <- updateJob,
    crashes <- updateCrashes

\* The variables of a part that the behaviour is not of.
Off(v) == v = "off"
BodiesOff ==
    /\ Off(declared) /\ Off(left) /\ Off(received) /\ Off(started) /\ Off(tooLarge)
    /\ Off(replaced) /\ Off(app) /\ Off(early) /\ Off(handed) /\ Off(sent)
ShellsOff ==
    /\ Off(userSlots) /\ Off(instanceSlots) /\ Off(session) /\ Off(gone) /\ Off(told)
    /\ Off(remote) /\ Off(revoked)
BansOff ==
    /\ Off(db) /\ Off(cache) /\ Off(pins) /\ Off(lock) /\ Off(req) /\ Off(bansTold)
    /\ Off(undone) /\ Off(ops) /\ Off(faults)
MetadataOff ==
    /\ Off(mem) /\ Off(shared) /\ Off(status) /\ Off(run) /\ Off(made) /\ Off(page)
    /\ Off(done) /\ Off(clicks) /\ Off(metadataFaults)
AddressesOff ==
    /\ Off(pub) /\ Off(job) /\ Off(thr) /\ Off(asker) /\ Off(agreed)
    /\ Off(asks) /\ Off(addressesFaults)
GuestOff ==
    /\ Off(priv) /\ Off(meta) /\ Off(imds) /\ Off(guestReq) /\ Off(card) /\ Off(hand)
    /\ Off(record) /\ Off(sync) /\ Off(guestLock) /\ Off(reqs) /\ Off(edits)
    /\ Off(guestFaults)
RunnerOff ==
    /\ Off(hour) /\ Off(obj) /\ Off(retries) /\ Off(ran) /\ Off(disk) /\ Off(pc)
    /\ Off(since) /\ Off(busy) /\ Off(busyTenants) /\ Off(busySchedules) /\ Off(tick)
    /\ Off(todo) /\ Off(size) /\ Off(active) /\ Off(fired) /\ Off(erred)
MigrationOff ==
    /\ Off(source) /\ Off(sealed) /\ Off(damaged) /\ Off(dest) /\ Off(migrationPc)
    /\ Off(staging) /\ Off(used) /\ Off(crashes)
InstanceOff ==
    /\ Off(state) /\ Off(tags) /\ Off(shots) /\ Off(at) /\ Off(op) /\ Off(had)
    /\ Off(shot) /\ Off(polls) /\ Off(shield) /\ Off(under)
UpdateOff ==
    /\ Off(row) /\ Off(updateReq) /\ Off(updateJob) /\ Off(worker) /\ Off(locked)
    /\ Off(box) /\ Off(code) /\ Off(build) /\ Off(updateCrashes)

bodies == <<declared, left, received, started, tooLarge, replaced, app, early, handed, sent>>
shells == <<userSlots, instanceSlots, session, gone, told, remote, revoked>>
bans == <<db, cache, pins, lock, req, bansTold, undone, ops, faults>>
metadata == <<mem, shared, status, run, made, page, done, clicks, metadataFaults>>
addresses == <<pub, job, thr, asker, agreed, asks, addressesFaults>>
guest == <<priv, meta, imds, guestReq, card, hand, record, sync, guestLock, reqs, edits,
             guestFaults>>
runner == <<hour, obj, retries, ran, disk, pc, since, busy, busyTenants, busySchedules,
              tick, todo, size, active, fired, erred>>
migration == <<source, sealed, damaged, dest, migrationPc, staging, used, crashes>>
instance == <<state, tags, shots, at, op, had, shot, polls, shield, under>>
update == <<row, updateReq, updateJob, worker, locked, box, code, build, updateCrashes>>

all == <<part, bodies, shells, bans, metadata, addresses, guest, runner, migration, instance, update>>

PartInit ==
    \/ /\ part = "bodies" /\ Bodies!Init
       /\ ShellsOff /\ BansOff /\ MetadataOff /\ AddressesOff /\ GuestOff /\ RunnerOff /\ MigrationOff /\ InstanceOff /\ UpdateOff
    \/ /\ part = "shells" /\ Shells!Init
       /\ BodiesOff /\ BansOff /\ MetadataOff /\ AddressesOff /\ GuestOff /\ RunnerOff /\ MigrationOff /\ InstanceOff /\ UpdateOff
    \/ /\ part = "bans" /\ Bans!Init
       /\ BodiesOff /\ ShellsOff /\ MetadataOff /\ AddressesOff /\ GuestOff /\ RunnerOff /\ MigrationOff /\ InstanceOff /\ UpdateOff
    \/ /\ part = "rules" /\ Rules!Init
       /\ BodiesOff /\ ShellsOff /\ MetadataOff /\ AddressesOff /\ GuestOff /\ RunnerOff /\ MigrationOff /\ InstanceOff /\ UpdateOff
    \/ /\ part = "metadata" /\ Metadata!Init
       /\ BodiesOff /\ ShellsOff /\ BansOff /\ AddressesOff /\ GuestOff /\ RunnerOff /\ MigrationOff /\ InstanceOff /\ UpdateOff
    \/ /\ part = "rotations" /\ Rotations!Init
       /\ BodiesOff /\ ShellsOff /\ BansOff /\ MetadataOff /\ GuestOff /\ RunnerOff /\ MigrationOff /\ InstanceOff /\ UpdateOff
    \/ /\ part = "guest" /\ Guest!Init
       /\ BodiesOff /\ ShellsOff /\ BansOff /\ MetadataOff /\ AddressesOff /\ RunnerOff /\ MigrationOff /\ InstanceOff /\ UpdateOff
    \/ /\ part = "runner" /\ Runner!Init
       /\ BodiesOff /\ ShellsOff /\ BansOff /\ MetadataOff /\ AddressesOff /\ GuestOff /\ MigrationOff /\ InstanceOff /\ UpdateOff
    \/ /\ part = "migration" /\ Migration!Init
       /\ BodiesOff /\ ShellsOff /\ BansOff /\ MetadataOff /\ AddressesOff /\ GuestOff /\ RunnerOff /\ InstanceOff /\ UpdateOff
    \/ /\ part = "captures" /\ Captures!Init
       /\ BodiesOff /\ ShellsOff /\ BansOff /\ MetadataOff /\ AddressesOff /\ GuestOff /\ RunnerOff /\ MigrationOff /\ UpdateOff
    \/ /\ part = "updates" /\ Updates!Init
       /\ BodiesOff /\ ShellsOff /\ BansOff /\ MetadataOff /\ AddressesOff /\ GuestOff /\ RunnerOff /\ MigrationOff /\ InstanceOff

PartNext ==
    \/ /\ part = "bodies" /\ Bodies!Next
       /\ UNCHANGED <<part, shells, bans, metadata, addresses, guest, runner, migration, instance, update>>
    \/ /\ part = "shells" /\ Shells!Next
       /\ UNCHANGED <<part, bodies, bans, metadata, addresses, guest, runner, migration, instance, update>>
    \/ /\ part = "bans" /\ Bans!Next
       /\ UNCHANGED <<part, bodies, shells, metadata, addresses, guest, runner, migration, instance, update>>
    \/ /\ part = "rules" /\ Rules!Next
       /\ UNCHANGED <<part, bodies, shells, metadata, addresses, guest, runner, migration, instance, update>>
    \/ /\ part = "metadata" /\ Metadata!Next
       /\ UNCHANGED <<part, bodies, shells, bans, addresses, guest, runner, migration, instance, update>>
    \/ /\ part = "rotations" /\ Rotations!Next
       /\ UNCHANGED <<part, bodies, shells, bans, metadata, guest, runner, migration, instance, update>>
    \/ /\ part = "guest" /\ Guest!Next
       /\ UNCHANGED <<part, bodies, shells, bans, metadata, addresses, runner, migration, instance, update>>
    \/ /\ part = "runner" /\ Runner!Next
       /\ UNCHANGED <<part, bodies, shells, bans, metadata, addresses, guest, migration, instance, update>>
    \/ /\ part = "migration" /\ Migration!Next
       /\ UNCHANGED <<part, bodies, shells, bans, metadata, addresses, guest, runner, instance, update>>
    \/ /\ part = "captures" /\ Captures!Next
       /\ UNCHANGED <<part, bodies, shells, bans, metadata, addresses, guest, runner, migration, update>>
    \/ /\ part = "updates" /\ Updates!Next
       /\ UNCHANGED <<part, bodies, shells, bans, metadata, addresses, guest, runner, migration, instance>>

PartSpec == PartInit /\ [][PartNext]_all

-----------------------------------------------------------------------------
ASSUME PartsAssumption ==
    /\ Migration!MigrationAssumption
    /\ Bodies!BodyLimitAssumption /\ Shells!WebSshAssumption /\ Bans!IpBanAssumption
    /\ Rules!IpBanAssumption
    /\ Metadata!LaunchMetaAssumption /\ Rotations!IpRotationAssumption
    /\ Guest!IpSyncAssumption /\ Runner!RunnerAssumption /\ Captures!InstanceOpsAssumption
    /\ Updates!UpdateAssumption

\* Every variable has its type.
TypesHold ==
    /\ part = "bodies" => Bodies!TypeOK
    /\ part = "migration" => Migration!TypeOK

\* Nothing changes but the variables of part x.
Only(x) ==
    /\ x # "bodies" => UNCHANGED bodies
    /\ x # "shells" => UNCHANGED shells
    /\ x \notin {"bans", "rules"} => UNCHANGED bans
    /\ x # "metadata" => UNCHANGED metadata
    /\ x # "rotations" => UNCHANGED addresses
    /\ x # "guest" => UNCHANGED guest
    /\ x # "runner" => UNCHANGED runner
    /\ x # "migration" => UNCHANGED migration
    /\ x # "captures" => UNCHANGED instance
    /\ x # "updates" => UNCHANGED update
    /\ part = x /\ UNCHANGED part

\* The fairness that the modules state: the n-th weakly fair action of each part, and the
\* n-th strongly fair one.  A behaviour is of one part, so that WF of the alternatives is
\* WF of its own.
Weak(n) ==
    \/ /\ part = "bodies" /\ n = 1
       /\ Bodies!Enter \/ (Bodies!Unstalled /\ Bodies!Start) \/ Bodies!Done \/ Bodies!Escape
       /\ Only("bodies")
    \/ /\ part = "shells"
       /\ \E s \in {1, 2} : \/ n = s /\ Shells!Own(s)
                            \/ n = 2 + s /\ Shells!PumpEnds(s)
                            \/ n = 4 + s /\ Shells!WatchRevoked(s)
                            \/ n = 6 + s /\ Shells!Resumes(s)
       /\ Only("shells")
    \/ /\ part = "bans"
       /\ \/ n = 1 /\ Bans!Visit("r1", "k")
          \/ n = 2 /\ Bans!Visit("r3", "k")
          \/ n = 3 /\ Bans!CacheAges("api")
          \/ n = 4 /\ Bans!CacheAges("other")
          \/ n = 5 /\ Bans!PinAges("api", "k")
          \/ n = 6 /\ Bans!PinAges("other", "k")
       /\ Only("bans")
    \/ /\ part = "rules"
       /\ \/ n = 2 /\ Rules!Visit("r3", "k")
          \/ n = 3 /\ Rules!CacheAges("api")
          \/ n = 4 /\ Rules!CacheAges("other")
          \/ n = 5 /\ Rules!PinAges("api", "k")
          \/ n = 6 /\ Rules!PinAges("other", "k")
       /\ Only("rules")
    \/ /\ part = "metadata"
       /\ \/ n \in {1, 2} /\ Metadata!Work(n, "key")
          \/ n = 3 /\ Metadata!Asks("page")
       /\ Only("metadata")
    \/ /\ part = "rotations"
       /\ \/ n \in 1..4 /\ Rotations!Settle(n)
          \/ n \in {5, 6} /\ Rotations!Work(n - 4)
          \/ n \in {7, 8} /\ Rotations!TimesOut(n - 6)
          \/ n = 9 /\ Rotations!GoStale
       /\ Only("rotations")
    \/ /\ part = "guest"
       /\ \/ n = 1 /\ Guest!Asks("r")
          \/ n = 2 /\ Guest!Propagate
          \/ n = 3 /\ Guest!Runs("timer")
          \/ n = 4 /\ Guest!Runs("install")
       /\ Only("guest")
    \/ /\ part = "runner"
       /\ \/ n \in {1, 2} /\ Runner!Thread(n)
          \/ n = 3 /\ Runner!Elapse
          \/ n = 4 /\ Runner!Window
       /\ Only("runner")
    \/ part = "migration" /\ n \in Procs /\ Migration!Starts(n) /\ Only("migration")
    \/ part = "captures" /\ n \in CaptureRequests /\ Captures!Step(n) /\ Only("captures")
    \/ /\ part = "updates"
       /\ \/ n = 1 /\ Updates!Serves("r")
          \/ n = 2 /\ Updates!JobNext(1)
          \/ n = 3 /\ Updates!HelperExits
          \/ n = 4 /\ Updates!RecoveryExits
       /\ Only("updates")

Strong(n) ==
    \/ part = "shells" /\ n \in {1, 2} /\ Shells!Drained(n) /\ Only("shells")
    \/ /\ part = "bans" /\ \/ n = 1 /\ Bans!Work("r1")
                           \/ n = 2 /\ Bans!Work("r2")
                           \/ n = 3 /\ Bans!Work("r3")
       /\ Only("bans")
    \/ /\ part = "rules" /\ \/ n = 2 /\ Rules!Work("r2")
                            \/ n = 3 /\ Rules!Work("r3")
       /\ Only("rules")
    \/ part = "metadata" /\ n = 1 /\ Metadata!Tick /\ Only("metadata")
    \/ /\ part = "guest" /\ n = 1 /\ Guest!Lock("timer") /\ Only("guest")
    \/ /\ part = "guest" /\ n = 2 /\ Guest!Lock("install") /\ Only("guest")
    \/ /\ part = "updates" /\ \/ n = 1 /\ Updates!Polls("r")
                              \/ n = 2 /\ Updates!Age
       /\ Only("updates")

FairSpec == PartSpec /\ (\A n \in 1..9 : WF_all(Weak(n))) /\ (\A n \in 1..3 : SF_all(Strong(n)))

\* Every request whose body is sent is answered, every session that has lost its user, browser or shell ends,
\* and so does every rotation and every capture.
Begun(i) ==
    \/ part = "bodies" /\ Bodies!Asked
    \/ part = "shells" /\ Shells!Doomed(i)
    \/ part = "rotations" /\ Rotations!Live(i)
    \/ part = "captures" /\ at[i] = "poll"
Over(i) ==
    \/ part = "bodies" /\ Bodies!Starts # {}
    \/ part = "shells" /\ Shells!At(i, "done")
    \/ part = "rotations" /\ ~Rotations!Live(i)
    \/ part = "captures" /\ at[i] = "end"
RequestsEnd == Begun(1) ~> Over(1)

\* Nothing waits for ever: a connection that is said to be closed is not open, a page gets
\* its metadata and an instance its next rotation although the thread before has died, a
\* job has its turn, an update is reported on, and sound data are migrated, whoever dies.
Waits(i) ==
    \/ part = "shells" /\ i \in told /\ session[i].ssh
    \/ part = "metadata" /\ Metadata!Forsaken("key")
    \/ part = "rotations" /\ Rotations!KeptOut
    \/ part = "runner" /\ Runner!Untried(i)
    \/ part = "migration" /\ Migration!AllOff
    \/ part = "updates" /\ Updates!Unreported
Served(i) == IF part = "migration" THEN Migration!Settled ELSE ~Waits(i)
NobodyWaits == Waits(1) ~> Served(1)

\* Copies agree with what they are copies of: the bans of every process with the database,
\* the addresses on the card with the list and those configured by hand.
CopiesAgree ==
    <>[](/\ part = "bans" => Bans!InStep
         /\ part = "rules" => Rules!InStep
         /\ part = "guest" => Guest!CardRight)

\* Nothing is taken for whole that is not: a program begins with all earlier data or with
\* none, and can open them; an answer is one answer, and once a body has passed the
\* ceiling none begins but the refusal; a capture that is read is finished.
NothingHalf ==
    /\ TypesHold
    /\ part = "migration" => Migration!AllOrNothing /\ Migration!Opens /\ Migration!NotReplaced
    /\ part = "bodies" => Bodies!OneAnswer /\ Bodies!OverIsRefused
    /\ part = "captures" => Captures!ReadsFinished
=============================================================================
