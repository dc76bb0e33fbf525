------------------------------ MODULE MCEstate ------------------------------
(***************************************************************************)
(* What is kept: the tenants and what is remembered of them, their backup  *)
(* and restore, the files of the desktop program and its scheduler.  The   *)
(* components share no state: a behaviour is of one part.                  *)
(***************************************************************************)
EXTENDS TLC, Sequences

CONSTANTS
    None, t1, t2, t3, q1, q2, k1, k2,   \* tenants, requests, API keys
    i1, i2, i3, i4,                     \* ids of restored rows, and of the desktop program
    ann, bob, cid,
    FileIds,                            \* of its tenants, with their names, files and archives
    TornNames, TornFiles, TornArchives, WholeNames, WholeFiles, WholeArchives,
    Tenants, MaxAttempts, Interval,             \* of the scheduler of the desktop program,
    Retries, Newest, TenantOf, Backoff,         \* of its jobs in the part "ticks",
    LaterRetries, LaterNewest, LaterTenantOf,   \* and of those in the part "next day"
    LaterBackoff, Jitter, Schedules, TimeOfDay, Day,
    Users, Bodies, Foreign,                     \* who restores, and archives of any make
    ArchiveIds, FirstRows,                      \* ids of tenants that are restored, or there at first
    TenantIds, KeptIds, KeptKeys,               \* ids of the tenants of the other parts
    Requests, Accounts, Keys, Regions, HomeOf, MaxBegun

VARIABLES
    part,  \* the part this behaviour is of
    row, unused, default, kept, at, op, id, seen, kids, wish, used, begun,
    restoredRow, restoredUnused, archive, named, step, user, inserted, fresh, idMap,
    parentOf, skipped,
    file, secret, up, fernet, tenants, active, filesUnused, import, last, dirty, deleted,
    hour, obj, retries, ran, disk, pc, since, busy, busyTenants, busySchedules, tick, todo,
    size, runnerActive, fired, erred

TwoHomes == ("acme" :> "tokyo") @@ ("bolt" :> "osaka")

\* Archives that this panel did not write: two items with equal or dangling ids.
Items(good, free) ==
    [id: {i1, i2, None}, parent: {i1, i2, None}, body: {"x"}, good: {good}, free: {free},
     protected: {FALSE}]
Linked(x, p) ==
    [id |-> x, parent |-> p, body |-> "x", good |-> TRUE, free |-> "on", protected |-> FALSE]
Chains == {<<Linked(i1, i2), Linked(i2, i3), Linked(i3, p)>> : p \in {None, i1}}
Strange ==
    {<<a, b>> : a \in Items(TRUE, "absent"), b \in Items(TRUE, "off") \cup Items(FALSE, "on")}
        \cup Chains

\* Files of the desktop program: whole, or with entries that no start can read.
Of(x, name, form) == [id |-> x, name |-> name, seal |-> 1, form |-> form]
Whole ==
    {<<Of(x, ann, "good"), Of(i1, bob, "good")>> : x \in {i1, None}}
        \cup {<<Of(None, ann, "good"), Of(i1, bob, "good"), Of(i1, ann, "good")>>}
Torn == {<<Of(i1, ann, "good"), Of(i2, bob, "bad")>>, <<Of(i1, ann, "bad"), Of(i1, bob, "good")>>,
         <<Of(None, ann, "good"), Of(i2, bob, "bad")>>}
Bundles(name) ==
    {<<[id |-> i1, name |-> name, good |-> TRUE], [id |-> i2, name |-> bob, good |-> g]>> :
       g \in BOOLEAN}
BundlesOfBob == Bundles(bob)
BundlesOfCid == Bundles(cid)

TwoOfAnn == [r \in {"old", "new"} |-> "ann"]
OneOfAnn == [r \in {"old"} |-> "ann"]
NewFirst == <<"new", "old">>
JustOld == <<"old">>
AtOne == [s \in {"office"} |-> 1]

Interchangeable == Permutations({t1, t2, t3}) \cup Permutations({q1, q2}) \cup Permutations({k1, k2})

\* Rows are made, linked, edited and deleted.
Rows == INSTANCE Tenants WITH
    Ids <- TenantIds, Alone <- {"edit", "delete"}, EditsChildren <- FALSE

\* Queries overlap with an edit or with a new region no more than the code lets them.
Facts == INSTANCE Tenants WITH
    Ids <- TenantIds, Alone <- {"edit", "delete", "subscribe"}, EditsChildren <- FALSE

\* Everything overlaps.
Kept == INSTANCE Tenants WITH
    Ids <- KeptIds, Keys <- KeptKeys, Alone <- {}, EditsChildren <- TRUE

\* An archive of this panel, imported by its owner or by another user.
Own == INSTANCE Restore WITH
    Ids <- ArchiveIds, First <- FirstRows, Foreign <- {}, row <- restoredRow, unused <- restoredUnused

\* Archives of any make.
Other == INSTANCE Restore WITH
    Ids <- ArchiveIds, First <- {}, row <- restoredRow, unused <- restoredUnused

\* Files with entries that cannot be read; the secret may be lost.
Ragged == INSTANCE DesktopStore WITH
    Ids <- FileIds, Names <- TornNames, Files <- TornFiles, Archives <- TornArchives,
    Faults <- {"crash", "secret"}, unused <- filesUnused

\* Files whose ids are missing or taken twice.
Sound == INSTANCE DesktopStore WITH
    Ids <- FileIds, Names <- WholeNames, Files <- WholeFiles, Archives <- WholeArchives,
    Faults <- {"crash", "save"}, unused <- filesUnused

\* Two jobs of one tenant, stopped and deleted while they run.
Ticks == INSTANCE DesktopRunner WITH
    Schedules <- {}, At <- <<>>, Day <- 1, Jitter <- 0,
    Ops <- {"add", "stop", "delete"}, Faults <- {"raise"}, active <- runnerActive

\* A job and a schedule; the program is started again and its file is not always written.
Again == INSTANCE DesktopRunner WITH
    Retries <- LaterRetries, Newest <- LaterNewest, TenantOf <- LaterTenantOf,
    At <- TimeOfDay, Backoff <- LaterBackoff, Ops <- {"stop"}, Faults <- {"restart", "save"},
    active <- runnerActive

\* The variables of a part that the behaviour is not of.
Off(v) == v = "off"
TenantRowsOff ==
    /\ Off(row) /\ Off(unused) /\ Off(default) /\ Off(kept) /\ Off(at) /\ Off(op)
    /\ Off(id) /\ Off(seen) /\ Off(kids) /\ Off(wish) /\ Off(used) /\ Off(begun)
RestoredOff ==
    /\ Off(restoredRow) /\ Off(restoredUnused) /\ Off(archive) /\ Off(named) /\ Off(step)
    /\ Off(user) /\ Off(inserted) /\ Off(fresh) /\ Off(idMap) /\ Off(parentOf)
    /\ Off(skipped)
FilesOff ==
    /\ Off(file) /\ Off(secret) /\ Off(up) /\ Off(fernet) /\ Off(tenants) /\ Off(active)
    /\ Off(filesUnused) /\ Off(import) /\ Off(last) /\ Off(dirty) /\ Off(deleted)
RunnerOff ==
    /\ Off(hour) /\ Off(obj) /\ Off(retries) /\ Off(ran) /\ Off(disk) /\ Off(pc)
    /\ Off(since) /\ Off(busy) /\ Off(busyTenants) /\ Off(busySchedules) /\ Off(tick)
    /\ Off(todo) /\ Off(size) /\ Off(runnerActive) /\ Off(fired) /\ Off(erred)

tenantRows == <<row, unused, default, kept, at, op, id, seen, kids, wish, used, begun>>
restored == <<restoredRow, restoredUnused, archive, named, step, user, inserted, fresh,
                idMap, parentOf, skipped>>
files == <<file, secret, up, fernet, tenants, active, filesUnused, import, last, dirty,
             deleted>>
runner == <<hour, obj, retries, ran, disk, pc, since, busy, busyTenants, busySchedules,
              tick, todo, size, runnerActive, fired, erred>>

all == <<part, tenantRows, restored, files, runner>>

PartInit ==
    \/ part = "rows" /\ Rows!Init /\ RestoredOff /\ FilesOff /\ RunnerOff
    \/ part = "facts" /\ Facts!Init /\ RestoredOff /\ FilesOff /\ RunnerOff
    \/ part = "sessions" /\ Kept!Init /\ RestoredOff /\ FilesOff /\ RunnerOff
    \/ part = "own archive" /\ Own!Init /\ TenantRowsOff /\ FilesOff /\ RunnerOff
    \/ part = "strange archive" /\ Other!Init /\ TenantRowsOff /\ FilesOff /\ RunnerOff
    \/ part = "torn" /\ Ragged!Init /\ TenantRowsOff /\ RestoredOff /\ RunnerOff
    \/ part = "whole" /\ Sound!Init /\ TenantRowsOff /\ RestoredOff /\ RunnerOff
    \/ part = "ticks" /\ Ticks!Init /\ TenantRowsOff /\ RestoredOff /\ FilesOff
    \/ part = "next day" /\ Again!Init /\ TenantRowsOff /\ RestoredOff /\ FilesOff

PartNext ==
    \/ part = "rows" /\ Rows!Next /\ UNCHANGED <<part, restored, files, runner>>
    \/ part = "facts" /\ Facts!Next /\ UNCHANGED <<part, restored, files, runner>>
    \/ part = "sessions" /\ Kept!Next /\ UNCHANGED <<part, restored, files, runner>>
    \/ part = "own archive" /\ Own!Next /\ UNCHANGED <<part, tenantRows, files, runner>>
    \/ part = "strange archive" /\ Other!Next /\ UNCHANGED <<part, tenantRows, files, runner>>
    \/ part = "torn" /\ Ragged!Next /\ UNCHANGED <<part, tenantRows, restored, runner>>
    \/ part = "whole" /\ Sound!Next /\ UNCHANGED <<part, tenantRows, restored, runner>>
    \/ part = "ticks" /\ Ticks!Next /\ UNCHANGED <<part, tenantRows, restored, files>>
    \/ part = "next day" /\ Again!Next /\ UNCHANGED <<part, tenantRows, restored, files>>

PartSpec == PartInit /\ [][PartNext]_all

-----------------------------------------------------------------------------
ASSUME PartsAssumption ==
    /\ Rows!TenantsAssumption /\ Facts!TenantsAssumption /\ Kept!TenantsAssumption
    /\ Own!RestoreAssumption /\ Other!RestoreAssumption
    /\ Ragged!StoreAssumption /\ Sound!StoreAssumption
    /\ \A f \in WholeFiles : \A n \in DOMAIN f : f[n].form = "good" /\ f[n].seal = 1
    /\ Ticks!RunnerAssumption /\ Again!RunnerAssumption

\* Every variable has its type.
TypesHold ==
    /\ part = "rows" => Rows!TypeOK
    /\ part = "facts" => Facts!TypeOK
    /\ part = "sessions" => Kept!TypeOK
    /\ part = "own archive" => Own!TypeOK
    /\ part = "strange archive" => Other!TypeOK
    /\ part = "torn" => Ragged!TypeOK
    /\ part = "whole" => Sound!TypeOK
    /\ part = "ticks" => Ticks!TypeOK
    /\ part = "next day" => Again!TypeOK

\* Rows that are linked have one account and one key, the primary row is there, and so is
\* the default tenant; no session is kept of a deleted row, and none is used that is of an
\* earlier one; what is remembered of an account is of that account, on all of its rows.
RowsBelong ==
    /\ part = "rows" => Rows!OneKey /\ Rows!NoOrphans /\ Rows!DefaultExists /\ Rows!Forgotten
    /\ part = "facts" => Facts!FactsAreTheirs /\ Facts!FactsAgree
    /\ part = "sessions" => Kept!UseIsFresh

\* A restore comes back with its links, counts every item, and leaves links and guards
\* sound even if somebody else wrote the archive.
RestoredWell ==
    /\ part = "own archive" => Own!Faithful
    /\ part = "strange archive" => Other!Accounted /\ Other!LinksStay /\ Other!StaysGuarded

\* The active tenant of the desktop program is one there is, and what was saved or
\* repaired is what the next start shows, but for the id of an entry that has none in the file.
FileSticks ==
    /\ TypesHold
    /\ part = "torn" => Ragged!ActiveIsThere
    /\ part = "whole" => Sound!Sticks

\* No step makes a row go silently: a protected row or its primary is not deleted, an export
\* names what it leaves out, a start shows all that can be read, and entries leave the file
\* by a deletion only.  Nor does one make a secondary row, which the free allowance is not
\* checked for, in the home region.
NothingGoesSilently ==
    [][ /\ part = "rows" => Rows!ProtectedStays /\ Rows!HomeHasAllowance
        /\ part = "own archive" => Own!NothingSilent
        /\ part = "torn" => Ragged!NoneShadowed
        /\ part = "whole" => Sound!NothingErased
      ]_all

\* The scheduler launches one thing at a time for a tenant, fires a schedule once a day
\* across restarts, and nothing stays marked as busy that no thread works on.
OneAtATime ==
    /\ part = "ticks" => Ticks!Serial /\ Ticks!NothingStuck
    /\ part = "next day" => Again!OnceADay

\* No attempt begins before the cool-down that the file knows of is over, across restarts.
CooldownLasts == [][part = "next day" => Again!CooldownKept]_all
=============================================================================
