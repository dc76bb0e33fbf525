---------------------------- MODULE DesktopStore ----------------------------
(***************************************************************************)
(* ConfigStore (app/config_store.py): tenants in one JSON file whose       *)
(* private keys are sealed with a machine-local secret.  A name stands for *)
(* the credentials of a tenant; a seal is the number of the secret its key *)
(* was encrypted with.  One thread uses the store; it may die at any step, *)
(* files are edited by hand or lost between two starts.                    *)
(***************************************************************************)
EXTENDS Naturals, Sequences, FiniteSets

CONSTANTS
    Ids, Names, None,
    Files,          \* the files there may be at first (a set of sequences of entries)
    Archives,       \* what may be imported (a set of sequences of [id, name, good])
    Faults          \* of "crash", "save", "secret"

Entry == [id: Ids \cup {None}, name: Names, seal: 1..2, form: {"good", "bad"}]

StoreAssumption ==
    /\ None \notin Ids \cup Names
    /\ Files \subseteq Seq(Entry)
    /\ Archives \subseteq Seq([id: Ids, name: Names, good: BOOLEAN])

VARIABLES
    file,       \* tenants.json: [items, active]
    secret,     \* .secret, by its number
    up,         \* the program runs
    fernet,     \* the secret it works with
    tenants,    \* _tenants, in the order of the dictionary
    active,     \* _active_tenant_id
    unused,     \* ids that were not issued yet
    import,     \* items that are still to be imported
    last,       \* the id of the last one that was
    dirty,      \* memory is ahead of the file since a write failed
    deleted     \* the names the user deleted, for NothingErased

vars == <<file, secret, up, fernet, tenants, active, unused, import, last, dirty, deleted>>

IdsOf(t) == {t[n].id : n \in DOMAIN t}
NamesOf(t) == {t[n].name : n \in DOMAIN t}
\* How often every name occurs.
BagOfNames(t) == [x \in Names |-> Cardinality({n \in DOMAIN t : t[n].name = x})]
First(t) == IF t = <<>> THEN None ELSE t[1].id
\* What t has at the positions in S: the k-th of them is the one with k up to itself.
Picked(t, S) ==
    [k \in 1..Cardinality(S) |-> t[CHOOSE n \in S : Cardinality({m \in S : m <= n}) = k]]

TypeOK ==
    /\ \A n \in DOMAIN file.items : file.items[n] \in Entry
    /\ file.active \in Ids \cup {None} /\ secret \in 1..2 /\ fernet \in 1..2 /\ up \in BOOLEAN
    /\ \A n \in DOMAIN tenants : tenants[n] \in [id: Ids, name: Names]
    /\ \A n, m \in DOMAIN tenants : tenants[n].id = tenants[m].id => n = m
    /\ active \in Ids \cup {None} /\ unused \subseteq Ids /\ last \in Ids \cup {None} /\ dirty \in BOOLEAN
    /\ deleted \subseteq Names

Init ==
    /\ \E f \in Files, a \in Ids \cup {None} : file = [items |-> f, active |-> a]
    /\ unused = Ids \ (IdsOf(file.items) \cup {file.active})
    /\ secret = 1 /\ fernet = 1 /\ up = FALSE
    /\ tenants = <<>> /\ active = None /\ import = <<>> /\ last = None /\ dirty = FALSE
    /\ deleted = {}

----------------------------------------------------------------------------
\* save: the whole of memory, sealed anew, or an exception that leaves the old file.
Sealed(t, s) == [n \in DOMAIN t |-> [id |-> t[n].id, name |-> t[n].name, seal |-> s, form |-> "good"]]

Save(t, a, s) ==
    \/ file' = [items |-> Sealed(t, s), active |-> a] /\ dirty' = FALSE
    \/ "save" \in Faults /\ file' = file /\ dirty' = TRUE

\* Entries that load reads: of a form from_dict takes, sealed with the secret at hand.
Readable(s) ==
    Picked(file.items, {n \in DOMAIN file.items : file.items[n].form = "good" /\ file.items[n].seal = s})

\* from_dict: an entry without an id gets a new one, before load looks at it.
Missing(t, n) == t[n].id = None

\* An id that an earlier entry has taken is replaced by a new one.
Collides(t, n) == ~Missing(t, n) /\ \E m \in 1..(n - 1) : t[m].id = t[n].id

Renewed(t) == {n \in DOMAIN t : Missing(t, n) \/ Collides(t, n)}

Healed(t, ids) ==
    [n \in DOMAIN t |-> [id |-> IF n \in Renewed(t) THEN ids[n] ELSE t[n].id, name |-> t[n].name]]

\* The active tenant, when it is one that was read.
ActiveOf(t, a) == IF a \in IdsOf(t) THEN a ELSE First(t)

SaveNever(t, a, healed) == UNCHANGED file /\ dirty' = FALSE \* mutant: the repair is not saved

\* The repair is saved, a failure ignored; that an id was missing is not seen as one.
SaveHealed(t, a, healed) == IF healed THEN Save(t, a, secret) ELSE UNCHANGED file /\ dirty' = FALSE

\* A start: _build_fernet and load.
Start ==
    LET t == Readable(secret)
        new == Renewed(t) IN
    /\ ~up /\ up' = TRUE /\ fernet' = secret
    /\ \E ids \in [DOMAIN t -> unused \cup {None}] :
           /\ \A n \in DOMAIN t : n \in new <=> ids[n] # None
           /\ \A n, m \in new : ids[n] = ids[m] => n = m
           /\ tenants' = Healed(t, ids) /\ unused' = unused \ {ids[n] : n \in new}
    /\ active' = ActiveOf(tenants', file.active)
    /\ SaveHealed(tenants', active', \E n \in DOMAIN t : Collides(t, n))
    /\ import' = <<>> /\ last' = None /\ UNCHANGED <<secret, deleted>>

\* The program ends, at any step.
Stop ==
    /\ "crash" \in Faults /\ up /\ up' = FALSE
    /\ tenants' = <<>> /\ active' = None /\ import' = <<>> /\ last' = None
    /\ UNCHANGED <<file, secret, fernet, unused, dirty, deleted>>

\* .secret is lost while the program does not run; _machine_secret makes a new one.
LoseSecret ==
    /\ "secret" \in Faults /\ ~up /\ secret = 1 /\ secret' = 2
    /\ UNCHANGED <<file, up, fernet, tenants, active, unused, import, last, dirty, deleted>>

----------------------------------------------------------------------------
Idle == up /\ import = <<>> /\ last = None
Put(t, e) == IF e.id \in IdsOf(t) THEN [n \in DOMAIN t |-> IF t[n].id = e.id THEN e ELSE t[n]] ELSE Append(t, e)

\* upsert of a tenant that is valid; one without an id gets a new one.
Upsert(e, makeActive) ==
    /\ tenants' = Put(tenants, e)
    /\ active' = (IF makeActive \/ active = None THEN e.id ELSE active)
    /\ Save(tenants', active', fernet)
    /\ deleted' = deleted \ {e.name} /\ UNCHANGED <<secret, up, fernet>>

Create(name, makeActive) ==
    /\ Idle /\ name \notin NamesOf(tenants)
    /\ \E i \in unused : Upsert([id |-> i, name |-> name], makeActive) /\ unused' = unused \ {i}
    /\ UNCHANGED <<import, last>>

Edit(i, makeActive) ==
    /\ Idle /\ i \in IdsOf(tenants)
    /\ \E n \in DOMAIN tenants : tenants[n].id = i /\ Upsert(tenants[n], makeActive)
    /\ UNCHANGED <<unused, import, last>>

SetActive(i) ==
    /\ Idle /\ i \in IdsOf(tenants) /\ active' = i /\ Save(tenants, i, fernet)
    /\ UNCHANGED <<secret, up, fernet, tenants, unused, import, last, deleted>>

Without(t, i) == Picked(t, {n \in DOMAIN t : t[n].id # i})

\* The active tenant after a deletion.
ActiveAfter(i) == IF active = i THEN First(Without(tenants, i)) ELSE active

Delete(i) ==
    /\ Idle /\ i \in IdsOf(tenants)
    /\ tenants' = Without(tenants, i) /\ active' = ActiveAfter(i) /\ Save(tenants', active', fernet)
    /\ deleted' = deleted \cup {tenants[n].name : n \in {m \in DOMAIN tenants : tenants[m].id = i}}
    /\ UNCHANGED <<secret, up, fernet, unused, import, last>>

\* restore_from_encrypted_zip, import_from_file: item by item, then set_active.
Import(a) ==
    /\ Idle /\ import' = a
    /\ UNCHANGED <<file, secret, up, fernet, tenants, active, unused, last, dirty, deleted>>

\* import_from_dict: ids are issued anew.
ImportId(item) == unused

ImportOne ==
    /\ up /\ import # <<>> /\ Head(import).good
    /\ \E i \in ImportId(Head(import)) :
           /\ Upsert([id |-> i, name |-> Head(import).name], FALSE)
           /\ unused' = unused \ {i} /\ last' = i
    /\ import' = (IF dirty' THEN <<>> ELSE Tail(import))

\* The first item that is no good ends it; what was imported before stays.
ImportFails ==
    /\ up /\ import # <<>> /\ ~Head(import).good
    /\ import' = <<>> /\ last' = None
    /\ UNCHANGED <<file, secret, up, fernet, tenants, active, unused, dirty, deleted>>

ImportEnds ==
    /\ up /\ import = <<>> /\ last # None /\ last' = None
    /\ \/ ~dirty /\ active' = last /\ Save(tenants, last, fernet)
       \/ dirty /\ UNCHANGED <<active, file, dirty>>     \* save had raised
    /\ UNCHANGED <<secret, up, fernet, tenants, unused, import, deleted>>

Next ==
    \/ Start \/ Stop \/ LoseSecret \/ ImportOne \/ ImportFails \/ ImportEnds
    \/ \E n \in Names, b \in BOOLEAN : Create(n, b)
    \/ \E i \in Ids : Edit(i, TRUE) \/ Edit(i, FALSE) \/ SetActive(i) \/ Delete(i)
    \/ \E a \in Archives : Import(a)

----------------------------------------------------------------------------
\* There is an active tenant exactly when there is a tenant, and it is one of them, also
\* after the active one was deleted, could not be read or got another id.
ActiveIsThere == up => IF tenants = <<>> THEN active = None ELSE active \in IdsOf(tenants)

\* Nobody is shadowed: a start shows every tenant of the file it can read
\* ("distinct accounts could not be switched between").
NoneShadowed == ~up /\ up' => BagOfNames(tenants') = BagOfNames(Readable(secret))

\* What was saved, ids that were taken twice included, is what the next start shows
\* ("so the fix sticks across restarts"): every tenant in its place and under its name, with
\* the id it has in the file, and the same of them active.
Sticks ==
    LET t == Readable(secret) IN
    up /\ ~dirty =>
        /\ DOMAIN t = DOMAIN tenants
        /\ \A n \in DOMAIN t : t[n].name = tenants[n].name /\ t[n].id \in {tenants[n].id, None}
        /\ ActiveOf(tenants, file.active) = active

\* That the ids stick as well, which is false: one that the file lacks is made up at every
\* start and saved at none, until something else is.
IdsStick == up /\ ~dirty => None \notin IdsOf(Readable(secret))

\* An entry leaves the file by a deletion only, the ones that a start skips included
\* ("Skip corrupt entry instead of failing entire startup").
NothingErased == NamesOf(file.items) \ NamesOf(file'.items) \subseteq deleted'
=============================================================================
