------------------------------ MODULE Restore ------------------------------
(***************************************************************************)
(* Backup and restore of tenants (web/backend/routers/backup.py).  An      *)
(* export writes the rows whose key can be decrypted and names the others; *)
(* an import reads an archive of this panel, or another one, item by item: *)
(* an item that is no good is skipped, one that the database refuses is    *)
(* rolled back to its savepoint, and one commit ends it.  Ids are issued   *)
(* anew, so the links of secondary rows are made in a second pass.  A body *)
(* stands for the credentials and the texts of a tenant.                   *)
(***************************************************************************)
EXTENDS Naturals, Sequences, FiniteSets, SequencesExt

CONSTANTS
    Users, Ids, Bodies, None,
    First,          \* ids of the rows there are at first
    Foreign         \* archives that this panel did not write (a set of sequences of items)

Item == [id: Ids \cup {None}, parent: Ids \cup {None}, body: Bodies, good: BOOLEAN,
         free: {"on", "off", "absent"}, protected: BOOLEAN]

Row == [owner: Users, body: Bodies, parent: Ids \cup {None}, free: BOOLEAN, protected: BOOLEAN,
        key: {"good", "lost"}]

RestoreAssumption ==
    /\ IsFiniteSet(Ids) /\ First \subseteq Ids /\ None \notin Ids \cup Row
    /\ Foreign \subseteq Seq(Item)

VARIABLES
    row,        \* the table, None where no row is
    unused,     \* ids that were not issued yet
    archive,    \* the file at hand
    named,      \* the rows the file says are missing
    step,       \* of the import: "none", "reads", "linked", "told"
    user,       \* who imports
    inserted,   \* rows of the open transaction
    fresh,      \* for every item that was read: the id it got, or None
    idMap,      \* id_map: archive id -> new id
    parentOf,   \* parent_of: new id -> archive id of the primary
    skipped     \* RestoreResult.skipped

vars == <<row, unused, archive, named, step, user, inserted, fresh, idMap, parentOf, skipped>>

TypeOK ==
    /\ row \in [Ids -> Row \cup {None}] /\ unused \subseteq Ids
    /\ \A n \in DOMAIN archive : archive[n] \in Item
    /\ named \subseteq Bodies /\ step \in {"none", "reads", "linked", "told"} /\ user \in Users
    /\ \A i \in DOMAIN inserted : i \in Ids /\ inserted[i] \in Row
    /\ \A n \in DOMAIN fresh : fresh[n] \in Ids \cup {None}
    /\ \A k \in DOMAIN idMap : k \in Ids /\ idMap[k] \in Ids
    /\ \A k \in DOMAIN parentOf : k \in Ids /\ parentOf[k] \in Ids
    /\ skipped \in Nat

Here == {i \in Ids : row[i] # None}
Owned(u) == {i \in Here : row[i].owner = u}

\* A family: every parent is a primary row of the same user.
Proper(t) ==
    \A i \in {j \in Ids : t[j] # None} : t[i].parent # None =>
        LET p == t[t[i].parent] IN p # None /\ p.owner = t[i].owner /\ p.parent = None /\ t[i].parent # i

Init ==
    /\ \E t \in [First -> Row] :
           /\ \A i, j \in First : i # j => t[i].body # t[j].body
           /\ row = [i \in Ids |-> IF i \in First THEN t[i] ELSE None]
    /\ unused = Ids \ First
    /\ Proper(row)
    /\ archive = <<>> /\ named = {} /\ step = "none" /\ user \in Users /\ inserted = <<>>
    /\ fresh = <<>> /\ idMap = <<>> /\ parentOf = <<>> /\ skipped = 0

Import == <<step, user, inserted, fresh, idMap, parentOf, skipped>>

----------------------------------------------------------------------------
ItemOf(i) ==
    [id |-> i, parent |-> row[i].parent, body |-> row[i].body, good |-> TRUE,
     free |-> IF row[i].free THEN "on" ELSE "off", protected |-> row[i].protected]

\* The list in the README of the archive, in the header of the answer and in the audit trail.
Named(S) == {row[i].body : i \in S}

\* export_encrypted_zip; the order of the rows is that of their names.
Export(u) ==
    LET lost == {i \in Owned(u) : row[i].key = "lost"} IN
    /\ step = "none" /\ Owned(u) \ lost # {}
    /\ \E order \in SetToSeqs(Owned(u) \ lost) : archive' = [n \in DOMAIN order |-> ItemOf(order[n])]
    /\ named' = Named(lost) /\ user' = u
    /\ UNCHANGED <<row, unused, step, inserted, fresh, idMap, parentOf, skipped>>

\* An archive from elsewhere is uploaded.
Upload(a) ==
    /\ step = "none" /\ archive = <<>> /\ archive' = a
    /\ UNCHANGED <<row, unused, named, Import>>

\* A row is deleted with its secondary rows, by the user, before the import or after it.
Delete(i) ==
    /\ i \in Here /\ ~row[i].protected /\ step \in {"none", "told"}
    /\ \A k \in Here : row[k].parent = i => ~row[k].protected
    /\ row' = [j \in Ids |-> IF j = i \/ (row[j] # None /\ row[j].parent = i) THEN None ELSE row[j]]
    /\ UNCHANGED <<unused, archive, named, Import>>

\* import_encrypted_zip, once the file is open and its items are a list.
Begin(u) ==
    /\ step = "none" /\ archive # <<>>
    /\ step' = "reads" /\ user' = u /\ inserted' = <<>> /\ fresh' = <<>>
    /\ idMap' = <<>> /\ parentOf' = <<>> /\ skipped' = 0
    /\ UNCHANGED <<row, unused, archive, named>>

Next1 == Len(fresh) + 1
At(n) == step = "reads" /\ n = Next1 /\ n <= Len(archive)

\* _skip
Skip ==
    /\ skipped' = skipped + 1 /\ fresh' = Append(fresh, None)
    /\ UNCHANGED <<row, unused, archive, named, step, user, inserted, idMap, parentOf>>

\* Not an object, unreadable, invalid, or a field that is too long.
NoGood == /\ At(Next1) /\ ~archive[Next1].good /\ Skip

\* free_only_mode of the row; archives of earlier versions do not have it.
FreeOnly(item) == item.free # "off"

NewRow(item) ==
    [owner |-> user, body |-> item.body, parent |-> None, free |-> FreeOnly(item),
     protected |-> item.protected, key |-> "good"]

\* With(f, k, v): a dictionary after an assignment.
With(f, k, v) == [x \in DOMAIN f \cup {k} |-> IF x = k THEN v ELSE f[x]]

\* An INSERT inside its savepoint.
Insert ==
    /\ At(Next1) /\ archive[Next1].good
    /\ LET item == archive[Next1] IN
       \E i \in unused :
           /\ inserted' = With(inserted, i, NewRow(item)) /\ unused' = unused \ {i}
           /\ fresh' = Append(fresh, i)
           /\ idMap' = IF item.id # None THEN With(idMap, item.id, i) ELSE idMap
           /\ parentOf' = IF item.parent # None THEN With(parentOf, i, item.parent) ELSE parentOf
    /\ UNCHANGED <<row, archive, named, step, user, skipped>>

\* The database refuses it: back to the savepoint.
Refused == /\ At(Next1) /\ archive[Next1].good /\ Skip

ParentBefore(i) == \* mutant: links are made as the rows are read
    LET k == IF i \in DOMAIN parentOf THEN parentOf[i] ELSE None
        nr == CHOOSE n \in DOMAIN fresh : fresh[n] = i
    IN  IF \E n \in 1..nr - 1 : archive[n].id = k /\ fresh[n] # None
        THEN fresh[CHOOSE n \in 1..nr - 1 : archive[n].id = k /\ fresh[n] # None] ELSE None

\* The second pass: the primary row must have been imported and be another row.
Parent(i) ==
    IF i \in DOMAIN parentOf /\ parentOf[i] \in DOMAIN idMap /\ idMap[parentOf[i]] # i
    THEN idMap[parentOf[i]] ELSE None

Link ==
    /\ step = "reads" /\ Len(fresh) = Len(archive) /\ step' = "linked"
    /\ inserted' = [i \in DOMAIN inserted |-> [inserted[i] EXCEPT !.parent = Parent(i)]]
    /\ UNCHANGED <<row, unused, archive, named, user, fresh, idMap, parentOf, skipped>>

\* The commit, the audit trail and the answer.
Commit ==
    /\ step = "linked" /\ step' = "told"
    /\ row' = [i \in Ids |-> IF i \in DOMAIN inserted THEN inserted[i] ELSE row[i]]
    /\ UNCHANGED <<unused, archive, named, user, inserted, fresh, idMap, parentOf, skipped>>

\* The process dies, or the commit fails: nothing was restored, and it may be tried again.
Crash ==
    /\ step \in {"reads", "linked"} /\ step' = "none"
    /\ inserted' = <<>> /\ fresh' = <<>> /\ idMap' = <<>> /\ parentOf' = <<>> /\ skipped' = 0
    /\ UNCHANGED <<row, unused, archive, named, user>>

Next ==
    \/ \E u \in Users : Export(u) \/ Begin(u)
    \/ \E a \in Foreign : Upload(a)
    \/ \E i \in Ids : Delete(i)
    \/ NoGood \/ Insert \/ Refused \/ Link \/ Commit \/ Crash

Spec == Init /\ [][Next]_vars

----------------------------------------------------------------------------
\* Every item is either a row or counted as skipped, and none is both.
Accounted ==
    step \in {"linked", "told"} =>
        /\ Cardinality(DOMAIN inserted) + skipped = Len(archive)
        /\ DOMAIN inserted = {fresh[n] : n \in DOMAIN fresh} \ {None}

\* Its primary row was restored as a secondary one itself: the import does not look whether
\* the row that an item names hangs off another one.
Chained(i) ==
    i \in DOMAIN inserted /\ inserted[i].parent \in DOMAIN inserted
        /\ inserted[inserted[i].parent].parent # None

\* A secondary row, restored or not, never hangs off itself, and as long as its primary row
\* is no secondary one, that row is there and is one of the same user.
LinksStay ==
    \A i \in Here : row[i].parent # None =>
        /\ row[i].parent # i
        /\ row[i].parent \in Here => row[row[i].parent].owner = row[i].owner
        /\ row[i].parent \notin Here => Chained(i)

\* What an archive of this panel holds comes back with its links, in whatever order it holds
\* the rows, as far as the rows came back.
Faithful ==
    (step = "linked" /\ \A n, m \in DOMAIN archive : archive[n].id = archive[m].id => n = m) =>
        \A n, m \in DOMAIN archive : fresh[n] # None =>
            (fresh[m] # None /\ m # n /\ archive[n].id # None /\ archive[m].parent = archive[n].id
                => inserted[fresh[m]].parent = fresh[n])

\* The free allowance stays guarded unless the archive says otherwise, and a protection is kept.
StaysGuarded ==
    \A n \in DOMAIN fresh : fresh[n] # None =>
        /\ archive[n].free # "off" => inserted[fresh[n]].free
        /\ inserted[fresh[n]].protected = archive[n].protected

\* An export leaves no row of its user out without naming it.
NothingSilent ==
    archive' # archive /\ archive' \notin Foreign =>
           {row[i].body : i \in Owned(user')} = {archive'[n].body : n \in DOMAIN archive'} \cup named'
=============================================================================
