------------------------------ MODULE Tenants ------------------------------
(***************************************************************************)
(* The tenants of one user (web/backend/routers/tenants.py): a primary row *)
(* and the rows of the secondary regions of its Oracle account, which copy *)
(* its credentials; what is remembered of the account on all of them; the  *)
(* protection against deletion; and the sessions with Oracle that the      *)
(* process keeps for the rows (oci_bridge.py, SessionManager).  A request  *)
(* reads its rows, may wait for Oracle, and writes: other requests run in  *)
(* between, unless their operations are in Alone.  Facts stands for the    *)
(* tier, the upgrade state and the home region: the account they are of.   *)
(***************************************************************************)
EXTENDS Naturals, FiniteSets

CONSTANTS
    Ids, Requests, Accounts, Keys, Regions, None,
    HomeOf,         \* the home region of each account
    Alone,          \* operations that run while no other request does (an assumption of a run)
    MaxBegun,       \* bound: requests in a run
    EditsChildren   \* whether a secondary row is edited too

Ops == {"use", "query", "edit", "subscribe", "delete"}

Row == [acct: Accounts, key: Keys, region: Regions, parent: Ids \cup {None},
        protected: BOOLEAN, facts: Accounts \cup {None}]

TenantsAssumption ==
    /\ HomeOf \in [Accounts -> Regions]
    /\ Alone \subseteq Ops /\ EditsChildren \in BOOLEAN
    /\ MaxBegun \in Nat /\ None \notin Ids \cup Accounts \cup Row

VARIABLES
    row,        \* the rows of the table, None where there is none
    unused,     \* ids that were not given out yet
    default,    \* users.locked_tenant_id
    kept,       \* SessionManager._sessions: the config each was made of, or None
    at, op,     \* of each request: its next step, and its operation
    id, seen,   \* the row it is about, and the row it read (its ORM object)
    kids,       \* the children it read, with their rows
    wish,       \* the row after the edit, the region to subscribe to, or the ids to delete
    used,       \* the session it works with
    begun       \* requests so far

vars == <<row, unused, default, kept, at, op, id, seen, kids, wish, used, begun>>
Request == <<at, op, id, seen, kids, wish, used>>

Config == [acct: Accounts, key: Keys, region: Regions, facts: Accounts \cup {None}]

TypeOK ==
    /\ row \in [Ids -> Row \cup {None}] /\ unused \subseteq Ids /\ default \in Ids \cup {None}
    /\ kept \in [Ids -> Config \cup {None}]
    /\ at \in [Requests -> {"idle", "oracle", "write", "drop"}]
    /\ op \in [Requests -> Ops] /\ id \in [Requests -> Ids \cup {None}]
    /\ seen \in [Requests -> Row \cup {None}] /\ used \in [Requests -> Config \cup {None}]
    /\ \A r \in Requests : DOMAIN kids[r] \subseteq Ids /\ \A i \in DOMAIN kids[r] : kids[r][i] \in Row

Here == {i \in Ids : row[i] # None}
ChildrenOf(i) == {k \in Here : row[k].parent = i}

Init ==
    /\ \E p \in Ids, first \in Row :
           /\ first.parent = None /\ ~first.protected /\ first.facts = None
           /\ row = [i \in Ids |-> IF i = p THEN first ELSE None] /\ unused = Ids \ {p}
    /\ default = None /\ kept = [i \in Ids |-> None]
    /\ at = [r \in Requests |-> "idle"] /\ op = [r \in Requests |-> "use"]
    /\ id = [r \in Requests |-> None] /\ seen = [r \in Requests |-> None]
    /\ kids = [r \in Requests |-> <<>>] /\ wish = [r \in Requests |-> None]
    /\ used = [r \in Requests |-> None] /\ begun = 0

\* SessionManager._fp
Fingerprint(w) == [acct |-> w.acct, key |-> w.key, region |-> w.region, facts |-> w.facts]

\* tenant_row_to_config
ConfigOf(w) == [acct |-> w.acct, key |-> w.key, region |-> w.region, facts |-> w.facts]

\* SessionManager.get: the session that is kept, or a new one, which is kept from now on.
GetSession(i, w) ==
    IF kept[i] # None /\ Fingerprint(kept[i]) = Fingerprint(w) THEN kept[i] ELSE ConfigOf(w)

\* One more request, unless one that is to run alone is under way.
Comes ==
    /\ begun < MaxBegun /\ begun' = begun + 1
    /\ \A q \in Requests : at[q] # "idle" => op[q] \notin Alone

\* The fields of a request that begins: the row is read now.
Begins(r, o, i) ==
    /\ Comes /\ at[r] = "idle" /\ i \in Here
    /\ o \in Alone => \A q \in Requests : at[q] = "idle"
    /\ op' = [op EXCEPT ![r] = o] /\ id' = [id EXCEPT ![r] = i]
    /\ seen' = [seen EXCEPT ![r] = row[i]]

\* A request is over and forgets what it read.
Ends(r) ==
    /\ at' = [at EXCEPT ![r] = "idle"] /\ op' = [op EXCEPT ![r] = "use"]
    /\ id' = [id EXCEPT ![r] = None] /\ seen' = [seen EXCEPT ![r] = None]
    /\ kids' = [kids EXCEPT ![r] = <<>>] /\ wish' = [wish EXCEPT ![r] = None]
    /\ used' = [used EXCEPT ![r] = None]

\* The session is asked for after the row was read, perhaps much later.
WithSession(r) ==
    LET c == GetSession(id[r], seen[r]) IN
    kept' = [kept EXCEPT ![id[r]] = c] /\ used' = [used EXCEPT ![r] = c]

----------------------------------------------------------------------------
\* create_tenant, import_tenant_from_paste
Create ==
    \E i \in unused, w \in Row :
        /\ Comes /\ w.parent = None /\ ~w.protected /\ w.facts = None
        /\ row' = [row EXCEPT ![i] = w] /\ unused' = unused \ {i}
        /\ UNCHANGED <<default, kept, Request>>

\* set_tenant_delete_protection
Protect(i) ==
    /\ Comes /\ i \in Here
    /\ row' = [row EXCEPT ![i].protected = ~@]
    /\ UNCHANGED <<unused, default, kept, Request>>

\* set_locked_tenant
SetDefault(i) ==
    /\ Comes /\ i \in Here \cup {None} /\ default' = i
    /\ UNCHANGED <<row, unused, kept, Request>>

\* test_tenant, list_tenant_regions, tenant_tier and account routes: the row is read.
Use(r) ==
    \E i \in Here, o \in {"use", "query"} :
        /\ Begins(r, o, i) /\ at' = [at EXCEPT ![r] = "oracle"]
        /\ UNCHANGED <<row, unused, default, kept, kids, wish, used>>

\* The session is used for the calls, which may fail, and the request is over.
UseSession(r) ==
    /\ at[r] = "oracle" /\ op[r] \in {"use", "query", "subscribe"} /\ used[r] = None
    /\ WithSession(r)
    /\ UNCHANGED <<row, unused, default, at, op, id, seen, kids, wish>>

Used(r) ==
    /\ at[r] = "oracle" /\ used[r] # None
    /\ Ends(r) /\ UNCHANGED <<row, unused, default, kept>>

Family(w, i) == LET root == IF w.parent = None THEN i ELSE w.parent IN {root} \cup ChildrenOf(root)

\* The rows of the account, as _cache_family_fields selects them.
FamilyOf(w, i) == Family(w, i) \cap Here

\* _cache_account_state: of the own row the stale object is compared with the answer.
Query(r) ==
    /\ at[r] = "oracle" /\ op[r] = "query" /\ used[r] # None
    /\ LET answer == used[r].acct
           Differs(i) == IF i = id[r] THEN seen[r].facts # answer ELSE row[i].facts # answer
           written == {i \in FamilyOf(seen[r], id[r]) : Differs(i)}
       IN  row' = [i \in Ids |-> IF i \in written THEN [row[i] EXCEPT !.facts = answer] ELSE row[i]]
    /\ Ends(r) /\ UNCHANGED <<unused, default, kept>>

----------------------------------------------------------------------------
\* update_tenant: the row, the fields of the form, then the children.
Edit(r) ==
    \E i \in Here, a \in Accounts, k \in Keys, g \in Regions :
        /\ Begins(r, "edit", i) /\ at' = [at EXCEPT ![r] = "write"]
        /\ EditsChildren \/ row[i].parent = None
        /\ wish' = [wish EXCEPT ![r] =
               [acct |-> a, key |-> k, region |-> g, moved |-> a # row[i].acct]]
        /\ a # row[i].acct \/ k # row[i].key \/ g # row[i].region
        /\ UNCHANGED <<row, unused, default, kept, kids, used>>

EditKids(r) ==
    /\ at[r] = "write" /\ op[r] = "edit"
    /\ kids' = [kids EXCEPT ![r] = [k \in ChildrenOf(id[r]) |-> row[k]]]
    /\ at' = [at EXCEPT ![r] = "oracle"]
    /\ UNCHANGED <<row, unused, default, kept, op, id, seen, wish, used>>

\* An UPDATE names the columns whose value is another than the one that was read.
Changed(now, read, new) == IF read = new THEN now ELSE new

\* The row after the UPDATE; another account makes what was remembered void.
Written(now, read, new) ==
    [now EXCEPT !.acct = Changed(@, read.acct, new.acct), !.key = Changed(@, read.key, new.key),
                !.region = Changed(@, read.region, new.region),
                !.facts = IF new.moved THEN Changed(@, read.facts, None) ELSE @]

KidsLeft(r) == [row EXCEPT ![id[r]] = Written(@, seen[r], wish[r])] \* mutant: children are left alone

\* The row and its children after the commit; a child keeps its region.
Saved(r) ==
    [i \in Ids |->
        CASE i = id[r] -> Written(row[i], seen[r], wish[r])
          [] i \in DOMAIN kids[r] /\ i # id[r] ->
                Written(row[i], kids[r][i], [wish[r] EXCEPT !.region = kids[r][i].region])
          [] OTHER -> row[i]]

\* A row that is gone refuses the whole UPDATE (StaleDataError).
EditCommit(r) ==
    /\ at[r] = "oracle" /\ op[r] = "edit"
    /\ \/ /\ {id[r]} \cup DOMAIN kids[r] \subseteq Here
          /\ row' = Saved(r) /\ at' = [at EXCEPT ![r] = "drop"]
          /\ UNCHANGED <<unused, default, kept, op, id, seen, kids, wish, used>>
       \/ /\ ~({id[r]} \cup DOMAIN kids[r] \subseteq Here)
          /\ Ends(r) /\ UNCHANGED <<row, unused, default, kept>>

\* Every row that was written or deleted.
Targets(r) == IF op[r] = "edit" THEN {id[r]} \cup DOMAIN kids[r] ELSE wish[r].ids

\* drop_session and clear_launch_meta_cache for every target, after the commit.
Drop(r) ==
    /\ at[r] = "drop"
    /\ kept' = [i \in Ids |-> IF i \in Targets(r) THEN None ELSE kept[i]]
    /\ Ends(r) /\ UNCHANGED <<row, unused, default>>

----------------------------------------------------------------------------
\* subscribe_tenant_region: a region that has a linked row needs nothing more.
Linked(w, g) == \E i \in Here : row[i].acct = w.acct /\ row[i].region = g /\ row[i].parent # None

Subscribe(r) ==
    \E i \in Here, g \in Regions :
        /\ Begins(r, "subscribe", i) /\ ~Linked(row[i], g)
        /\ at' = [at EXCEPT ![r] = "oracle"] /\ wish' = [wish EXCEPT ![r] = g]
        /\ UNCHANGED <<row, unused, default, kept, kids, used>>

\* Oracle took the subscription, or had it.
Subscribed(r) ==
    /\ at[r] = "oracle" /\ op[r] = "subscribe" /\ used[r] # None
    /\ at' = [at EXCEPT ![r] = "write"]
    /\ UNCHANGED <<row, unused, default, kept, op, id, seen, kids, wish, used>>

\* _root_tenant: the own row is the object that was read, another one is read now.
Root(r) ==
    LET p == seen[r].parent IN
    IF p # None /\ p \in Here THEN [id |-> p, row |-> row[p]] ELSE [id |-> id[r], row |-> seen[r]]

\* The home region is known: list_subscribed_regions read it for subscribe_region.
NotHome(r) == wish[r] # HomeOf[used[r].acct]

\* The row that is added; the account must have none for this region yet.
AddRegion(r) ==
    /\ at[r] = "write" /\ op[r] = "subscribe"
    /\ LET taken == \E i \in Here : row[i].acct = seen[r].acct /\ row[i].region = wish[r] IN
       \/ /\ ~taken /\ NotHome(r)
          /\ \E i \in unused :
                /\ row' = [row EXCEPT ![i] =
                       [acct |-> Root(r).row.acct, key |-> Root(r).row.key, region |-> wish[r],
                        parent |-> Root(r).id, protected |-> FALSE, facts |-> Root(r).row.facts]]
                /\ unused' = unused \ {i}
       \/ (taken \/ ~NotHome(r)) /\ UNCHANGED <<row, unused>>
    /\ Ends(r) /\ UNCHANGED <<default, kept>>

----------------------------------------------------------------------------
OwnOnly(i) == row[i].protected \* mutant: the children are not asked

\* _delete_block_reason
Blocked(i) == row[i].protected \/ \E k \in ChildrenOf(i) : row[k].protected

\* batch_delete_tenants, in the order of the list: an id that is doomed as a child is passed over.
Doomed(W) ==
    LET may == {i \in W \cap Here : ~Blocked(i)} IN may \cup UNION {ChildrenOf(i) : i \in may}

\* delete_tenant and batch_delete_tenants up to the decision.
Delete(r) ==
    \E W \in SUBSET Here, i \in Here :
        /\ i \in W /\ Begins(r, "delete", i) /\ Doomed(W) # {}
        /\ at' = [at EXCEPT ![r] = "write"] /\ wish' = [wish EXCEPT ![r] = [ids |-> Doomed(W), default |-> default]]
        /\ UNCHANGED <<row, unused, default, kept, kids, used>>

\* users.locked_tenant_id is compared as it was when the request began.
DefaultAfter(r) == IF wish[r].default \in wish[r].ids THEN None ELSE default

\* _purge_tenants
Purge(r) ==
    /\ at[r] = "write" /\ op[r] = "delete"
    /\ row' = [i \in Ids |-> IF i \in wish[r].ids THEN None ELSE row[i]]
    /\ default' = DefaultAfter(r)
    /\ at' = [at EXCEPT ![r] = "drop"]
    /\ UNCHANGED <<unused, kept, op, id, seen, kids, wish, used>>

Step(r) ==
    \/ Use(r) \/ Edit(r) \/ Subscribe(r) \/ Delete(r)
    \/ /\ \/ UseSession(r) \/ Used(r) \/ Query(r)
          \/ EditKids(r) \/ EditCommit(r) \/ Drop(r)
          \/ Subscribed(r) \/ AddRegion(r) \/ Purge(r)
       /\ UNCHANGED begun

Next ==
    \/ Create
    \/ \E i \in Ids : Protect(i)
    \/ \E i \in Ids \cup {None} : SetDefault(i)
    \/ \E r \in Requests : Step(r)

Spec == Init /\ [][Next]_vars

----------------------------------------------------------------------------
\* A request works with a session made of the very row it read, whatever was kept of an
\* earlier row (SessionManager.get compares every field a session is made of).
UseIsFresh == \A r \in Requests : used[r] # None => used[r] = ConfigOf(seen[r])

\* A secondary row has the account and the key of its primary row (tenants.py: "the same
\* Oracle API key by construction").
OneKey ==
    \A i \in Here : row[i].parent \in Here =>
        /\ row[i].acct = row[row[i].parent].acct
        /\ row[i].key = row[row[i].parent].key

\* Tier, upgrade state and home region remembered on a row are those of its account.
FactsAreTheirs == \A i \in Here : row[i].facts \in {None, row[i].acct}

\* What is remembered is the same on all rows of an account that belong together.
FactsAgree == \A i \in Here : row[i].parent \in Here => row[i].facts = row[row[i].parent].facts

\* A secondary row goes with its primary row.
NoOrphans == \A i \in Here : row[i].parent \in Here \cup {None}

\* The default tenant of the user exists.
DefaultExists == default \in Here \cup {None}

\* Once everything is at rest no session is kept for a row that was deleted.
Forgotten == (\A r \in Requests : at[r] = "idle") => \A i \in Ids : kept[i] # None => i \in Here

\* A protected row is not deleted, and neither is the primary row of a protected one.
ProtectedStays ==
    \A i \in Here : row[i].protected =>
           row'[i] # None /\ (row[i].parent \in Here => row'[row[i].parent] # None)

\* A secondary row, for which the free allowance is not checked, is never added for the
\* home region of its account.
HomeHasAllowance ==
    \A i \in Ids : (row[i] = None /\ row'[i] # None /\ row'[i].parent # None) =>
           row'[i].region # HomeOf[row'[i].acct]

=============================================================================
