------------------------ MODULE PersistentWatchlists ------------------------
(***************************************************************************)
(* The installation-local watchlist store: clients preview a mutation, and *)
(* much later somebody commits the preview by its id.  A preview reads the *)
(* store through several connections and is written in a transaction of    *)
(* its own; a commit is one BEGIN IMMEDIATE transaction.  Source:          *)
(* scripts/m8r_09_persistent_watchlists.py.                                *)
(*                                                                         *)
(* The name and the entries of a watchlist are one value, its body.  A     *)
(* content hash is modelled by the content it covers.                      *)
(***************************************************************************)
EXTENDS Naturals, Sequences, FiniteSets

CONSTANTS
    Clients,        \* processes and requests that build previews
    Watchlists,     \* the ids uuid4 may draw
    Bodies,         \* names and entries of a watchlist
    Releases,       \* Security Master releases
    MaxWatchlists,  \* LIMITS["watchlists"]
    MaxVersion,     \* bound: versions of a watchlist
    MaxPreviews,    \* bound: previews ever stored
    PREVIEW_TTL,
    MaxTime,        \* bound: ticks of the clock
    None

ASSUME LimitsAssumption ==
    /\ MaxWatchlists \in Nat /\ MaxVersion \in Nat \ {0} /\ MaxPreviews \in Nat
    /\ PREVIEW_TTL \in Nat \ {0} /\ MaxTime \in Nat /\ IsFiniteSet(Clients)

VARIABLES
    watchlists,     \* table watchlists with its entries: the current snapshots
    revisions,      \* table revisions, by watchlist and version
    previews,       \* table mutation_previews; preview_id is the place in it
    release,        \* the active Security Master release
    clock,          \* now()
    draft           \* the preview each client is building

tables == <<watchlists, revisions, previews>>
vars == <<tables, release, clock, draft>>

Versions == 1 .. MaxVersion

Snapshot == [version : Versions, is_default : BOOLEAN, deleted : BOOLEAN, body : Bodies]

\* previous is the hash of the preceding revision; confirmation names the preview.
Revision == [snapshot : Snapshot, previous : Snapshot \cup {None}, confirmation : 1 .. MaxPreviews]

\* additional_after has at most one element: the previous default, demoted.
Preview == [type       : {"create", "update"},
            id         : Watchlists,
            before     : Snapshot \cup {None},
            after      : Snapshot,
            demoted    : Watchlists \cup {None},
            demotion   : Snapshot \cup {None},
            expected   : [Watchlists -> Versions \cup {None}],
            release    : Releases \cup {None},
            expires_at : Nat,
            consumed   : BOOLEAN]

ASSUME NoneAssumption ==
    /\ None \notin Watchlists \cup Releases \cup Versions
    /\ None \notin Snapshot /\ None \notin Revision /\ None \notin Preview

Stored == {w \in Watchlists : watchlists[w] # None}
Pending == {i \in DOMAIN previews : ~ previews[i].consumed}

ActiveDefault(s) == s # None /\ s.is_default /\ ~ s.deleted
Defaults == {w \in Watchlists : ActiveDefault(watchlists[w])}

-----------------------------------------------------------------------------
Init ==
    /\ watchlists = [w \in Watchlists |-> None]
    /\ revisions = [w \in Watchlists |-> [v \in Versions |-> None]]
    /\ previews = << >>
    /\ release \in Releases
    /\ clock = 0
    /\ draft = [c \in Clients |-> None]

-----------------------------------------------------------------------------
(* preview *)

\* Bound: every preview begun can be stored.
Room == Len(previews) + Cardinality({c \in Clients : draft[c] # None}) < MaxPreviews

\* The first half of a preview: the watchlist as it is, what the command makes of
\* it, and the release under which an identity was resolved.
Draft(type, w, before, after, bound) ==
    [type |-> type, id |-> w, before |-> before, after |-> after,
     demoted |-> None, demotion |-> None,
     expected |-> [x \in Watchlists |->
                     IF x = w /\ before # None THEN before.version ELSE None],
     release |-> bound, expires_at |-> clock + PREVIEW_TTL, consumed |-> FALSE]

\* uuid4 draws an id that is neither stored nor in any preview.
FreshIds ==
    {w \in Watchlists :
        /\ watchlists[w] = None
        /\ \A i \in DOMAIN previews : previews[i].id # w
        /\ \A c \in Clients : draft[c] # None => draft[c].id # w}

\* create_watchlist: the count includes deleted watchlists.
PreviewCreate(c) ==
    /\ draft[c] = None /\ Room
    /\ Cardinality(Stored) < MaxWatchlists
    /\ \E w \in FreshIds, body \in Bodies, set_default \in BOOLEAN :
        draft' = [draft EXCEPT ![c] =
            Draft("create", w, None,
                  [version |-> 1, is_default |-> set_default, deleted |-> FALSE, body |-> body],
                  None)]
    /\ UNCHANGED <<tables, release, clock>>

\* The commands on a stored watchlist: rename, set_entry_* , reorder and remove_entry
\* give it another body; add_entry, import and confirm_identity_migration do so under
\* the active release.  Also a deleted watchlist can be edited and rolled back.
Bumped(s) == [s EXCEPT !.version = @ + 1]

Edited(s) == {[Bumped(s) EXCEPT !.body = body] : body \in Bodies}
Defaulted(s) == {[x EXCEPT !.is_default = TRUE] : x \in {y \in {Bumped(s)} : ~ y.deleted}}
Deleted(s) == {[Bumped(s) EXCEPT !.deleted = TRUE, !.is_default = FALSE]}
Restored(s) == {[Bumped(s) EXCEPT !.deleted = FALSE]}
RolledBack(w, s) ==
    {[revisions[w][v].snapshot EXCEPT !.version = s.version + 1, !.deleted = FALSE] :
        v \in {u \in Versions : revisions[w][u] # None}}

PreviewUpdate(c) ==
    /\ draft[c] = None /\ Room
    /\ \E w \in Stored :
        LET before == watchlists[w] IN
        /\ before.version < MaxVersion
        /\ \/ \E after \in Edited(before), bound \in {None, release} :
                draft' = [draft EXCEPT ![c] = Draft("update", w, before, after, bound)]
           \/ \E after \in Defaulted(before) \cup Deleted(before) \cup Restored(before)
                             \cup RolledBack(w, before) :
                draft' = [draft EXCEPT ![c] = Draft("update", w, before, after, None)]
    /\ UNCHANGED <<tables, release, clock>>

\* The defaults a preview has to demote: one at most, and none once it is chosen.
ToDemote(p) ==
    IF ActiveDefault(p.after) /\ p.demoted = None THEN Defaults \ {p.id} ELSE {}

\* The second half, on another connection, which commits every statement by itself:
\* a preview that makes its watchlist the default looks up which one is the default
\* now.
ReadDefault(c) ==
    /\ draft[c] # None
    /\ \E d \in ToDemote(draft[c]) : draft' = [draft EXCEPT ![c].demoted = d]
    /\ UNCHANGED <<tables, release, clock>>

\* Demoted(s) is what the commit makes of the row s of that watchlist.
Demoted(s) == [Bumped(s) EXCEPT !.is_default = FALSE]

\* Mutant: the previous default is demoted without its expected version.
StoreUnguarded(c) ==
    /\ draft[c] # None
    /\ LET p == draft[c]
       IN \/ /\ p.demoted = None /\ ToDemote(p) = {}
             /\ previews' = Append(previews, p)
          \/ /\ p.demoted # None
             /\ watchlists[p.demoted].version < MaxVersion
             /\ previews' = Append(previews,
                  [p EXCEPT !.demotion = Demoted(watchlists[p.demoted])])
    /\ draft' = [draft EXCEPT ![c] = None]
    /\ UNCHANGED <<watchlists, revisions, release, clock>>

\* Then it reads the row of the watchlist it found, which need not be the default any
\* more, and demotes what it read.  The INSERT is a transaction of its own right
\* after; nothing is read in between.  (Entries read after their row can be newer than
\* it: the version of the row is then outdated, and the commit refuses the preview.)
StorePreview(c) ==
    /\ draft[c] # None
    /\ LET p == draft[c]
       IN \/ /\ p.demoted = None /\ ToDemote(p) = {}
             /\ previews' = Append(previews, p)
          \/ /\ p.demoted # None
             /\ watchlists[p.demoted].version < MaxVersion
             /\ previews' = Append(previews,
                  [p EXCEPT !.demotion = Demoted(watchlists[p.demoted]),
                            !.expected[p.demoted] = watchlists[p.demoted].version])
    /\ draft' = [draft EXCEPT ![c] = None]
    /\ UNCHANGED <<watchlists, revisions, release, clock>>

\* The client goes away, or the preview is refused.
AbandonPreview(c) ==
    /\ draft[c] # None
    /\ draft' = [draft EXCEPT ![c] = None]
    /\ UNCHANGED <<tables, release, clock>>

-----------------------------------------------------------------------------
(* commit *)

\* Every watchlist of the preview still has the version the preview saw.
VersionsHold(p) ==
    \A w \in Watchlists :
        p.expected[w] # None => watchlists[w] # None /\ watchlists[w].version = p.expected[w]

\* The unique index watchlists_one_active_default, checked statement by statement:
\* the demotion is written first.
IndexAccepts(p) == ActiveDefault(p.after) => Defaults \subseteq {p.id, p.demoted}

\* _write_snapshot: the current row, and a revision that names its predecessor.
WrittenRows(p) ==
    [w \in Watchlists |->
        CASE w = p.id -> p.after
          [] w = p.demoted -> p.demotion
          [] OTHER -> watchlists[w]]

\* Mutant: the demotion of the previous default gets no revision.
PartialRevisions(p, i) ==
    [w \in Watchlists |-> [v \in Versions |->
        IF w = p.id /\ v = WrittenRows(p)[w].version
        THEN [snapshot |-> WrittenRows(p)[w],
              previous |-> IF v > 1 /\ revisions[w][v - 1] # None
                           THEN revisions[w][v - 1].snapshot ELSE None,
              confirmation |-> i]
        ELSE revisions[w][v]]]

WrittenRevisions(p, i) ==
    [w \in Watchlists |-> [v \in Versions |->
        IF w \in {p.id, p.demoted} /\ v = WrittenRows(p)[w].version
        THEN [snapshot |-> WrittenRows(p)[w],
              previous |-> IF v > 1 /\ revisions[w][v - 1] # None
                           THEN revisions[w][v - 1].snapshot ELSE None,
              confirmation |-> i]
        ELSE revisions[w][v]]]

\* PRIMARY KEY (watchlist_id, version), and of watchlists for a created one.
KeysAccept(p) ==
    /\ p.type = "create" => watchlists[p.id] = None
    /\ \A w \in {p.id, p.demoted} \ {None} : revisions[w][WrittenRows(p)[w].version] = None

\* Mutants: the snapshot is rebased on the live version instead of refused; the
\* preview is not marked as consumed.
CommitRebased(i) ==
    /\ i \in Pending
    /\ clock < previews[i].expires_at
    /\ LET old == previews[i]
           p == IF old.type = "create" THEN old
                ELSE [old EXCEPT !.after.version = watchlists[old.id].version + 1]
       IN /\ p.after.version <= MaxVersion
          /\ IndexAccepts(p) /\ KeysAccept(p)
          /\ watchlists' = WrittenRows(p)
          /\ revisions' = WrittenRevisions(p, i)
    /\ previews' = [previews EXCEPT ![i].consumed = TRUE]
    /\ UNCHANGED <<release, clock, draft>>

CommitUnmarked(i) ==
    /\ i \in Pending
    /\ LET p == previews[i]
       IN /\ clock < p.expires_at
          /\ VersionsHold(p)
          /\ p.release \in {None, release}
          /\ IndexAccepts(p) /\ KeysAccept(p)
          /\ watchlists' = WrittenRows(p)
          /\ revisions' = WrittenRevisions(p, i)
    /\ UNCHANGED <<previews, release, clock, draft>>

\* One BEGIN IMMEDIATE transaction.  A preview that is consumed, expired, outdated or
\* bound to another release is refused, an IntegrityError rolls back; a refusal and a
\* kill before COMMIT change nothing.
Commit(i) ==
    /\ i \in Pending
    /\ LET p == previews[i]
       IN /\ clock < p.expires_at
          /\ VersionsHold(p)
          /\ p.release \in {None, release}
          /\ IndexAccepts(p) /\ KeysAccept(p)
          /\ watchlists' = WrittenRows(p)
          /\ revisions' = WrittenRevisions(p, i)
    /\ previews' = [previews EXCEPT ![i].consumed = TRUE]
    /\ UNCHANGED <<release, clock, draft>>

-----------------------------------------------------------------------------
(* Environment *)

\* activate_qualified_release, at any time.
ActivateRelease ==
    /\ release' \in Releases \ {release}
    /\ UNCHANGED <<tables, clock, draft>>

Tick ==
    /\ clock < MaxTime
    /\ clock' = clock + 1
    /\ UNCHANGED <<tables, release, draft>>

Next ==
    \/ \E c \in Clients :
        \/ PreviewCreate(c) \/ PreviewUpdate(c)
        \/ ReadDefault(c) \/ StorePreview(c) \/ AbandonPreview(c)
    \/ \E i \in 1 .. MaxPreviews : Commit(i)
    \/ ActivateRelease
    \/ Tick

Spec == Init /\ [][Next]_vars

-----------------------------------------------------------------------------
(* Properties *)

\* Type correctness of the tables and of the drafts.
TypeOK ==
    /\ watchlists \in [Watchlists -> Snapshot \cup {None}]
    /\ revisions \in [Watchlists -> [Versions -> Revision \cup {None}]]
    /\ previews \in Seq(Preview) /\ Len(previews) <= MaxPreviews
    /\ release \in Releases
    /\ clock \in 0 .. MaxTime
    /\ draft \in [Clients -> Preview \cup {None}]

\* verify_integrity always passes: at most one active default, and for every
\* watchlist an unbroken chain of revisions that ends in the current row
\* (m8r_09_persistent_watchlists.py:716-731 and 430-455).
Chained(w) ==
    \A v \in Versions : revisions[w][v] # None =>
        /\ revisions[w][v].snapshot.version = v
        /\ IF v = 1 THEN revisions[w][v].previous = None
           ELSE /\ revisions[w][v - 1] # None
                /\ revisions[w][v].previous = revisions[w][v - 1].snapshot
IntegrityHolds ==
    /\ Cardinality(Defaults) <= 1
    /\ \A w \in Watchlists :
        /\ Chained(w)
        /\ \A v \in Versions :
            revisions[w][v] # None <=> w \in Stored /\ v <= watchlists[w].version
        /\ w \in Stored => revisions[w][watchlists[w].version].snapshot = watchlists[w]

\* The audit trail is truthful: a preview is consumed exactly when its watchlist has
\* a revision confirmed by it, and a revision says what its preview showed; so a
\* preview is applied at most once (m8r_09_persistent_watchlists.py:664, 687-692).
ConfirmedBy(w, i) ==
    {v \in Versions : revisions[w][v] # None /\ revisions[w][v].confirmation = i}
AuditTrail ==
    /\ \A w \in Watchlists, v \in Versions :
        revisions[w][v] # None => revisions[w][v].confirmation \in DOMAIN previews
    /\ \A i \in DOMAIN previews, w \in Watchlists :
        LET p == previews[i]
            confirmed == ConfirmedBy(w, i)
        IN /\ Cardinality(confirmed) <= 1
           /\ confirmed # {} <=> p.consumed /\ w \in {p.id, p.demoted}
           /\ \A v \in confirmed :
                revisions[w][v].snapshot = IF w = p.id THEN p.after ELSE p.demotion

\* No lost update: a commit replaces exactly the row its preview showed as `before`;
\* the demoted default changes in nothing but its default flag, however many commits
\* happened in between (m8r_09_persistent_watchlists.py:678-680).
NoLostUpdate ==
    [][\A w \in Stored : watchlists'[w] # watchlists[w] =>
        \E i \in Pending :
            /\ previews'[i].consumed
            /\ \/ previews[i].id = w /\ previews[i].before = watchlists[w]
               \/ /\ previews[i].demoted = w
                  /\ watchlists'[w] = Demoted(watchlists[w])]_vars

\* A switch of the default whose preview read the row it demotes as that of the default
\* is never refused as WATCHLIST_DEFAULT_CONFLICT: if the default moved after that, the
\* versions already say so (m8r_09_persistent_watchlists.py:587-600 and 694-696).  (It
\* can be refused so when the default moved between the two SELECTs of the preview.)
SeenDemoted(p) == revisions[p.demoted][p.demotion.version - 1].snapshot
AnnouncedSwitchCommits ==
    \A i \in Pending :
        LET p == previews[i] IN
        p.demoted # None /\ ActiveDefault(SeenDemoted(p)) /\ VersionsHold(p) => IndexAccepts(p)

\* Previews and commits far apart act like commands executed at once on the live
\* store: every commit is one command of WatchlistHistory, which allows for one effect
\* more, the revision without a change of a watchlist that lost the default between
\* the two SELECTs of the preview (m8r_09_persistent_watchlists.py:590-600, 678-696).
History(w) ==
    IF watchlists[w] = None THEN << >>
    ELSE [v \in 1 .. watchlists[w].version |-> revisions[w][v].snapshot]
Store == INSTANCE WatchlistHistory WITH history <- [w \in Watchlists |-> History(w)]

\* The store implements WatchlistHistory.
Serializable == Store!Spec
=============================================================================
