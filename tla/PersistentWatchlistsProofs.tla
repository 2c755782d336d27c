--------------------- MODULE PersistentWatchlistsProofs ---------------------
(***************************************************************************)
(* Proofs about PersistentWatchlists for every number of clients,          *)
(* watchlists, bodies, releases and previews.                              *)
(***************************************************************************)
EXTENDS PersistentWatchlists, FiniteSetTheorems, SequenceTheorems, TLAPS

\* The snapshot is one that the store has held.
Seen(w, s) ==
    /\ s \in Snapshot /\ revisions[w][s.version] # None
    /\ revisions[w][s.version].snapshot = s

\* A preview follows the row it was built from, and one that demotes a watchlist says
\* which version of it.
Announced(p, s) ==
    /\ Seen(p.demoted, s)
    /\ p.demotion \in Snapshot
    /\ p.expected[p.demoted] = s.version
    /\ p.demotion = [[s EXCEPT !.version = s.version + 1] EXCEPT !.is_default = FALSE]

Based(p) ==
    /\ p.before = None => p.type = "create" /\ p.after.version = 1
    /\ p.before # None => /\ Seen(p.id, p.before)
                          /\ p.after.version = p.before.version + 1
                          /\ p.expected[p.id] = p.before.version

Sound(p) ==
    /\ Based(p)
    /\ p.demoted # None => /\ p.demoted # p.id /\ ActiveDefault(p.after)
                           /\ \E s \in Snapshot : Announced(p, s)

\* A draft that has found the watchlist to demote has not read it yet.
Ready(p) ==
    /\ Based(p) /\ ~p.consumed
    /\ p.demoted # None => p.demoted # p.id /\ ActiveDefault(p.after) /\ p.demoted \in Stored

\* The revisions of a watchlist are a chain that ends in its row.
Chain(w) ==
    /\ Chained(w)
    /\ \A v \in Versions : revisions[w][v] # None <=> w \in Stored /\ v <= watchlists[w].version
    /\ w \in Stored => revisions[w][watchlists[w].version].snapshot = watchlists[w]

OneDefault == \A w, x \in Defaults : w = x

Confirmed ==
    \A w \in Watchlists, v \in Versions :
        revisions[w][v] # None => revisions[w][v].confirmation \in DOMAIN previews

Applied(i, w) ==
    /\ \A u, v \in ConfirmedBy(w, i) : u = v
    /\ ConfirmedBy(w, i) # {} <=> previews[i].consumed /\ w \in {previews[i].id, previews[i].demoted}
    /\ \A v \in ConfirmedBy(w, i) :
          revisions[w][v].snapshot = IF w = previews[i].id THEN previews[i].after
                                     ELSE previews[i].demotion

Drafting == {c \in Clients : draft[c] # None}

Inv ==
    /\ TypeOK
    /\ Len(previews) + Cardinality(Drafting) <= MaxPreviews
    /\ \A w \in Watchlists : Chain(w)
    /\ OneDefault
    /\ \A i \in DOMAIN previews : Sound(previews[i])
    /\ \A c \in Clients : draft[c] # None => Ready(draft[c])
    /\ Confirmed
    /\ \A i \in DOMAIN previews, w \in Watchlists : Applied(i, w)

-----------------------------------------------------------------------------
(* Data *)

LEMMA VersionFacts ==
    /\ 1 \in Versions /\ Versions \subseteq Nat
    /\ \A v \in Versions : v < MaxVersion => v + 1 \in Versions
    /\ \A v \in Versions : v # 1 => v - 1 \in Versions
BY LimitsAssumption DEF Versions

\* A snapshot with the next version is a snapshot.
LEMMA BumpedFacts ==
    ASSUME NEW s \in Snapshot, s.version < MaxVersion
    PROVE  Bumped(s) \in Snapshot /\ Bumped(s).version = s.version + 1
BY VersionFacts DEF Snapshot, Bumped

LEMMA DraftingFinite == IsFiniteSet(Drafting) /\ Cardinality(Drafting) \in Nat
<1>1. Drafting \subseteq Clients
  BY DEF Drafting
<1> QED BY <1>1, LimitsAssumption, FS_Subset, FS_CardinalityType

LEMMA InvInit == Init => Inv
<1> SUFFICES ASSUME Init PROVE Inv
  OBVIOUS
<1>1. /\ watchlists = [w \in Watchlists |-> None] /\ previews = << >>
      /\ revisions = [w \in Watchlists |-> [v \in Versions |-> None]]
      /\ draft = [c \in Clients |-> None] /\ clock = 0 /\ release \in Releases
  BY DEF Init
<1>2. TypeOK
  BY <1>1, LimitsAssumption DEF TypeOK
<1>3. Len(previews) + Cardinality(Drafting) <= MaxPreviews
  <2>1. Drafting = {} /\ Len(previews) = 0
    BY <1>1 DEF Drafting
  <2> QED BY <2>1, FS_EmptySet, LimitsAssumption
<1>4. \A w \in Watchlists : Chain(w)
  BY <1>1 DEF Chain, Chained, Stored
<1>5. OneDefault
  BY <1>1 DEF OneDefault, Defaults, ActiveDefault
<1>6. DOMAIN previews = {}
  BY <1>1
<1>7. Confirmed
  BY <1>1 DEF Confirmed
<1> QED BY <1>1, <1>2, <1>3, <1>4, <1>5, <1>6, <1>7 DEF Inv

-----------------------------------------------------------------------------
(* Previews *)

\* What is said about stored previews and rows does not depend on the drafts.
LEMMA TablesKept ==
    ASSUME UNCHANGED <<watchlists, revisions>>
    PROVE  /\ \A p : Sound(p)' <=> Sound(p)
           /\ \A p : Ready(p)' <=> Ready(p)
           /\ \A w : Chain(w)' <=> Chain(w)
           /\ OneDefault' <=> OneDefault
BY DEF Sound, Ready, Based, Announced, Seen, Chain, Chained, Stored, OneDefault, Defaults, ActiveDefault

\* A client without a draft begins a sound one.
LEMMA NewDraft ==
    ASSUME Inv, NEW c \in Clients, NEW p \in Preview, draft[c] = None, Room, Ready(p),
           draft' = [draft EXCEPT ![c] = p], UNCHANGED <<tables, release, clock>>
    PROVE  Inv'
<1>1. TypeOK /\ UNCHANGED <<watchlists, revisions, previews>>
  BY DEF Inv, tables
<1>2. TypeOK'
  BY <1>1 DEF TypeOK
<1>3. Len(previews') + Cardinality(Drafting') <= MaxPreviews
  <2>1. Drafting' = Drafting \cup {c} /\ c \notin Drafting
    BY <1>1, NoneAssumption DEF Drafting, TypeOK
  <2>2. Cardinality(Drafting') = Cardinality(Drafting) + 1
    BY <2>1, DraftingFinite, FS_AddElement
  <2>3. Len(previews) \in Nat
    BY <1>1, LenProperties DEF TypeOK
  <2>4. Len(previews) + Cardinality(Drafting) < MaxPreviews
    BY DEF Room, Drafting
  <2> QED BY <1>1, <2>2, <2>3, <2>4, DraftingFinite, LimitsAssumption
<1>4. /\ \A w \in Watchlists : Chain(w)'
      /\ OneDefault' /\ \A i \in DOMAIN previews' : Sound(previews[i])'
  BY <1>1, TablesKept DEF Inv
<1>5. ASSUME NEW d \in Clients
      PROVE  (draft[d] # None => Ready(draft[d]))'
  <2>1. CASE d = c
    <3>1. draft'[d] = p
      BY <1>1, <2>1 DEF TypeOK
    <3> QED BY <1>1, <3>1 DEF Ready, Based, Seen, Stored, ActiveDefault
  <2>2. CASE d # c
    <3>1. draft'[d] = draft[d]
      BY <1>1, <2>2 DEF TypeOK
    <3>2. draft[d] # None => Ready(draft[d])
      BY DEF Inv
    <3> QED BY <1>1, <3>1, <3>2 DEF Ready, Based, Seen, Stored, ActiveDefault
  <2> QED BY <2>1, <2>2
<1>6. Confirmed'
  BY <1>1 DEF Inv, Confirmed
<1>7. \A i \in DOMAIN previews', w \in Watchlists : Applied(i, w)'
  BY <1>1 DEF Inv, Applied, ConfirmedBy
<1> QED BY <1>2, <1>3, <1>4, <1>5, <1>6, <1>7 DEF Inv

LEMMA CreateStep ==
    ASSUME Inv, NEW c \in Clients, PreviewCreate(c)
    PROVE  Inv'
<1>1. PICK w \in FreshIds, body \in Bodies, default \in BOOLEAN :
          draft' = [draft EXCEPT ![c] =
              Draft("create", w, None,
                    [version |-> 1, is_default |-> default, deleted |-> FALSE, body |-> body],
                    None)]
  BY DEF PreviewCreate
<1> DEFINE s == [version |-> 1, is_default |-> default, deleted |-> FALSE, body |-> body]
           p == Draft("create", w, None, s, None)
<1>2. s \in Snapshot /\ s.version = 1
  BY VersionFacts DEF Snapshot
<1> HIDE DEF s
<1>3. clock + PREVIEW_TTL \in Nat /\ w \in Watchlists
  BY LimitsAssumption DEF Inv, TypeOK, FreshIds
<1>4. p \in Preview /\ p.type = "create" /\ p.before = None /\ p.after = s /\ p.demoted = None
      /\ ~p.consumed
  BY <1>2, <1>3 DEF Draft, Preview
<1>5. Ready(p)
  BY <1>2, <1>4 DEF Ready, Based
<1>6. /\ draft[c] = None /\ Room /\ UNCHANGED <<tables, release, clock>>
      /\ draft' = [draft EXCEPT ![c] = p]
  BY <1>1 DEF PreviewCreate, s
<1> HIDE DEF p
<1> QED BY <1>4, <1>5, <1>6, NewDraft

\* Every command on a stored row gives the next version of it.
LEMMA CommandFacts ==
    ASSUME Inv, NEW w \in Stored, watchlists[w].version < MaxVersion,
           NEW s \in Edited(watchlists[w]) \cup Defaulted(watchlists[w]) \cup Deleted(watchlists[w])
                         \cup Restored(watchlists[w]) \cup RolledBack(w, watchlists[w])
    PROVE  s \in Snapshot /\ s.version = watchlists[w].version + 1
<1>0. PICK r : r = watchlists[w]
  OBVIOUS
<1> SUFFICES s \in Snapshot /\ s.version = r.version + 1
  BY <1>0
<1>1. r \in Snapshot /\ w \in Watchlists /\ r.version < MaxVersion
  BY <1>0 DEF Inv, TypeOK, Stored
<1>2. Bumped(r) \in Snapshot /\ Bumped(r).version = r.version + 1
  BY <1>1, BumpedFacts
<1>3. CASE s \in RolledBack(w, r)
  <2>1. PICK v \in Versions : /\ revisions[w][v] # None
                              /\ s = [revisions[w][v].snapshot EXCEPT !.version = r.version + 1,
                                                                      !.deleted = FALSE]
    BY <1>3 DEF RolledBack
  <2>2. revisions[w][v].snapshot \in Snapshot
    BY <1>1, <2>1 DEF Inv, TypeOK, Revision
  <2>3. r.version + 1 \in Versions
    BY <1>1, VersionFacts DEF Snapshot
  <2> QED BY <2>1, <2>2, <2>3 DEF Snapshot
<1>4. CASE s \in Edited(r)
  BY <1>2, <1>4 DEF Edited, Snapshot
<1>5. CASE s \in Defaulted(r)
  BY <1>2, <1>5 DEF Defaulted, Snapshot
<1>6. CASE s \in Deleted(r)
  BY <1>2, <1>6 DEF Deleted, Snapshot
<1>7. CASE s \in Restored(r)
  BY <1>2, <1>7 DEF Restored, Snapshot
<1> QED BY <1>3, <1>4, <1>5, <1>6, <1>7, <1>0

LEMMA UpdateStep ==
    ASSUME Inv, NEW c \in Clients, PreviewUpdate(c)
    PROVE  Inv'
<1>1. PICK w \in Stored : LET before == watchlists[w] IN
        /\ before.version < MaxVersion
        /\ \/ \E after \in Edited(before), bound \in {None, release} :
                draft' = [draft EXCEPT ![c] = Draft("update", w, before, after, bound)]
           \/ \E after \in Defaulted(before) \cup Deleted(before) \cup Restored(before)
                             \cup RolledBack(w, before) :
                draft' = [draft EXCEPT ![c] = Draft("update", w, before, after, None)]
  BY DEF PreviewUpdate
<1>2. PICK s \in Edited(watchlists[w]) \cup Defaulted(watchlists[w]) \cup Deleted(watchlists[w])
                     \cup Restored(watchlists[w]) \cup RolledBack(w, watchlists[w]),
           bound \in {None, release} :
          draft' = [draft EXCEPT ![c] = Draft("update", w, watchlists[w], s, bound)]
  BY <1>1
<1> DEFINE p == Draft("update", w, watchlists[w], s, bound)
<1>3. s \in Snapshot /\ s.version = watchlists[w].version + 1
  BY <1>1, <1>2, CommandFacts
<1>4. watchlists[w] \in Snapshot /\ w \in Watchlists /\ Chain(w) /\ release \in Releases
  BY DEF Inv, TypeOK, Stored
<1>5. Seen(w, watchlists[w])
  BY <1>4, VersionFacts DEF Seen, Chain, Snapshot, Versions
<1>6. clock + PREVIEW_TTL \in Nat /\ watchlists[w].version \in Versions
  BY <1>4, LimitsAssumption DEF Inv, TypeOK, Snapshot
<1>7. /\ p.type = "update" /\ p.before = watchlists[w] /\ p.after = s /\ p.demoted = None
      /\ p.id = w /\ ~p.consumed /\ p.expected[w] = watchlists[w].version
  BY <1>4, NoneAssumption DEF Draft
<1>8. p \in Preview
  BY <1>3, <1>4, <1>6 DEF Draft, Preview
<1>9. Ready(p)
  BY <1>3, <1>4, <1>5, <1>7, NoneAssumption DEF Ready, Based
<1>10. draft[c] = None /\ Room /\ UNCHANGED <<tables, release, clock>>
  BY DEF PreviewUpdate
<1> HIDE DEF p
<1>11. draft' = [draft EXCEPT ![c] = p]
  BY <1>2 DEF p
<1> QED BY <1>7, <1>8, <1>9, <1>10, <1>11, NewDraft

\* A stored preview stays sound as long as no revision is rewritten.
LEMMA SoundKept ==
    ASSUME NEW q \in Preview, Sound(q), NEW i,
           \A w \in Watchlists, v \in Versions :
               revisions[w][v] # None => revisions'[w][v] = revisions[w][v],
           previews'[i].type = q.type, previews'[i].id = q.id, previews'[i].before = q.before,
           previews'[i].after = q.after, previews'[i].demoted = q.demoted,
           previews'[i].demotion = q.demotion, previews'[i].expected = q.expected
    PROVE  Sound(previews[i])'
<1> USE DEF Based
<1>1. ASSUME NEW w \in Watchlists, NEW s \in Snapshot, Seen(w, s) PROVE Seen(w, s)'
  BY <1>1 DEF Seen, Snapshot
<1>2. q.id \in Watchlists /\ q.before \in Snapshot \cup {None} /\ q.demoted \in Watchlists \cup {None}
  BY DEF Preview
<1>3. (previews[i].before = None => previews[i].type = "create" /\ previews[i].after.version = 1)'
  BY DEF Sound
<1>4. (previews[i].before # None =>
          /\ Seen(previews[i].id, previews[i].before)
          /\ previews[i].after.version = previews[i].before.version + 1
          /\ previews[i].expected[previews[i].id] = previews[i].before.version)'
  <2>1. q.before # None => Seen(q.id, q.before)'
    BY <1>1, <1>2 DEF Sound
  <2> QED BY <2>1 DEF Sound, Seen
<1>5. (previews[i].demoted # None =>
          /\ previews[i].demoted # previews[i].id /\ ActiveDefault(previews[i].after)
          /\ \E s \in Snapshot : Announced(previews[i], s))'
  <2>1. SUFFICES ASSUME q.demoted # None
                 PROVE  (/\ previews[i].demoted # previews[i].id /\ ActiveDefault(previews[i].after)
                         /\ \E s \in Snapshot : Announced(previews[i], s))'
    OBVIOUS
  <2>2. PICK s \in Snapshot : Announced(q, s)
    BY <2>1 DEF Sound
  <2>3. Seen(q.demoted, s)'
    BY <1>1, <1>2, <2>1, <2>2 DEF Announced
  <2>4. Announced(previews[i], s)'
    BY <2>2, <2>3 DEF Announced, Seen, ActiveDefault
  <2> QED BY <2>1, <2>4 DEF Sound, ActiveDefault
<1> QED BY <1>3, <1>4, <1>5 DEF Sound

\* The end of a draft leaves room for what it may have stored.
LEMMA DraftEnds ==
    ASSUME Inv, NEW c \in Clients, draft[c] # None, draft' = [draft EXCEPT ![c] = None],
           UNCHANGED <<watchlists, revisions, release, clock>>
    PROVE  /\ draft' \in [Clients -> Preview \cup {None}]
           /\ Cardinality(Drafting') = Cardinality(Drafting) - 1
           /\ \A w \in Watchlists : Chain(w)'
           /\ OneDefault'
           /\ \A d \in Clients :
                (draft[d] # None => Ready(draft[d]))'
<1>1. draft' \in [Clients -> Preview \cup {None}]
  BY DEF Inv, TypeOK
<1>2. Cardinality(Drafting') = Cardinality(Drafting) - 1
  <2>1. Drafting' = Drafting \ {c} /\ c \in Drafting
    BY DEF Inv, Drafting, TypeOK
  <2> QED BY <2>1, DraftingFinite, FS_RemoveElement
<1>3. (\A w \in Watchlists : Chain(w)') /\ OneDefault'
  BY TablesKept DEF Inv
<1>4. ASSUME NEW d \in Clients
      PROVE  (draft[d] # None => Ready(draft[d]))'
  <2>1. draft'[d] = IF d = c THEN None ELSE draft[d]
    BY DEF Inv, TypeOK
  <2>2. draft[d] # None => Ready(draft[d])
    BY DEF Inv
  <2> QED BY <2>1, <2>2 DEF Ready, Based, Seen, Stored, ActiveDefault
<1> QED BY <1>1, <1>2, <1>3, <1>4

\* A preview that is stored is sound and confirmed by nothing yet.
LEMMA Stores ==
    ASSUME Inv, NEW c \in Clients, draft[c] # None, draft' = [draft EXCEPT ![c] = None],
           NEW p \in Preview, Sound(p), ~p.consumed, previews' = Append(previews, p),
           UNCHANGED <<watchlists, revisions, release, clock>>
    PROVE  Inv'
<1>1. TypeOK /\ previews \in Seq(Preview) /\ Len(previews) \in Nat
  BY LenProperties DEF Inv, TypeOK
<1>2. /\ previews' \in Seq(Preview) /\ Len(previews') = Len(previews) + 1
      /\ \A i \in 1..Len(previews) : previews'[i] = previews[i]
      /\ previews'[Len(previews) + 1] = p
      /\ DOMAIN previews = 1..Len(previews) /\ DOMAIN previews' = 1..Len(previews')
  BY <1>1, AppendProperties, LenProperties
<1>3. Len(previews') + Cardinality(Drafting') <= MaxPreviews
  <2>1. Len(previews) + Cardinality(Drafting) <= MaxPreviews
    BY DEF Inv
  <2>2. Cardinality(Drafting') = Cardinality(Drafting) - 1
    BY <1>1, DraftEnds
  <2> QED BY <1>1, <1>2, <2>1, <2>2, DraftingFinite, LimitsAssumption
<1>4. Len(previews') <= MaxPreviews
  <2>1. Cardinality(Drafting) >= 1
    <3>1. Drafting # {}
      BY DEF Drafting
    <3> QED BY <3>1, DraftingFinite, FS_EmptySet
  <2>2. Len(previews) + Cardinality(Drafting) <= MaxPreviews
    BY DEF Inv
  <2> QED BY <1>1, <1>2, <2>1, <2>2, DraftingFinite, LimitsAssumption
<1>5. TypeOK'
  BY <1>1, <1>2, <1>4, DraftEnds DEF TypeOK
<1>6. ASSUME NEW i \in DOMAIN previews' PROVE Sound(previews[i])'
  <2>1. CASE i \in 1..Len(previews)
    <3>1. PICK q \in Preview : q = previews[i]
      BY <1>1, <1>2, <2>1
    <3>2. Sound(q) /\ previews'[i] = q /\ UNCHANGED revisions
      BY <1>2, <2>1, <3>1 DEF Inv
    <3> QED BY <3>2, SoundKept
  <2>2. CASE i = Len(previews) + 1
    <3>1. Sound(p) /\ previews'[i] = p /\ UNCHANGED revisions
      BY <1>2, <2>2
    <3> QED BY <3>1, SoundKept
  <2> QED BY <1>1, <1>2, <2>1, <2>2
<1>7. Confirmed'
  BY <1>1, <1>2 DEF Inv, Confirmed
<1>8. ASSUME NEW i \in DOMAIN previews', NEW w \in Watchlists PROVE Applied(i, w)'
  <2>1. CASE i \in 1..Len(previews)
    <3>1. Applied(i, w) /\ previews'[i] = previews[i]
      BY <1>2, <2>1 DEF Inv
    <3> QED BY <3>1 DEF Applied, ConfirmedBy
  <2>2. CASE i = Len(previews) + 1
    <3>1. i \notin DOMAIN previews
      BY <1>1, <1>2, <2>2
    <3>2. ConfirmedBy(w, i)' = {}
      BY <3>1 DEF Inv, Confirmed, ConfirmedBy
    <3>3. previews'[i] = p
      BY <1>2, <2>2
    <3> QED BY <3>2, <3>3 DEF Applied
  <2> QED BY <1>1, <1>2, <2>1, <2>2
<1> QED BY <1>3, <1>5, <1>6, <1>7, <1>8, DraftEnds DEF Inv

\* A draft finds the watchlist it has to demote.
LEMMA ReadDefaultStep ==
    ASSUME Inv, NEW c \in Clients, ReadDefault(c)
    PROVE  Inv'
<1>1. PICK p : p = draft[c]
  OBVIOUS
<1>2. PICK d \in ToDemote(p) : draft' = [draft EXCEPT ![c] = [p EXCEPT !.demoted = d]]
  BY <1>1 DEF ReadDefault
<1>3. /\ p \in Preview /\ p # None /\ Ready(p)
      /\ UNCHANGED <<watchlists, revisions, previews, release, clock>>
  BY <1>1 DEF Inv, TypeOK, ReadDefault, tables
<1>4. ActiveDefault(p.after) /\ d # p.id /\ d \in Watchlists /\ d \in Stored
  <2>1. ActiveDefault(p.after) /\ d \in Defaults \ {p.id}
    BY <1>2 DEF ToDemote
  <2> QED BY <2>1 DEF Defaults, ActiveDefault, Stored
<1>5. PICK q : q = [p EXCEPT !.demoted = d]
  OBVIOUS
<1>6. /\ q \in Preview /\ q.demoted = d /\ q.id = p.id /\ q.before = p.before
      /\ q.after = p.after /\ q.type = p.type /\ q.expected = p.expected
      /\ q.consumed = p.consumed
  BY <1>3, <1>4, <1>5 DEF Preview
<1>7. Ready(q)
  BY <1>3, <1>4, <1>6 DEF Ready, Based
<1>8. draft' \in [Clients -> Preview \cup {None}]
  BY <1>2, <1>5, <1>6 DEF Inv, TypeOK
<1>9. TypeOK'
  BY <1>3, <1>8 DEF Inv, TypeOK
<1>10. Drafting' = Drafting
  BY <1>1, <1>2, <1>3, <1>5, <1>6, NoneAssumption DEF Inv, TypeOK, Drafting
<1>11. Len(previews') + Cardinality(Drafting') <= MaxPreviews
  BY <1>3, <1>10 DEF Inv
<1>12. /\ \A w \in Watchlists : Chain(w)'
       /\ OneDefault' /\ \A i \in DOMAIN previews' : Sound(previews[i])'
  BY <1>3, TablesKept DEF Inv
<1>13. ASSUME NEW e \in Clients PROVE (draft[e] # None => Ready(draft[e]))'
  <2>1. draft'[e] = IF e = c THEN q ELSE draft[e]
    BY <1>2, <1>5 DEF Inv, TypeOK
  <2>2. draft[e] # None => Ready(draft[e])
    BY DEF Inv
  <2> QED BY <1>3, <1>7, <2>1, <2>2 DEF Ready, Based, Seen, Stored, ActiveDefault
<1>14. Confirmed' /\ \A i \in DOMAIN previews', w \in Watchlists : Applied(i, w)'
  BY <1>3 DEF Inv, Confirmed, Applied, ConfirmedBy
<1> QED BY <1>9, <1>11, <1>12, <1>13, <1>14 DEF Inv

LEMMA StoreStep ==
    ASSUME Inv, NEW c \in Clients, StorePreview(c)
    PROVE  Inv'
<1>1. PICK p : p = draft[c]
  OBVIOUS
<1>2. p \in Preview /\ p # None /\ Ready(p)
  BY <1>1 DEF Inv, TypeOK, StorePreview
<1>3. draft[c] # None /\ draft' = [draft EXCEPT ![c] = None]
      /\ UNCHANGED <<watchlists, revisions, release, clock>>
  BY DEF StorePreview
<1>4. ASSUME p.demoted = None, previews' = Append(previews, p) PROVE Inv'
  <2>1. Sound(p) /\ ~p.consumed
    BY <1>2, <1>4 DEF Ready, Sound
  <2> QED BY <1>2, <1>3, <1>4, <2>1, Stores
<1>5. ASSUME p.demoted # None, watchlists[p.demoted].version < MaxVersion,
             previews' = Append(previews,
                  [p EXCEPT !.demotion = Demoted(watchlists[p.demoted]),
                            !.expected[p.demoted] = watchlists[p.demoted].version])
      PROVE  Inv'
  <2>1. PICK d, s : d = p.demoted /\ s = watchlists[d]
    OBVIOUS
  <2>2. /\ s \in Snapshot /\ d \in Watchlists /\ d \in Stored /\ d # p.id
        /\ s.version < MaxVersion /\ ActiveDefault(p.after)
    BY <1>2, <1>5, <2>1 DEF Inv, TypeOK, Ready, Stored
  <2>3. Bumped(s) \in Snapshot /\ s.version \in Versions
    BY <2>2, BumpedFacts DEF Snapshot
  <2>4. Demoted(s) \in Snapshot
    BY <2>3 DEF Demoted, Snapshot
  <2> DEFINE q == [p EXCEPT !.demotion = Demoted(s), !.expected[d] = s.version]
  <2>5. [p.expected EXCEPT ![d] = s.version] \in [Watchlists -> Versions \cup {None}]
    BY <1>2, <2>3 DEF Preview
  <2>6. q \in Preview
    BY <1>2, <2>2, <2>4, <2>5 DEF Preview
  <2>7. /\ q.demoted = d /\ q.demotion = Demoted(s)
        /\ q.expected = [p.expected EXCEPT ![d] = s.version]
        /\ q.id = p.id /\ q.before = p.before /\ q.after = p.after /\ q.type = p.type
        /\ q.consumed = p.consumed
    BY <1>2, <2>1 DEF Preview
  <2> HIDE DEF q
  <2>8. q.expected[d] = s.version /\ q.expected[q.id] = p.expected[p.id]
    BY <1>2, <2>2, <2>7 DEF Preview
  <2>9. Seen(d, s)
    <3>1. Chain(d)
      BY <2>2 DEF Inv
    <3> QED BY <2>1, <2>2, <2>3, <3>1, VersionFacts DEF Chain, Seen, Versions
  <2>10. Announced(q, s)
    BY <2>2, <2>4, <2>7, <2>8, <2>9 DEF Announced, Demoted, Bumped
  <2>11. Sound(q) /\ ~q.consumed
    BY <1>2, <2>2, <2>7, <2>8, <2>10 DEF Sound, Ready, Based
  <2>12. previews' = Append(previews, q)
    BY <1>5, <2>1 DEF q
  <2> QED BY <1>3, <2>6, <2>11, <2>12, Stores
<1> QED BY <1>1, <1>4, <1>5 DEF StorePreview

LEMMA AbandonStep ==
    ASSUME Inv, NEW c \in Clients, AbandonPreview(c)
    PROVE  Inv'
<1>1. draft[c] # None /\ draft' = [draft EXCEPT ![c] = None]
      /\ UNCHANGED <<watchlists, revisions, previews, release, clock>>
  BY DEF AbandonPreview, tables
<1>2. TypeOK /\ Len(previews) \in Nat
  BY LenProperties DEF Inv, TypeOK
<1>3. TypeOK'
  BY <1>1, <1>2, DraftEnds DEF TypeOK
<1>4. Len(previews') + Cardinality(Drafting') <= MaxPreviews
  <2>1. Len(previews) + Cardinality(Drafting) <= MaxPreviews
    BY DEF Inv
  <2>2. Cardinality(Drafting') = Cardinality(Drafting) - 1
    BY <1>1, DraftEnds
  <2> QED BY <1>1, <1>2, <2>1, <2>2, DraftingFinite, LimitsAssumption
<1>5. ASSUME NEW i \in DOMAIN previews' PROVE Sound(previews[i])'
  <2>1. Sound(previews[i])
    BY <1>1, <1>5 DEF Inv
  <2> QED BY <1>1, <2>1 DEF Sound, Based, Announced, Seen, ActiveDefault
<1>6. Confirmed' /\ \A i \in DOMAIN previews', w \in Watchlists : Applied(i, w)'
  BY <1>1 DEF Inv, Confirmed, Applied, ConfirmedBy
<1> QED BY <1>1, <1>3, <1>4, <1>5, <1>6, DraftEnds DEF Inv

\* The clock, the active release and stuttering.
LEMMA EnvironmentStep ==
    ASSUME Inv, ActivateRelease \/ Tick \/ UNCHANGED vars
    PROVE  Inv'
<1>1. UNCHANGED <<watchlists, revisions, previews, draft>>
  BY DEF ActivateRelease, Tick, vars, tables
<1>2. release' \in Releases
  BY DEF ActivateRelease, Tick, vars, Inv, TypeOK
<1>3. clock' \in 0..MaxTime
  <2>1. clock \in 0..MaxTime /\ MaxTime \in Nat
    BY LimitsAssumption DEF Inv, TypeOK
  <2> QED BY <2>1 DEF ActivateRelease, Tick, vars
<1>4. TypeOK'
  BY <1>1, <1>2, <1>3 DEF Inv, TypeOK
<1>5. Len(previews') + Cardinality(Drafting') <= MaxPreviews
  BY <1>1 DEF Inv, Drafting
<1>6. ASSUME NEW i \in DOMAIN previews' PROVE Sound(previews[i])'
  <2>1. Sound(previews[i])
    BY <1>1, <1>6 DEF Inv
  <2> QED BY <1>1, <2>1 DEF Sound, Based, Announced, Seen, ActiveDefault
<1>7. ASSUME NEW d \in Clients
      PROVE  (draft[d] # None => Ready(draft[d]))'
  <2>1. draft[d] # None => Ready(draft[d])
    BY DEF Inv
  <2> QED BY <1>1, <2>1 DEF Ready, Based, Seen, Stored, ActiveDefault
<1>8. Confirmed' /\ \A i \in DOMAIN previews', w \in Watchlists : Applied(i, w)'
  BY <1>1 DEF Inv, Confirmed, Applied, ConfirmedBy
<1>9. (\A w \in Watchlists : Chain(w)') /\ OneDefault'
  BY <1>1, TablesKept DEF Inv
<1> QED BY <1>4, <1>5, <1>6, <1>7, <1>8, <1>9 DEF Inv

-----------------------------------------------------------------------------
(* Commit *)

\* The rows that the commit of p writes.
Targets(p) == {p.id, p.demoted} \ {None}
NewRow(p, w) == IF w = p.id THEN p.after ELSE p.demotion

\* If the versions still hold, the rows are the ones that the preview has seen.
LEMMA RowsHold ==
    ASSUME Inv, NEW p \in Preview, Sound(p), VersionsHold(p)
    PROVE  /\ p.before # None => watchlists[p.id] = p.before
           /\ p.demoted # None => Announced(p, watchlists[p.demoted])
<1>1. p.id \in Watchlists /\ p.demoted \in Watchlists \cup {None}
  BY DEF Preview
<1>2. \A w \in Watchlists : Chain(w)
  BY DEF Inv
<1>3. ASSUME NEW w \in Watchlists, NEW s, Seen(w, s), p.expected[w] = s.version
      PROVE  watchlists[w] = s
  <2>1. s.version \in Versions
    BY <1>3 DEF Seen, Snapshot
  <2>2. watchlists[w] # None /\ watchlists[w].version = s.version
    BY <1>3, <2>1, NoneAssumption DEF VersionsHold
  <2> QED BY <1>2, <1>3, <2>2 DEF Chain, Stored, Seen
<1>4. p.before # None => watchlists[p.id] = p.before
  BY <1>1, <1>3 DEF Sound, Based
<1>5. ASSUME p.demoted # None PROVE Announced(p, watchlists[p.demoted])
  <2>1. PICK s \in Snapshot : Announced(p, s)
    BY <1>5 DEF Sound
  <2>2. watchlists[p.demoted] = s
    BY <1>1, <1>3, <1>5, <2>1 DEF Announced
  <2> QED BY <2>1, <2>2
<1> QED BY <1>4, <1>5

LEMMA CommitPreview ==
    ASSUME Inv, NEW i, Commit(i)
    PROVE  LET p == previews[i] IN
           /\ i \in DOMAIN previews /\ p \in Preview /\ Sound(p) /\ ~p.consumed
           /\ VersionsHold(p) /\ IndexAccepts(p) /\ KeysAccept(p)
           /\ previews' \in Seq(Preview) /\ Len(previews') = Len(previews)
           /\ DOMAIN previews' = DOMAIN previews
           /\ \A j \in DOMAIN previews : j # i => previews'[j] = previews[j]
           /\ previews'[i] = [p EXCEPT !.consumed = TRUE]
<1>1. /\ i \in DOMAIN previews /\ ~previews[i].consumed
      /\ VersionsHold(previews[i]) /\ IndexAccepts(previews[i]) /\ KeysAccept(previews[i])
      /\ previews' = [previews EXCEPT ![i] = [previews[i] EXCEPT !.consumed = TRUE]]
  BY DEF Commit, Pending
<1>2. previews \in Seq(Preview) /\ DOMAIN previews = 1..Len(previews)
  BY LenProperties DEF Inv, TypeOK
<1>3. previews[i] \in Preview /\ Sound(previews[i])
  BY <1>1, <1>2 DEF Inv
<1>4. [previews[i] EXCEPT !.consumed = TRUE] \in Preview
  BY <1>3 DEF Preview
<1>5. /\ previews' \in Seq(Preview) /\ Len(previews') = Len(previews)
      /\ \A j \in 1..Len(previews) :
            previews'[j] = IF j = i THEN [previews[i] EXCEPT !.consumed = TRUE] ELSE previews[j]
  BY <1>1, <1>2, <1>4, ExceptSeq
<1>6. DOMAIN previews' = 1..Len(previews')
  BY <1>5, LenProperties
<1> QED BY <1>1, <1>2, <1>3, <1>5, <1>6

LEMMA CommitWrites ==
    ASSUME Inv, NEW i, Commit(i), NEW p, p = previews[i]
    PROVE  /\ Targets(p) \subseteq Watchlists
           /\ \A w \in Targets(p) :
                /\ NewRow(p, w) \in Snapshot /\ watchlists'[w] = NewRow(p, w)
                /\ NewRow(p, w).version = IF watchlists[w] = None THEN 1
                                          ELSE watchlists[w].version + 1
                /\ revisions[w][NewRow(p, w).version] = None
                /\ revisions'[w][NewRow(p, w).version].snapshot = NewRow(p, w)
                /\ revisions'[w][NewRow(p, w).version].confirmation = i
                /\ revisions'[w][NewRow(p, w).version].previous =
                      IF watchlists[w] = None THEN None ELSE watchlists[w]
                /\ revisions'[w][NewRow(p, w).version] \in Revision
           /\ \A w \in Watchlists \ Targets(p) : watchlists'[w] = watchlists[w]
           /\ \A w \in Watchlists, v \in Versions :
                ~(w \in Targets(p) /\ v = NewRow(p, w).version) =>
                    revisions'[w][v] = revisions[w][v]
           /\ watchlists' \in [Watchlists -> Snapshot \cup {None}]
           /\ DOMAIN revisions' = Watchlists
           /\ \A w \in Watchlists : DOMAIN revisions'[w] = Versions
           /\ \A w \in Watchlists : revisions'[w] = [v \in Versions |-> revisions'[w][v]]
           /\ revisions' = [w \in Watchlists |-> revisions'[w]]
<1>1. /\ p \in Preview /\ Sound(p) /\ VersionsHold(p) /\ KeysAccept(p)
      /\ watchlists' = WrittenRows(p) /\ revisions' = WrittenRevisions(p, i)
  BY CommitPreview DEF Commit
<1>2. Targets(p) \subseteq Watchlists /\ p.id \in Targets(p)
  BY <1>1, NoneAssumption DEF Targets, Preview
<1>3. p.demoted # None => Announced(p, watchlists[p.demoted]) /\ p.demoted # p.id
  BY <1>1, RowsHold DEF Sound
<1>4. \A w \in Targets(p) : NewRow(p, w) \in Snapshot
  BY <1>1, <1>3 DEF Targets, NewRow, Preview, Announced
<1>5. \A w \in Watchlists : watchlists'[w] = IF w \in Targets(p) THEN NewRow(p, w) ELSE watchlists[w]
  <2>1. ASSUME NEW w \in Watchlists
        PROVE  WrittenRows(p)[w] = IF w = p.id THEN p.after
                                   ELSE IF w = p.demoted THEN p.demotion ELSE watchlists[w]
    <3>1. CASE w = p.id /\ w = p.demoted
      BY <1>3, <3>1, NoneAssumption
    <3>2. CASE w = p.id /\ w # p.demoted
      BY <3>2 DEF WrittenRows
    <3>3. CASE w # p.id /\ w = p.demoted
      BY <3>3 DEF WrittenRows
    <3>4. CASE w # p.id /\ w # p.demoted
      BY <3>4 DEF WrittenRows
    <3> QED BY <3>1, <3>2, <3>3, <3>4
  <2> QED BY <1>1, <2>1, NoneAssumption DEF Targets, NewRow
<1>6. ASSUME NEW w \in Targets(p)
      PROVE  NewRow(p, w).version = IF watchlists[w] = None THEN 1 ELSE watchlists[w].version + 1
  <2>1. CASE w = p.id /\ p.before = None
    BY <1>1, <2>1 DEF Sound, Based, KeysAccept, NewRow
  <2>2. CASE w = p.id /\ p.before # None
    BY <1>1, <2>2, RowsHold DEF Sound, Based, NewRow
  <2>3. CASE w # p.id
    <3>1. w = p.demoted /\ Announced(p, watchlists[w])
      BY <1>3, <2>3 DEF Targets
    <3>2. watchlists[w] # None /\ watchlists[w] \in Snapshot
      BY <3>1, NoneAssumption DEF Announced, Seen
    <3>3. p.demotion.version = watchlists[w].version + 1
      BY <3>1, <3>2 DEF Announced, Snapshot
    <3> QED BY <2>3, <3>2, <3>3 DEF NewRow
  <2> QED BY <2>1, <2>2, <2>3
<1>7. \A w \in Targets(p) : WrittenRows(p)[w] = NewRow(p, w)
  BY <1>1, <1>2, <1>5
<1>8. \A w \in Targets(p) : revisions[w][NewRow(p, w).version] = None
  BY <1>1, <1>7 DEF KeysAccept, Targets
<1>9. \A w \in Watchlists, v \in Versions :
        revisions'[w][v] =
            IF w \in Targets(p) /\ v = NewRow(p, w).version
            THEN [snapshot |-> NewRow(p, w),
                  previous |-> IF v > 1 /\ revisions[w][v - 1] # None
                               THEN revisions[w][v - 1].snapshot ELSE None,
                  confirmation |-> i]
            ELSE revisions[w][v]
  <2>1. \A w \in Watchlists : w \in {p.id, p.demoted} <=> w \in Targets(p)
    BY NoneAssumption DEF Targets
  <2> QED BY <1>1, <1>7, <2>1 DEF WrittenRevisions
<1>10. ASSUME NEW w \in Targets(p)
       PROVE  LET n == NewRow(p, w).version IN
              (IF n > 1 /\ revisions[w][n - 1] # None THEN revisions[w][n - 1].snapshot ELSE None)
                  = IF watchlists[w] = None THEN None ELSE watchlists[w]
  <2>1. Chain(w) /\ watchlists[w] \in Snapshot \cup {None} /\ w \in Watchlists
    BY <1>2 DEF Inv, TypeOK
  <2>2. CASE watchlists[w] = None
    BY <1>6, <2>2
  <2>3. CASE watchlists[w] # None
    <3>1. watchlists[w].version \in Versions /\ watchlists[w].version >= 1
      BY <2>1, <2>3 DEF Snapshot, Versions
    <3>2. revisions[w][watchlists[w].version] # None
          /\ revisions[w][watchlists[w].version].snapshot = watchlists[w]
      BY <2>1, <2>3, <3>1, VersionFacts DEF Chain, Stored, Versions
    <3>3. NewRow(p, w).version > 1 /\ NewRow(p, w).version - 1 = watchlists[w].version
      <4>1. watchlists[w].version \in Nat
        BY <3>1, VersionFacts
      <4>2. NewRow(p, w).version = watchlists[w].version + 1
        BY <1>6, <2>3
      <4> QED BY <3>1, <4>1, <4>2
    <3> QED BY <2>3, <3>2, <3>3
  <2> QED BY <2>2, <2>3
<1>11. ASSUME NEW w \in Targets(p)
       PROVE  /\ revisions'[w][NewRow(p, w).version] =
                     [snapshot |-> NewRow(p, w),
                      previous |-> IF watchlists[w] = None THEN None ELSE watchlists[w],
                      confirmation |-> i]
              /\ revisions'[w][NewRow(p, w).version] \in Revision
  <2>1. NewRow(p, w).version \in Versions /\ w \in Watchlists
    BY <1>2, <1>4 DEF Snapshot
  <2>2. revisions'[w][NewRow(p, w).version] =
                     [snapshot |-> NewRow(p, w),
                      previous |-> IF watchlists[w] = None THEN None ELSE watchlists[w],
                      confirmation |-> i]
    BY <1>9, <1>10, <2>1
  <2>3. watchlists[w] \in Snapshot \cup {None} /\ i \in 1..MaxPreviews
    <3>1. i \in 1..Len(previews) /\ Len(previews) <= MaxPreviews /\ Len(previews) \in Nat
      BY CommitPreview, LenProperties DEF Inv, TypeOK
    <3> QED BY <2>1, <3>1, LimitsAssumption DEF Inv, TypeOK
  <2>4. revisions'[w][NewRow(p, w).version] \in Revision
    BY <1>4, <2>2, <2>3 DEF Revision
  <2> QED BY <2>2, <2>4
<1>12. /\ revisions' = [w \in Watchlists |-> revisions'[w]]
       /\ \A w \in Watchlists : revisions'[w] = [v \in Versions |-> revisions'[w][v]]
  BY <1>1 DEF WrittenRevisions
<1>13. watchlists' \in [Watchlists -> Snapshot \cup {None}]
  <2>1. watchlists' = [w \in Watchlists |-> watchlists'[w]]
    BY <1>1 DEF WrittenRows
  <2> QED BY <1>4, <1>5, <2>1 DEF Inv, TypeOK
<1>14. \A w \in Targets(p) :
          /\ NewRow(p, w) \in Snapshot /\ watchlists'[w] = NewRow(p, w)
          /\ revisions[w][NewRow(p, w).version] = None
  BY <1>2, <1>4, <1>5, <1>8
<1>15. \A w \in Watchlists \ Targets(p) : watchlists'[w] = watchlists[w]
  BY <1>5
<1>16. \A w \in Watchlists, v \in Versions :
          ~(w \in Targets(p) /\ v = NewRow(p, w).version) => revisions'[w][v] = revisions[w][v]
  BY <1>9
<1>17. DOMAIN revisions' = Watchlists /\ \A w \in Watchlists : DOMAIN revisions'[w] = Versions
  BY <1>12
<1>18. \A w \in Targets(p) :
          /\ revisions'[w][NewRow(p, w).version].snapshot = NewRow(p, w)
          /\ revisions'[w][NewRow(p, w).version].confirmation = i
          /\ revisions'[w][NewRow(p, w).version].previous =
                IF watchlists[w] = None THEN None ELSE watchlists[w]
          /\ revisions'[w][NewRow(p, w).version] \in Revision
  <2> SUFFICES ASSUME NEW w \in Targets(p)
               PROVE  /\ revisions'[w][NewRow(p, w).version].snapshot = NewRow(p, w)
                      /\ revisions'[w][NewRow(p, w).version].confirmation = i
                      /\ revisions'[w][NewRow(p, w).version].previous =
                            IF watchlists[w] = None THEN None ELSE watchlists[w]
                      /\ revisions'[w][NewRow(p, w).version] \in Revision
    OBVIOUS
  <2>1. PICK before : before = IF watchlists[w] = None THEN None ELSE watchlists[w]
    OBVIOUS
  <2>2. PICK r : r = NewRow(p, w)
    OBVIOUS
  <2>3. /\ revisions'[w][r.version] = [snapshot |-> r, previous |-> before, confirmation |-> i]
        /\ revisions'[w][r.version] \in Revision
    BY <1>11, <2>1, <2>2
  <2> QED BY <2>1, <2>2, <2>3
<1> QED BY <1>2, <1>6, <1>12, <1>13, <1>14, <1>15, <1>16, <1>17, <1>18

\* A commit extends the chains of its targets by one revision each.
LEMMA CommitChain ==
    ASSUME Inv, NEW i, Commit(i), NEW w \in Watchlists
    PROVE  Chain(w)'
<1>1. PICK p : p = previews[i]
  OBVIOUS
<1>2. Chain(w) /\ watchlists[w] \in Snapshot \cup {None}
  BY DEF Inv, TypeOK
<1>3. CASE w \notin Targets(p)
  <2>1. watchlists'[w] = watchlists[w] /\ \A v \in Versions : revisions'[w][v] = revisions[w][v]
    BY <1>1, <1>3, CommitWrites
  <2>2. \A v \in Versions : v # 1 => v - 1 \in Versions
    BY VersionFacts
  <2>3. Chained(w)'
    BY <1>2, <2>1, <2>2 DEF Chain, Chained
  <2>4. w \in Stored => watchlists[w].version \in Versions
    BY <1>2 DEF Stored, Snapshot
  <2> QED BY <1>2, <2>1, <2>3, <2>4 DEF Chain, Stored
<1>4. CASE w \in Targets(p)
  <2>1. PICK r : r = NewRow(p, w)
    OBVIOUS
  <2>2. PICK n : n = r.version
    OBVIOUS
  <2>3. /\ r \in Snapshot /\ watchlists'[w] = r
        /\ n = IF watchlists[w] = None THEN 1 ELSE watchlists[w].version + 1
        /\ revisions'[w][n].snapshot = r
        /\ revisions'[w][n].previous = IF watchlists[w] = None THEN None ELSE watchlists[w]
        /\ revisions'[w][n] # None
        /\ \A v \in Versions : v # n => revisions'[w][v] = revisions[w][v]
    BY <1>1, <1>4, <2>1, <2>2, CommitWrites, NoneAssumption
  <2>4. n \in Versions /\ n \in Nat /\ n >= 1
    <3>1. n \in Versions
      BY <2>2, <2>3 DEF Snapshot
    <3> QED BY <3>1, LimitsAssumption DEF Versions
  <2>5. watchlists[w] # None => watchlists[w].version \in Versions /\ watchlists[w].version = n - 1
    BY <1>2, <2>3 DEF Snapshot, Versions
  <2>6. \A v \in Versions : revisions[w][v] # None <=> v < n
    BY <1>2, <2>3, <2>4, <2>5 DEF Chain, Stored, Versions
  <2>7. \A v \in Versions : revisions'[w][v] # None <=> v <= n
    BY <2>3, <2>4, <2>6 DEF Versions
  <2>8. ASSUME NEW v \in Versions, revisions'[w][v] # None
        PROVE  /\ revisions'[w][v].snapshot.version = v
               /\ IF v = 1 THEN revisions'[w][v].previous = None
                  ELSE /\ revisions'[w][v - 1] # None
                       /\ revisions'[w][v].previous = revisions'[w][v - 1].snapshot
    <3>1. CASE v # n
      <4>1. revisions[w][v] # None /\ revisions'[w][v] = revisions[w][v]
        BY <2>3, <2>8, <3>1
      <4>2. v # 1 => v - 1 \in Versions /\ v - 1 # n
        <5>1. v < n
          BY <2>6, <4>1
        <5> QED BY <2>4, <5>1, VersionFacts
      <4> QED BY <1>2, <2>3, <4>1, <4>2 DEF Chain, Chained
    <3>2. CASE v = n /\ watchlists[w] = None
      BY <2>2, <2>3, <3>2
    <3>3. CASE v = n /\ watchlists[w] # None
      <4>1. v # 1 /\ v - 1 \in Versions /\ v - 1 # n /\ watchlists[w].version = v - 1
        BY <2>4, <2>5, <3>3 DEF Versions
      <4>2. revisions[w][v - 1] # None /\ revisions[w][v - 1].snapshot = watchlists[w]
        BY <1>2, <2>4, <2>6, <3>3, <4>1 DEF Chain, Stored
      <4> QED BY <2>2, <2>3, <3>3, <4>1, <4>2
    <3> QED BY <3>1, <3>2, <3>3
  <2>9. Chained(w)'
    BY <2>8 DEF Chained
  <2>10. watchlists'[w] # None
    BY <2>3, NoneAssumption
  <2> QED BY <2>2, <2>3, <2>7, <2>9, <2>10 DEF Chain, Stored
<1> QED BY <1>3, <1>4

LEMMA CommitDefault ==
    ASSUME Inv, NEW i, Commit(i)
    PROVE  OneDefault'
<1>1. PICK p : p = previews[i]
  OBVIOUS
<1>2. p \in Preview /\ Sound(p) /\ VersionsHold(p) /\ IndexAccepts(p)
  BY <1>1, CommitPreview
<1>3. /\ Targets(p) \subseteq Watchlists
      /\ \A w \in Targets(p) : watchlists'[w] = NewRow(p, w)
      /\ \A w \in Watchlists \ Targets(p) : watchlists'[w] = watchlists[w]
  BY <1>1, CommitWrites
<1>4. Defaults' \subseteq Watchlists /\ \A w \in Watchlists \ Targets(p) : w \in Defaults' <=> w \in Defaults
  BY <1>3 DEF Defaults, ActiveDefault
<1>5. CASE ActiveDefault(p.after)
  <2>1. Defaults \subseteq {p.id, p.demoted}
    BY <1>2, <1>5 DEF IndexAccepts
  <2>2. p.demoted # None => p.demoted # p.id /\ p.demotion.is_default = FALSE
    <3>1. ASSUME p.demoted # None PROVE p.demoted # p.id /\ p.demotion.is_default = FALSE
      <4>1. PICK s \in Snapshot : Announced(p, s)
        BY <1>2, <3>1 DEF Sound
      <4> QED BY <1>2, <3>1, <4>1 DEF Announced, Sound, Snapshot
    <3> QED BY <3>1
  <2>3. p.demoted # None => p.demoted \notin Defaults'
    BY <1>3, <2>2 DEF Targets, NewRow, Defaults, ActiveDefault
  <2>4. Defaults' \subseteq {p.id}
    BY <1>4, <2>1, <2>3, NoneAssumption DEF Targets, Defaults
  <2> QED BY <2>4 DEF OneDefault
<1>6. CASE ~ActiveDefault(p.after)
  <2>1. p.demoted = None
    BY <1>2, <1>6 DEF Sound
  <2>2. Targets(p) = {p.id}
    BY <1>2, <2>1, NoneAssumption DEF Targets, Preview
  <2>3. p.id \notin Defaults'
    BY <1>3, <1>6, <2>2 DEF NewRow, Defaults, ActiveDefault
  <2>4. Defaults' \subseteq Defaults
    BY <1>4, <2>2, <2>3
  <2> QED BY <2>4 DEF Inv, OneDefault
<1> QED BY <1>5, <1>6

LEMMA CommitAudit ==
    ASSUME Inv, NEW i, Commit(i)
    PROVE  Confirmed' /\ \A j \in DOMAIN previews', w \in Watchlists : Applied(j, w)'
<1>1. PICK p : p = previews[i]
  OBVIOUS
<1>2. /\ i \in DOMAIN previews /\ p \in Preview /\ ~p.consumed
      /\ DOMAIN previews' = DOMAIN previews
      /\ \A j \in DOMAIN previews : j # i => previews'[j] = previews[j]
      /\ previews'[i] = [p EXCEPT !.consumed = TRUE]
  BY <1>1, CommitPreview
<1>3. /\ Targets(p) \subseteq Watchlists
      /\ \A w \in Targets(p) :
            /\ NewRow(p, w).version \in Versions
            /\ revisions[w][NewRow(p, w).version] = None
            /\ revisions'[w][NewRow(p, w).version].snapshot = NewRow(p, w)
            /\ revisions'[w][NewRow(p, w).version].confirmation = i
            /\ revisions'[w][NewRow(p, w).version] # None
      /\ \A w \in Watchlists, v \in Versions :
            ~(w \in Targets(p) /\ v = NewRow(p, w).version) => revisions'[w][v] = revisions[w][v]
  BY <1>1, CommitWrites, NoneAssumption DEF Snapshot
<1>4. Confirmed'
  BY <1>2, <1>3 DEF Inv, Confirmed
<1>5. ASSUME NEW j \in DOMAIN previews, j # i, NEW w \in Watchlists PROVE Applied(j, w)'
  <2>1. ConfirmedBy(w, j)' = ConfirmedBy(w, j)
    BY <1>3, <1>5 DEF ConfirmedBy
  <2>2. \A v \in ConfirmedBy(w, j) : revisions'[w][v] = revisions[w][v]
    BY <1>3 DEF ConfirmedBy
  <2>3. Applied(j, w) /\ previews'[j] = previews[j]
    BY <1>2, <1>5 DEF Inv
  <2> QED BY <2>1, <2>2, <2>3 DEF Applied
<1>6. ASSUME NEW w \in Watchlists PROVE Applied(i, w)'
  <2>1. ConfirmedBy(w, i) = {}
    BY <1>1, <1>2 DEF Inv, Applied
  <2>2. /\ previews'[i].consumed = TRUE /\ previews'[i].id = p.id
        /\ previews'[i].demoted = p.demoted /\ previews'[i].after = p.after
        /\ previews'[i].demotion = p.demotion
    BY <1>2 DEF Preview
  <2>3. CASE w \notin Targets(p)
    <3>1. ConfirmedBy(w, i)' = {}
      BY <1>3, <2>1, <2>3 DEF ConfirmedBy
    <3>2. w \notin {p.id, p.demoted}
      BY <2>3, NoneAssumption DEF Targets
    <3> QED BY <2>2, <3>1, <3>2 DEF Applied
  <2>4. CASE w \in Targets(p)
    <3>1. ConfirmedBy(w, i)' = {NewRow(p, w).version}
      BY <1>3, <2>1, <2>4 DEF ConfirmedBy
    <3>2. w \in {p.id, p.demoted}
      BY <2>4 DEF Targets
    <3>3. revisions'[w][NewRow(p, w).version].snapshot = IF w = p.id THEN p.after ELSE p.demotion
      BY <1>3, <2>4 DEF NewRow
    <3> QED BY <2>2, <3>1, <3>2, <3>3 DEF Applied
  <2> QED BY <2>3, <2>4
<1> QED BY <1>2, <1>4, <1>5, <1>6

LEMMA CommitStep ==
    ASSUME Inv, NEW i, Commit(i)
    PROVE  Inv'
<1>1. PICK p : p = previews[i]
  OBVIOUS
<1>2. /\ i \in DOMAIN previews /\ p \in Preview
      /\ previews' \in Seq(Preview) /\ Len(previews') = Len(previews)
      /\ DOMAIN previews' = DOMAIN previews
      /\ \A j \in DOMAIN previews : j # i => previews'[j] = previews[j]
      /\ previews'[i] = [p EXCEPT !.consumed = TRUE]
      /\ UNCHANGED <<release, clock, draft>>
  BY <1>1, CommitPreview DEF Commit
<1>3. /\ Targets(p) \subseteq Watchlists
      /\ \A w \in Targets(p) : /\ revisions[w][NewRow(p, w).version] = None
                               /\ revisions'[w][NewRow(p, w).version] \in Revision
      /\ \A w \in Watchlists, v \in Versions :
            ~(w \in Targets(p) /\ v = NewRow(p, w).version) => revisions'[w][v] = revisions[w][v]
      /\ watchlists' \in [Watchlists -> Snapshot \cup {None}]
      /\ \A w \in Watchlists : revisions'[w] = [v \in Versions |-> revisions'[w][v]]
      /\ revisions' = [w \in Watchlists |-> revisions'[w]]
  BY <1>1, CommitWrites
<1>4. revisions' \in [Watchlists -> [Versions -> Revision \cup {None}]]
  <2>1. \A w \in Watchlists, v \in Versions : revisions'[w][v] \in Revision \cup {None}
    BY <1>3 DEF Inv, TypeOK
  <2>2. \A w \in Watchlists : revisions'[w] \in [Versions -> Revision \cup {None}]
    BY <1>3, <2>1
  <2> QED BY <1>3, <2>2
<1>5. TypeOK'
  BY <1>2, <1>3, <1>4 DEF Inv, TypeOK
<1>6. \A w \in Watchlists, v \in Versions : revisions[w][v] # None => revisions'[w][v] = revisions[w][v]
  BY <1>3
<1>7. Len(previews') + Cardinality(Drafting') <= MaxPreviews
  BY <1>2 DEF Inv, Drafting
<1>8. ASSUME NEW j \in DOMAIN previews' PROVE Sound(previews[j])'
  <2>1. PICK q : q = previews[j]
    OBVIOUS
  <2>2. q \in Preview /\ Sound(q)
    BY <1>2, <1>8, <2>1 DEF Inv, TypeOK
  <2>3. previews'[j] = q \/ previews'[j] = [q EXCEPT !.consumed = TRUE]
    <3>1. CASE j = i
      BY <1>1, <1>2, <2>1, <3>1
    <3>2. CASE j # i
      BY <1>2, <1>8, <2>1, <3>2
    <3> QED BY <3>1, <3>2
  <2>4. LET r == [q EXCEPT !.consumed = TRUE]
        IN /\ r.type = q.type /\ r.id = q.id /\ r.before = q.before
           /\ r.after = q.after /\ r.demoted = q.demoted
           /\ r.demotion = q.demotion /\ r.expected = q.expected
    BY <2>2 DEF Preview
  <2>5. /\ previews'[j].type = q.type /\ previews'[j].id = q.id /\ previews'[j].before = q.before
        /\ previews'[j].after = q.after /\ previews'[j].demoted = q.demoted
        /\ previews'[j].demotion = q.demotion /\ previews'[j].expected = q.expected
    BY <2>3, <2>4
  <2> QED BY <1>6, <2>2, <2>5, SoundKept
<1>9. ASSUME NEW d \in Clients
      PROVE  (draft[d] # None => Ready(draft[d]))'
  <2>1. PICK q : q = draft[d]
    OBVIOUS
  <2>2. draft'[d] = q /\ q \in Preview \cup {None}
    BY <1>2, <2>1 DEF Inv, TypeOK
  <2>3. q # None => Ready(q)
    BY <2>1 DEF Inv
  <2>4. q # None /\ q.before # None => Seen(q.id, q.before)'
    <3>1. q # None /\ q.before # None => Seen(q.id, q.before) /\ q.id \in Watchlists
      BY <2>2, <2>3 DEF Ready, Based, Preview
    <3> QED BY <1>6, <3>1 DEF Seen, Snapshot
  <2>5. Stored \subseteq Stored'
    <3>1. \A w \in Watchlists : watchlists'[w] = watchlists[w] \/ watchlists'[w] \in Snapshot
      BY <1>1, CommitWrites
    <3> QED BY <3>1, NoneAssumption DEF Stored
  <2>6. q # None => Ready(q)'
    BY <2>3, <2>4, <2>5 DEF Ready, Based, ActiveDefault
  <2> QED BY <2>2, <2>6 DEF Ready, Based, Seen, Stored, ActiveDefault
<1> QED BY <1>5, <1>7, <1>8, <1>9, CommitChain, CommitDefault, CommitAudit DEF Inv

LEMMA InvNext == Inv /\ [Next]_vars => Inv'
<1> SUFFICES ASSUME Inv, [Next]_vars PROVE Inv'
  OBVIOUS
<1>1. ASSUME NEW c \in Clients,
             \/ PreviewCreate(c) \/ PreviewUpdate(c)
             \/ ReadDefault(c) \/ StorePreview(c) \/ AbandonPreview(c)
      PROVE  Inv'
  BY <1>1, CreateStep, UpdateStep, ReadDefaultStep, StoreStep, AbandonStep
<1>2. ASSUME NEW i \in 1 .. MaxPreviews, Commit(i) PROVE Inv'
  BY <1>2, CommitStep
<1>3. CASE ActivateRelease \/ Tick \/ UNCHANGED vars
  BY <1>3, EnvironmentStep
<1> QED BY <1>1, <1>2, <1>3 DEF Next

-----------------------------------------------------------------------------
(* Theorems *)

\* A set whose members are all equal has at most one.
LEMMA AtMostOne ==
    ASSUME NEW S, \A x, y \in S : x = y
    PROVE  Cardinality(S) <= 1
<1>1. CASE S = {}
  BY <1>1, FS_EmptySet
<1>2. CASE S # {}
  <2>1. PICK x : x \in S
    BY <1>2
  <2>2. S = {x}
    BY <2>1
  <2> QED BY <2>2, FS_Singleton
<1> QED BY <1>1, <1>2

LEMMA InvMeans == Inv => TypeOK /\ IntegrityHolds /\ AuditTrail /\ AnnouncedSwitchCommits
<1> SUFFICES ASSUME Inv
             PROVE  TypeOK /\ IntegrityHolds /\ AuditTrail /\ AnnouncedSwitchCommits
  OBVIOUS
<1>1. TypeOK
  BY DEF Inv
<1>2. IntegrityHolds
  <2>1. Cardinality(Defaults) <= 1
    BY AtMostOne DEF Inv, OneDefault
  <2> QED BY <2>1 DEF Inv, Chain, IntegrityHolds
<1>3. AuditTrail
  <2>1. ASSUME NEW i \in DOMAIN previews, NEW w \in Watchlists
        PROVE  Cardinality(ConfirmedBy(w, i)) <= 1
    BY AtMostOne DEF Inv, Applied
  <2> QED BY <2>1 DEF Inv, Confirmed, Applied, AuditTrail
<1>4. AnnouncedSwitchCommits
  <2>1. SUFFICES ASSUME NEW i \in Pending, NEW p, p = previews[i], VersionsHold(p),
                        p.demoted # None, ActiveDefault(SeenDemoted(p))
                 PROVE  IndexAccepts(p)
    BY DEF AnnouncedSwitchCommits
  <2>2. p \in Preview /\ Sound(p)
    BY <1>1, <2>1 DEF Pending, Inv, TypeOK
  <2>3. PICK s : s = watchlists[p.demoted]
    OBVIOUS
  <2>4. Announced(p, s) /\ p.demoted \in Watchlists
    BY <2>1, <2>2, <2>3, RowsHold DEF Preview
  <2>5. s \in Snapshot /\ p.demotion.version = s.version + 1 /\ s.version \in Nat
    BY <2>4, VersionFacts DEF Announced, Seen, Snapshot
  <2>6. p.demotion.version - 1 = s.version
    BY <2>5
  <2>7. SeenDemoted(p) = s
    BY <2>4, <2>6 DEF SeenDemoted, Announced, Seen
  <2>8. p.demoted \in Defaults
    BY <2>1, <2>3, <2>4, <2>7 DEF Defaults
  <2> QED BY <2>8 DEF Inv, OneDefault, IndexAccepts
<1> QED BY <1>1, <1>2, <1>3, <1>4

\* Whatever previews are pending and in whichever order they are committed, integrity
\* verification passes, the audit trail is truthful, and a switch of the default that read
\* the row it demotes as that of the default is not refused by the index.
THEOREM StoreSafety ==
    Spec => [](TypeOK /\ IntegrityHolds /\ AuditTrail /\ AnnouncedSwitchCommits)
<1>1. Init => Inv
  BY InvInit
<1>2. Inv /\ [Next]_vars => Inv'
  BY InvNext
<1> QED BY <1>1, <1>2, InvMeans, PTL DEF Spec

\* A commit replaces exactly the row its preview showed, or clears the default flag of a
\* row and changes nothing else in it.
THEOREM NothingIsLost == Spec => NoLostUpdate
<1>1. ASSUME Inv, [Next]_vars
      PROVE  [\A w \in Stored : watchlists'[w] # watchlists[w] =>
                 \E i \in Pending :
                     /\ previews'[i].consumed
                     /\ \/ previews[i].id = w /\ previews[i].before = watchlists[w]
                        \/ /\ previews[i].demoted = w
                           /\ watchlists'[w] = Demoted(watchlists[w])]_vars
  <2>1. ASSUME NEW i, Commit(i), NEW w \in Stored, watchlists'[w] # watchlists[w]
        PROVE  \E j \in Pending :
                   /\ previews'[j].consumed
                   /\ \/ previews[j].id = w /\ previews[j].before = watchlists[w]
                      \/ /\ previews[j].demoted = w
                         /\ watchlists'[w] = Demoted(watchlists[w])
    <3>1. PICK p : p = previews[i]
      OBVIOUS
    <3>2. /\ i \in Pending /\ previews'[i].consumed /\ p \in Preview /\ Sound(p)
          /\ VersionsHold(p) /\ KeysAccept(p)
      BY <1>1, <2>1, <3>1, CommitPreview DEF Pending, Preview
    <3>3. w \in Targets(p) /\ watchlists'[w] = NewRow(p, w) /\ watchlists[w] # None
      BY <1>1, <2>1, <3>1, CommitWrites DEF Stored
    <3>4. CASE w = p.id
      <4>1. p.before # None
        BY <3>2, <3>3, <3>4 DEF Sound, Based, KeysAccept
      <4>2. p.before = watchlists[w]
        BY <1>1, <3>2, <3>4, <4>1, RowsHold
      <4> QED BY <3>1, <3>2, <3>4, <4>2
    <3>5. CASE w # p.id
      <4>1. w = p.demoted /\ Announced(p, watchlists[w])
        BY <1>1, <3>2, <3>3, <3>5, RowsHold DEF Targets
      <4>2. watchlists'[w] = Demoted(watchlists[w])
        BY <3>3, <3>5, <4>1 DEF Announced, Demoted, Bumped, NewRow
      <4> QED BY <3>1, <3>2, <4>1, <4>2
    <3> QED BY <3>4, <3>5
  <2>2. ASSUME ~(\E i : Commit(i)) PROVE UNCHANGED watchlists
    BY <1>1, <2>2 DEF Next, PreviewCreate, PreviewUpdate, ReadDefault, StorePreview, AbandonPreview,
         ActivateRelease, Tick, tables, vars
  <2> QED BY <2>1, <2>2 DEF vars, tables
<1>2. Init => Inv
  BY InvInit
<1>3. Inv /\ [Next]_vars => Inv'
  BY InvNext
<1> QED BY <1>1, <1>2, <1>3, PTL DEF Spec, NoLostUpdate

-----------------------------------------------------------------------------
(* The history *)

\* What a preview will write over its own watchlist is one command on the snapshot it
\* was built from.
Fresh(s) ==
    \E body \in Bodies, default \in BOOLEAN :
        s = [version |-> 1, is_default |-> default, deleted |-> FALSE, body |-> body]

Commanded(p) ==
    IF p.before = None THEN Fresh(p.after)
    ELSE p.after \in Edited(p.before) \cup Defaulted(p.before) \cup Deleted(p.before)
                        \cup Restored(p.before) \cup RolledBack(p.id, p.before)

AllCommanded ==
    /\ \A i \in DOMAIN previews : Commanded(previews[i])
    /\ \A c \in Clients : draft[c] # None => Commanded(draft[c])

\* Revisions are only added.
RevisionsStay ==
    \A w \in Watchlists, v \in Versions :
        revisions[w][v] # None => revisions'[w][v] = revisions[w][v]

LEMMA CommandedInit == Init => AllCommanded
BY DEF Init, AllCommanded

\* A preview stays a command on its snapshot as long as no revision is rewritten.
LEMMA CommandedKept ==
    ASSUME NEW p \in Preview, NEW q, Commanded(p), RevisionsStay,
           q.id = p.id, q.before = p.before, q.after = p.after
    PROVE  Commanded(q)'
<1>1. RolledBack(p.id, p.before) \subseteq RolledBack(p.id, p.before)'
  <2>1. p.id \in Watchlists
    BY DEF Preview
  <2>2. \A u \in Versions : revisions[p.id][u] # None =>
            /\ revisions'[p.id][u] # None
            /\ revisions'[p.id][u].snapshot = revisions[p.id][u].snapshot
    BY <2>1 DEF RevisionsStay
  <2> QED BY <2>2 DEF RolledBack
<1> QED BY <1>1 DEF Commanded, Fresh, Edited, Defaulted, Deleted, Restored

\* Only commits touch the revisions, and they add to them.
LEMMA RevisionsOnlyAdded ==
    ASSUME Inv, [Next]_vars
    PROVE  RevisionsStay
<1>1. ASSUME NEW i, Commit(i) PROVE RevisionsStay
  <2>1. PICK p : p = previews[i]
    OBVIOUS
  <2>2. \A w \in Targets(p) : revisions[w][NewRow(p, w).version] = None
    BY <1>1, <2>1, CommitWrites
  <2>3. \A w \in Watchlists, v \in Versions :
          ~(w \in Targets(p) /\ v = NewRow(p, w).version) => revisions'[w][v] = revisions[w][v]
    BY <1>1, <2>1, CommitWrites
  <2> QED BY <2>2, <2>3 DEF RevisionsStay
<1>2. ASSUME ~(\E i : Commit(i)) PROVE UNCHANGED revisions
  BY <1>2 DEF Next, PreviewCreate, PreviewUpdate, ReadDefault, StorePreview, AbandonPreview, ActivateRelease,
              Tick, tables, vars
<1> QED BY <1>1, <1>2 DEF RevisionsStay

\* The draft a client begins is a command.
LEMMA BegunCommanded ==
    ASSUME Inv, AllCommanded, NEW c \in Clients, PreviewCreate(c) \/ PreviewUpdate(c)
    PROVE  AllCommanded'
<1>1. UNCHANGED <<watchlists, revisions, previews>>
  BY DEF PreviewCreate, PreviewUpdate, tables
<1>2. \E p : draft' = [draft EXCEPT ![c] = p] /\ Commanded(p)
  <2>1. CASE PreviewCreate(c)
    <3>1. PICK w \in FreshIds, body \in Bodies, default \in BOOLEAN :
              draft' = [draft EXCEPT ![c] =
                  Draft("create", w, None,
                        [version |-> 1, is_default |-> default, deleted |-> FALSE, body |-> body],
                        None)]
      BY <2>1 DEF PreviewCreate
    <3> DEFINE s == [version |-> 1, is_default |-> default, deleted |-> FALSE, body |-> body]
               p == Draft("create", w, None, s, None)
    <3>2. Fresh(s)
      BY DEF Fresh
    <3>3. p.before = None /\ p.after = s
      BY DEF Draft
    <3>4. Commanded(p)
      BY <3>2, <3>3 DEF Commanded
    <3> QED BY <3>1, <3>4
  <2>2. CASE PreviewUpdate(c)
    <3>1. PICK w, s, bound :
              /\ w \in Stored
              /\ s \in Edited(watchlists[w]) \cup Defaulted(watchlists[w])
                        \cup Deleted(watchlists[w]) \cup Restored(watchlists[w])
                        \cup RolledBack(w, watchlists[w])
              /\ draft' = [draft EXCEPT ![c] = Draft("update", w, watchlists[w], s, bound)]
      BY <2>2 DEF PreviewUpdate
    <3> DEFINE p == Draft("update", w, watchlists[w], s, bound)
    <3>2. p.before = watchlists[w] /\ p.before # None /\ p.after = s /\ p.id = w
      BY <3>1 DEF Draft, Stored
    <3>3. Commanded(p)
      BY <3>1, <3>2 DEF Commanded
    <3> QED BY <3>1, <3>3
  <2> QED BY <2>1, <2>2
<1>3. PICK p : draft' = [draft EXCEPT ![c] = p] /\ Commanded(p)
  BY <1>2
<1>4. \A q : Commanded(q)' <=> Commanded(q)
  BY <1>1 DEF Commanded, Fresh, Edited, Defaulted, Deleted, Restored, RolledBack
<1>5. ASSUME NEW d \in Clients, draft'[d] # None PROVE Commanded(draft[d])'
  <2>1. draft'[d] = IF d = c THEN p ELSE draft[d]
    BY <1>3 DEF Inv, TypeOK
  <2>2. PICK q : q = draft'[d]
    OBVIOUS
  <2>3. Commanded(q)
    BY <1>3, <1>5, <2>1, <2>2 DEF AllCommanded
  <2>4. Commanded(q)'
    BY <1>4, <2>3
  <2> QED BY <2>2, <2>4 DEF Commanded
<1>6. ASSUME NEW i \in DOMAIN previews' PROVE Commanded(previews[i])'
  <2>1. PICK q : q = previews'[i]
    OBVIOUS
  <2>2. Commanded(q)
    BY <1>1, <1>6, <2>1 DEF AllCommanded
  <2>3. Commanded(q)'
    BY <1>4, <2>2
  <2> QED BY <2>1, <2>3 DEF Commanded
<1> QED BY <1>5, <1>6 DEF AllCommanded

\* A stored preview is its draft; nothing else gets a new place.
LEMMA OthersCommanded ==
    ASSUME Inv, AllCommanded, [Next]_vars,
           ~ \E c \in Clients : PreviewCreate(c) \/ PreviewUpdate(c)
    PROVE  AllCommanded'
<1>1. RevisionsStay
  BY RevisionsOnlyAdded
<1>2. ASSUME NEW c \in Clients, draft'[c] # None
      PROVE  /\ draft[c] # None
             /\ \/ draft'[c] = draft[c]
                \/ \E x : draft'[c] = [draft[c] EXCEPT !.demoted = x]
  <2>1. CASE \E e \in Clients : ReadDefault(e)
    <3>1. PICK e \in Clients : ReadDefault(e)
      BY <2>1
    <3>2. PICK x : draft[e] # None /\ draft' = [draft EXCEPT ![e].demoted = x]
      BY <3>1 DEF ReadDefault
    <3>3. draft'[c] = IF c = e THEN [draft[c] EXCEPT !.demoted = x] ELSE draft[c]
      BY <3>2 DEF Inv, TypeOK
    <3> QED BY <1>2, <3>2, <3>3
  <2>2. CASE ~(\E e \in Clients : ReadDefault(e))
    BY <1>2, <2>2 DEF Next, Inv, TypeOK, StorePreview, AbandonPreview, Commit, ActivateRelease,
                      Tick, vars
  <2> QED BY <2>1, <2>2
<1>3. ASSUME NEW c \in Clients, draft'[c] # None PROVE Commanded(draft[c])'
  <2>1. PICK p : p = draft[c]
    OBVIOUS
  <2>2. p \in Preview /\ Commanded(p)
    BY <1>2, <1>3, <2>1 DEF Inv, TypeOK, AllCommanded
  <2>3. PICK q : q = draft'[c]
    OBVIOUS
  <2>4. q = p \/ \E x : q = [p EXCEPT !.demoted = x]
    BY <1>2, <1>3, <2>1, <2>3
  <2>5. q.id = p.id /\ q.before = p.before /\ q.after = p.after
    BY <2>2, <2>4 DEF Preview
  <2>6. Commanded(q)'
    BY <1>1, <2>2, <2>5, CommandedKept
  <2> QED BY <2>3, <2>6 DEF Commanded
<1>4. ASSUME NEW i \in DOMAIN previews'
      PROVE  \E p \in Preview : /\ Commanded(p)
                                /\ previews'[i].id = p.id /\ previews'[i].before = p.before
                                /\ previews'[i].after = p.after
  <2>1. /\ \A j \in DOMAIN previews : previews[j] \in Preview /\ Commanded(previews[j])
        /\ previews \in Seq(Preview) /\ Len(previews) \in Nat
        /\ DOMAIN previews = 1 .. Len(previews)
    BY LenProperties DEF Inv, TypeOK, AllCommanded
  <2>2. CASE \E c \in Clients : StorePreview(c)
    <3>1. PICK c \in Clients : StorePreview(c)
      BY <2>2
    <3>2. PICK d : d = draft[c]
      OBVIOUS
    <3>3. d \in Preview /\ Commanded(d)
      BY <3>1, <3>2 DEF Inv, TypeOK, AllCommanded, StorePreview
    <3>4. PICK q : /\ previews' = Append(previews, q)
                   /\ q.id = d.id /\ q.before = d.before /\ q.after = d.after
      <4>1. CASE previews' = Append(previews, d)
        BY <4>1
      <4>2. ASSUME NEW s, NEW n,
                   previews' = Append(previews,
                       [d EXCEPT !.demotion = s, !.expected[d.demoted] = n])
            PROVE  \E q : /\ previews' = Append(previews, q)
                          /\ q.id = d.id /\ q.before = d.before /\ q.after = d.after
        <5> DEFINE q == [d EXCEPT !.demotion = s, !.expected[d.demoted] = n]
        <5>1. q.id = d.id /\ q.before = d.before /\ q.after = d.after
          BY <3>3 DEF Preview
        <5> QED BY <4>2, <5>1
      <4> QED BY <3>1, <3>2, <4>1, <4>2 DEF StorePreview
    <3>5. /\ DOMAIN previews' = 1 .. Len(previews) + 1
          /\ \A j \in 1 .. Len(previews) : previews'[j] = previews[j]
          /\ previews'[Len(previews) + 1] = q
      BY <2>1, <3>4
    <3>6. CASE i \in 1 .. Len(previews)
      BY <2>1, <3>5, <3>6
    <3>7. CASE i = Len(previews) + 1
      BY <3>3, <3>4, <3>5, <3>7
    <3> QED BY <1>4, <2>1, <3>5, <3>6, <3>7
  <2>3. CASE \E j : Commit(j)
    <3>1. PICK j : Commit(j)
      BY <2>3
    <3>2. /\ DOMAIN previews' = DOMAIN previews
          /\ \A k \in DOMAIN previews : k # j => previews'[k] = previews[k]
          /\ previews'[j] = [previews[j] EXCEPT !.consumed = TRUE]
      BY <3>1, CommitPreview
    <3>3. CASE i = j
      <4>1. PICK p \in Preview : p = previews[i]
        BY <1>4, <2>1, <3>2
      <4>2. /\ Commanded(p) /\ previews'[i] = [p EXCEPT !.consumed = TRUE]
        BY <1>4, <2>1, <3>2, <3>3, <4>1
      <4> QED BY <4>1, <4>2 DEF Preview
    <3>4. CASE i # j
      BY <1>4, <2>1, <3>2, <3>4
    <3> QED BY <3>3, <3>4
  <2>4. CASE ~(\E c \in Clients : StorePreview(c)) /\ ~(\E j : Commit(j))
    <3>1. previews' = previews
      BY <2>4 DEF Next, ReadDefault, AbandonPreview, ActivateRelease, Tick, tables, vars
    <3> QED BY <1>4, <2>1, <3>1
  <2> QED BY <2>2, <2>3, <2>4
<1>5. ASSUME NEW i \in DOMAIN previews' PROVE Commanded(previews[i])'
  <2>1. PICK p \in Preview : /\ Commanded(p)
                             /\ previews'[i].id = p.id /\ previews'[i].before = p.before
                             /\ previews'[i].after = p.after
    BY <1>4, <1>5
  <2>2. PICK q : q = previews'[i]
    OBVIOUS
  <2>3. Commanded(q)'
    BY <1>1, <2>1, <2>2, CommandedKept
  <2> QED BY <2>2, <2>3 DEF Commanded
<1> QED BY <1>3, <1>5 DEF AllCommanded

LEMMA CommandedNext == Inv /\ AllCommanded /\ [Next]_vars => AllCommanded'
BY BegunCommanded, OthersCommanded

\* The history of a stored watchlist has one snapshot for each version, the last of them
\* in the row.
LEMMA HistoryFacts ==
    ASSUME Inv, NEW w \in Watchlists
    PROVE  /\ History(w) \in Seq(Snapshot)
           /\ watchlists[w] = None => History(w) = << >> /\ Len(History(w)) = 0
           /\ watchlists[w] # None =>
                /\ Len(History(w)) = watchlists[w].version
                /\ History(w) # << >> /\ History(w)[Len(History(w))] = watchlists[w]
           /\ \A v \in Versions :
                revisions[w][v] # None =>
                    v \in DOMAIN History(w) /\ History(w)[v] = revisions[w][v].snapshot
           /\ DOMAIN History(w) = {v \in Versions : revisions[w][v] # None}
<1>1. Chain(w) /\ watchlists[w] \in Snapshot \cup {None}
  BY DEF Inv, TypeOK
<1>2. CASE watchlists[w] = None
  <2>1. History(w) = << >> /\ \A v \in Versions : revisions[w][v] = None
    BY <1>1, <1>2 DEF History, Chain, Stored
  <2>2. History(w) \in Seq(Snapshot) /\ Len(History(w)) = 0 /\ DOMAIN History(w) = {}
    BY <2>1, EmptySeq
  <2> QED BY <1>2, <2>1, <2>2
<1>3. CASE watchlists[w] # None
  <2>1. PICK n : n = watchlists[w].version
    OBVIOUS
  <2>2. /\ n \in Versions /\ n \in Nat /\ n >= 1 /\ n <= MaxVersion /\ MaxVersion \in Nat
        /\ \A v \in Versions : revisions[w][v] # None <=> v <= n
        /\ revisions[w][n].snapshot = watchlists[w]
    BY <1>1, <1>3, <2>1, LimitsAssumption DEF Chain, Stored, Snapshot, Versions
  <2>3. History(w) = [v \in 1 .. n |-> revisions[w][v].snapshot]
    BY <1>3, <2>1 DEF History
  <2>4. \A v \in 1 .. n : v \in Versions /\ revisions[w][v].snapshot \in Snapshot
    <3>1. \A v \in 1 .. n : v \in Versions /\ revisions[w][v] # None
      BY <2>2 DEF Versions
    <3> QED BY <3>1 DEF Inv, TypeOK, Revision
  <2>5. History(w) \in [1 .. n -> Snapshot]
    BY <2>3, <2>4
  <2>6. History(w) \in Seq(Snapshot) /\ Len(History(w)) = n
    BY <2>2, <2>5
  <2>7. History(w)[n] = watchlists[w]
    BY <2>2, <2>3
  <2>8. 1 .. n = {v \in Versions : revisions[w][v] # None}
    BY <2>2 DEF Versions
  <2>9. History(w) # << >>
    BY <2>2, <2>6, EmptySeq
  <2> QED BY <1>3, <2>1, <2>3, <2>6, <2>7, <2>8, <2>9
<1> QED BY <1>2, <1>3

\* A commit appends the new rows of its targets to their histories.
LEMMA CommitHistory ==
    ASSUME Inv, NEW i, Commit(i), NEW p, p = previews[i], NEW w \in Watchlists
    PROVE  History(w)' = IF w \in Targets(p) THEN Append(History(w), NewRow(p, w)) ELSE History(w)
<1>1. CASE w \notin Targets(p)
  <2>1. watchlists'[w] = watchlists[w] /\ \A v \in Versions : revisions'[w][v] = revisions[w][v]
    BY <1>1, CommitWrites
  <2>2. watchlists[w] # None => \A v \in 1 .. watchlists[w].version : v \in Versions
    BY VersionFacts, LimitsAssumption DEF Inv, TypeOK, Snapshot, Versions
  <2> QED BY <1>1, <2>1, <2>2 DEF History
<1>2. CASE w \in Targets(p)
  <2>1. PICK h : h = History(w)
    OBVIOUS
  <2>2. PICK r : r = NewRow(p, w)
    OBVIOUS
  <2>3. h \in Seq(Snapshot) /\ Len(h) \in Nat
    BY <2>1, HistoryFacts, LenProperties
  <2>4. /\ r \in Snapshot /\ watchlists'[w] = r /\ r.version = Len(h) + 1
        /\ revisions'[w][r.version].snapshot = r
        /\ \A v \in Versions : v # r.version => revisions'[w][v] = revisions[w][v]
    <3>1. /\ r \in Snapshot /\ watchlists'[w] = r
          /\ r.version = IF watchlists[w] = None THEN 1 ELSE watchlists[w].version + 1
          /\ revisions'[w][r.version].snapshot = r
      BY <1>2, <2>2, CommitWrites
    <3>2. \A v \in Versions : v # r.version => revisions'[w][v] = revisions[w][v]
      BY <1>2, <2>2, CommitWrites
    <3>3. Len(h) = IF watchlists[w] = None THEN 0 ELSE watchlists[w].version
      BY <2>1, HistoryFacts
    <3> QED BY <3>1, <3>2, <3>3
  <2>5. \A v \in 1 .. Len(h) : v \in Versions /\ v # r.version /\ h[v] = revisions[w][v].snapshot
    <3>1. DOMAIN h = 1 .. Len(h)
      BY <2>3, LenProperties
    <3>2. \A v \in DOMAIN h : v \in Versions /\ h[v] = revisions[w][v].snapshot
      <4>1. DOMAIN h = {v \in Versions : revisions[w][v] # None}
        BY <2>1, HistoryFacts
      <4>2. \A v \in Versions : revisions[w][v] # None => h[v] = revisions[w][v].snapshot
        BY <2>1, HistoryFacts
      <4> QED BY <4>1, <4>2
    <3> QED BY <2>3, <2>4, <3>1, <3>2
  <2>6. History(w)' = [v \in 1 .. r.version |-> revisions'[w][v].snapshot]
    BY <2>4, NoneAssumption DEF History
  <2>7. PICK g : g = [v \in 1 .. Len(h) + 1 |-> revisions'[w][v].snapshot]
    OBVIOUS
  <2>8. /\ Append(h, r) \in Seq(Snapshot) /\ Len(Append(h, r)) = Len(h) + 1
        /\ \A v \in 1 .. Len(h) : Append(h, r)[v] = h[v]
        /\ Append(h, r)[Len(h) + 1] = r
    BY <2>3, <2>4, AppendProperties
  <2>9. \A v \in 1 .. Len(h) + 1 : g[v] = Append(h, r)[v]
    <3>1. ASSUME NEW v \in 1 .. Len(h) PROVE g[v] = Append(h, r)[v]
      <4>1. g[v] = revisions[w][v].snapshot
        BY <2>3, <2>4, <2>5, <2>7
      <4> QED BY <2>5, <2>8, <4>1
    <3>2. g[Len(h) + 1] = Append(h, r)[Len(h) + 1]
      BY <2>3, <2>4, <2>7, <2>8
    <3> QED BY <2>3, <3>1, <3>2
  <2>10. \A v \in 1 .. Len(h) + 1 : Append(h, r)[v] \in Snapshot
    BY <2>8, ElementOfSeq
  <2>11. g \in [1 .. Len(h) + 1 -> Snapshot]
    BY <2>7, <2>9, <2>10
  <2>12. g \in Seq(Snapshot) /\ Len(g) = Len(h) + 1
    BY <2>3, <2>11
  <2>13. g = Append(h, r)
    BY <2>8, <2>9, <2>12, SeqEqual
  <2> QED BY <1>2, <2>1, <2>2, <2>4, <2>6, <2>7, <2>13
<1> QED BY <1>1, <1>2

\* The watchlists that exist, their last snapshots and the default are those of the rows.
LEMMA StoreFacts ==
    ASSUME Inv, NEW w \in Watchlists
    PROVE  /\ Store!Exists(w) <=> watchlists[w] # None
           /\ Store!Exists(w) => Store!Last(w) = watchlists[w]
           /\ Store!HasDefault(w) <=> w \in Defaults
<1>1. Store!Exists(w) <=> watchlists[w] # None
  BY HistoryFacts DEF Store!Exists
<1>2. Store!Exists(w) => Store!Last(w) = watchlists[w]
  BY <1>1, HistoryFacts DEF Store!Last
<1> QED BY <1>1, <1>2 DEF Store!HasDefault, Defaults, ActiveDefault

\* A commit writes the row of its watchlist, and the row of the watchlist it demotes when
\* that row is the new default.
LEMMA CommitIsWrite ==
    ASSUME Inv, NEW i, Commit(i), NEW p, p = previews[i], NEW s \in Snapshot,
           p.after = [s EXCEPT !.version = Len(History(p.id)) + 1]
    PROVE  Store!Write(p.id, s)
<1>1. /\ p \in Preview /\ Sound(p) /\ VersionsHold(p) /\ IndexAccepts(p)
      /\ p.id \in Watchlists /\ p.demoted \in Watchlists \cup {None}
  BY CommitPreview DEF Preview
<1>2. (s.is_default /\ ~ s.deleted) <=> ActiveDefault(p.after)
  BY NoneAssumption, <1>1 DEF ActiveDefault, Snapshot, Preview
<1>3. p.demoted # None =>
          /\ p.demoted # p.id /\ ActiveDefault(p.after)
          /\ Announced(p, watchlists[p.demoted])
  BY <1>1, RowsHold DEF Sound
<1>4. p.demoted # None => watchlists[p.demoted] # None
  BY <1>3, NoneAssumption DEF Announced, Seen
<1>5. PICK d \in Watchlists : d = IF p.demoted = None THEN p.id ELSE p.demoted
  BY <1>1
<1>6. ASSUME NEW x \in Watchlists
      PROVE  History(x)' = IF x = p.id THEN Append(History(x), p.after)
                           ELSE IF x = p.demoted THEN Append(History(x), p.demotion)
                           ELSE History(x)
  BY <1>1, <1>6, CommitHistory, NoneAssumption DEF Targets, NewRow
<1>7. ASSUME p.demoted # None
      PROVE  p.demotion = [[watchlists[p.demoted] EXCEPT !.is_default = FALSE]
                               EXCEPT !.version = Len(History(p.demoted)) + 1]
  <2>1. PICK r : r = watchlists[p.demoted]
    OBVIOUS
  <2>2. r \in Snapshot /\ Len(History(p.demoted)) = r.version
    <3>1. p.demoted \in Watchlists /\ r # None
      BY <1>1, <1>4, <1>7, <2>1
    <3>2. Len(History(p.demoted)) = r.version
      BY <2>1, <3>1, HistoryFacts
    <3> QED BY <2>1, <3>1, <3>2 DEF Inv, TypeOK
  <2>3. p.demotion = [[r EXCEPT !.version = r.version + 1] EXCEPT !.is_default = FALSE]
    BY <1>3, <1>7, <2>1 DEF Announced
  <2>4. [[r EXCEPT !.version = r.version + 1] EXCEPT !.is_default = FALSE]
            = [[r EXCEPT !.is_default = FALSE] EXCEPT !.version = r.version + 1]
    BY <2>2 DEF Snapshot
  <2> QED BY <2>1, <2>2, <2>3, <2>4
<1>8. ASSUME NEW x \in Watchlists
      PROVE  History(x)' =
               CASE x = p.id -> Store!Grown(x, s)
                 [] x = d /\ x # p.id ->
                        Store!Grown(x, [Store!Last(x) EXCEPT !.is_default = FALSE])
                 [] OTHER -> History(x)
  <2>1. CASE x = p.id
    BY <1>6, <2>1 DEF Store!Grown
  <2>2. CASE x # p.id /\ x = d
    <3>1. x = p.demoted /\ p.demoted # None
      BY <1>5, <2>2
    <3>2. Store!Last(x) = watchlists[x]
      BY <1>4, <3>1, StoreFacts
    <3>3. PICK r : r = [watchlists[x] EXCEPT !.is_default = FALSE]
      OBVIOUS
    <3>4. p.demotion = [r EXCEPT !.version = Len(History(x)) + 1]
      BY <1>7, <3>1, <3>3
    <3>5. History(x)' = Append(History(x), p.demotion)
      BY <1>6, <2>2, <3>1
    <3>6. Store!Grown(x, r) = Append(History(x), [r EXCEPT !.version = Len(History(x)) + 1])
      BY DEF Store!Grown
    <3> QED BY <2>2, <3>2, <3>3, <3>4, <3>5, <3>6
  <2>3. CASE x # p.id /\ x # d
    <3>1. x # p.demoted
      BY <1>5, <2>3, NoneAssumption
    <3> QED BY <1>6, <2>3, <3>1
  <2> QED BY <2>1, <2>2, <2>3
<1>9. d # p.id => Store!Exists(d) /\ s.is_default /\ ~ s.deleted
  BY <1>2, <1>3, <1>4, <1>5, StoreFacts
<1>10. s.is_default /\ ~ s.deleted => \A x \in Watchlists : Store!HasDefault(x) => x \in {p.id, d}
  <2>1. ActiveDefault(p.after) => Defaults \subseteq {p.id, p.demoted}
    BY <1>1 DEF IndexAccepts
  <2> QED BY <1>2, <1>5, <2>1, StoreFacts, NoneAssumption
<1> DEFINE H == [w \in Watchlists |-> History(w)]
<1>11. H' = [x \in Watchlists |->
               CASE x = p.id -> Store!Grown(x, s)
                 [] x = d /\ x # p.id ->
                        Store!Grown(x, [Store!Last(x) EXCEPT !.is_default = FALSE])
                 [] OTHER -> H[x]]
  BY <1>8
<1> QED BY <1>9, <1>10, <1>11 DEF Store!Write

\* Every commit is one command of WatchlistHistory.
LEMMA CommitIsCommand ==
    ASSUME Inv, AllCommanded, NEW i, Commit(i)
    PROVE  Store!Next
<1>1. PICK p : p = previews[i]
  OBVIOUS
<1>2. /\ p \in Preview /\ Sound(p) /\ VersionsHold(p) /\ KeysAccept(p) /\ Commanded(p)
      /\ p.id \in Watchlists
  BY <1>1, CommitPreview DEF Preview, AllCommanded
<1>3. PICK w \in Watchlists : w = p.id
  BY <1>2
<1>4. \A s \in Snapshot :
          p.after = [s EXCEPT !.version = Len(History(w)) + 1] => Store!Write(w, s)
  BY <1>1, <1>3, CommitIsWrite
<1>5. CASE p.before = None
  <2>1. watchlists[w] = None
    BY <1>2, <1>3, <1>5 DEF Sound, Based, KeysAccept
  <2>2. ~ Store!Exists(w) /\ Len(History(w)) = 0
    BY <2>1, StoreFacts, HistoryFacts
  <2>3. PICK body \in Bodies, default \in BOOLEAN :
          p.after = [version |-> 1, is_default |-> default, deleted |-> FALSE, body |-> body]
    BY <1>2, <1>5 DEF Commanded, Fresh
  <2> DEFINE s == [version |-> 1, is_default |-> default, deleted |-> FALSE, body |-> body]
  <2>4. s \in Snapshot /\ s = [s EXCEPT !.version = Len(History(w)) + 1]
    <3>1. Len(History(w)) + 1 = 1 /\ s \in Snapshot /\ s.version = 1
      BY <2>2, VersionFacts DEF Snapshot
    <3>2. \A r \in Snapshot : r.version = 1 => r = [r EXCEPT !.version = 1]
      BY DEF Snapshot
    <3> QED BY <3>1, <3>2
  <2>5. Store!Write(w, s)
    BY <1>4, <2>3, <2>4
  <2> QED BY <2>2, <2>5 DEF Store!Create, Store!Next
<1>6. CASE p.before # None
  <2>1. PICK r : r = watchlists[w]
    OBVIOUS
  <2>2. p.before = r /\ r # None
    BY <1>2, <1>3, <1>6, <2>1, RowsHold
  <2>3. /\ Store!Exists(w) /\ Store!Last(w) = r /\ Len(History(w)) = r.version /\ r \in Snapshot
    <3>1. Store!Exists(w) /\ Store!Last(w) = r
      BY <2>1, <2>2, StoreFacts
    <3>2. Len(History(w)) = r.version
      BY <2>1, <2>2, HistoryFacts
    <3>3. r \in Snapshot
      BY <2>1, <2>2 DEF Inv, TypeOK
    <3> QED BY <3>1, <3>2, <3>3
  <2>4. \A s \in Snapshot : p.after = [s EXCEPT !.version = r.version + 1] => Store!Write(w, s)
    BY <1>4, <2>3
  <2>5. Bumped(r) = [r EXCEPT !.version = r.version + 1]
    BY DEF Bumped
  <2>6. CASE p.after \in Edited(r)
    <3>1. PICK body \in Bodies : p.after = [[r EXCEPT !.version = r.version + 1] EXCEPT !.body = body]
      BY <2>5, <2>6 DEF Edited
    <3>2. /\ [r EXCEPT !.body = body] \in Snapshot
          /\ p.after = [[r EXCEPT !.body = body] EXCEPT !.version = r.version + 1]
      BY <2>3, <3>1 DEF Snapshot
    <3>3. Store!Write(w, [r EXCEPT !.body = body])
      BY <2>4, <3>2
    <3> QED BY <2>3, <3>3 DEF Store!Edit, Store!Next
  <2>7. CASE p.after \in Defaulted(r)
    <3>1. ~ r.deleted /\ p.after = [[r EXCEPT !.version = r.version + 1] EXCEPT !.is_default = TRUE]
      <4>1. Bumped(r).deleted = r.deleted
        BY <2>3 DEF Bumped, Snapshot
      <4>2. ~ Bumped(r).deleted /\ p.after = [Bumped(r) EXCEPT !.is_default = TRUE]
        BY <2>7 DEF Defaulted
      <4> QED BY <2>5, <4>1, <4>2
    <3>2. /\ [r EXCEPT !.is_default = TRUE] \in Snapshot
          /\ p.after = [[r EXCEPT !.is_default = TRUE] EXCEPT !.version = r.version + 1]
      BY <2>3, <3>1 DEF Snapshot
    <3>3. Store!Write(w, [r EXCEPT !.is_default = TRUE])
      BY <2>4, <3>2
    <3> QED BY <2>3, <3>1, <3>3 DEF Store!SetDefault, Store!Next
  <2>8. CASE p.after \in Deleted(r)
    <3>1. p.after = [[r EXCEPT !.version = r.version + 1] EXCEPT !.deleted = TRUE, !.is_default = FALSE]
      BY <2>5, <2>8 DEF Deleted
    <3>2. /\ [r EXCEPT !.deleted = TRUE, !.is_default = FALSE] \in Snapshot
          /\ p.after = [[r EXCEPT !.deleted = TRUE, !.is_default = FALSE]
                           EXCEPT !.version = r.version + 1]
      BY <2>3, <3>1 DEF Snapshot
    <3>3. Store!Write(w, [r EXCEPT !.deleted = TRUE, !.is_default = FALSE])
      BY <2>4, <3>2
    <3> QED BY <2>3, <3>3 DEF Store!Delete, Store!Next
  <2>9. CASE p.after \in Restored(r)
    <3>1. p.after = [[r EXCEPT !.version = r.version + 1] EXCEPT !.deleted = FALSE]
      BY <2>5, <2>9 DEF Restored
    <3>2. /\ [r EXCEPT !.deleted = FALSE] \in Snapshot
          /\ p.after = [[r EXCEPT !.deleted = FALSE] EXCEPT !.version = r.version + 1]
      BY <2>3, <3>1 DEF Snapshot
    <3>3. Store!Write(w, [r EXCEPT !.deleted = FALSE])
      BY <2>4, <3>2
    <3> QED BY <2>3, <3>3 DEF Store!Restore, Store!Next
  <2>10. CASE p.after \in RolledBack(w, r)
    <3>1. PICK v \in Versions : /\ revisions[w][v] # None
                                /\ p.after = [revisions[w][v].snapshot EXCEPT
                                                 !.version = r.version + 1, !.deleted = FALSE]
      BY <2>10 DEF RolledBack
    <3>2. PICK s : s = revisions[w][v].snapshot
      OBVIOUS
    <3>3. s \in Snapshot /\ v \in DOMAIN History(w) /\ History(w)[v] = s
      <4>1. v \in DOMAIN History(w) /\ History(w)[v] = s
        BY <3>1, <3>2, HistoryFacts
      <4>2. s \in Snapshot
        BY <3>1, <3>2 DEF Inv, TypeOK, Revision
      <4> QED BY <4>1, <4>2
    <3>4. /\ [s EXCEPT !.deleted = FALSE] \in Snapshot
          /\ p.after = [[s EXCEPT !.deleted = FALSE] EXCEPT !.version = r.version + 1]
      BY <3>1, <3>2, <3>3 DEF Snapshot
    <3>5. Store!Write(w, [s EXCEPT !.deleted = FALSE])
      BY <2>4, <3>4
    <3>6. Store!RollBack(w)
      BY <3>3, <3>5 DEF Store!RollBack
    <3> QED BY <2>3, <3>6 DEF Store!Next
  <2> QED BY <1>2, <1>3, <1>6, <2>2, <2>6, <2>7, <2>8, <2>9, <2>10 DEF Commanded
<1> QED BY <1>5, <1>6

\* Previews and commits, however far apart, implement a store in which every command is
\* executed at once on the live snapshot.
THEOREM StoreImplementsHistory == Spec => Serializable
<1>1. Init => Inv /\ AllCommanded
  BY InvInit, CommandedInit
<1>2. Inv /\ AllCommanded /\ [Next]_vars => Inv' /\ AllCommanded'
  BY InvNext, CommandedNext
<1>3. Init => Store!Init
  BY DEF Init, Store!Init, History
<1>4. ASSUME Inv, AllCommanded, [Next]_vars
      PROVE  [Store!Next]_[w \in Watchlists |-> History(w)]
  <2>1. CASE \E i : Commit(i)
    BY <1>4, <2>1, CommitIsCommand
  <2>2. CASE ~(\E i : Commit(i))
    <3>1. UNCHANGED <<watchlists, revisions>>
      BY <1>4, <2>2 DEF Next, PreviewCreate, PreviewUpdate, ReadDefault, StorePreview, AbandonPreview,
                        ActivateRelease, Tick, tables, vars
    <3>2. \A w \in Watchlists : History(w)' = History(w)
      BY <3>1 DEF History
    <3> QED BY <3>2
  <2> QED BY <2>1, <2>2
<1> QED BY <1>1, <1>2, <1>3, <1>4, PTL DEF Spec, Serializable, Store!Spec
=============================================================================
