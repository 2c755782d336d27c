------------------------ MODULE StateRecoveryProofs ------------------------
(***************************************************************************)
(* Proofs about StateRecovery for every number of members, operations,     *)
(* places, writes and accidents.                                           *)
(***************************************************************************)
EXTENDS StateRecovery, TLAPS

\* A live member never has a value of the migrated form.
Low == 0..(Values - 1)
LowImage == [Member -> Low]
LowPartial == [Member -> Low \cup {None}]
Package == [manifest : LowImage, files : Image]
Root == [kind : Kinds, content : Image, bound : LowImage]

Steps == Over \cup {"sign", "read", "free", "stage", "compare", "take", "seal",
                    "inspect", "check", "stands", "target", "inventory", "list", "load", "copy",
                    "recheck", "stood", "reload", "reread", "recount", "relist", "rename"}

Settled == {"reread", "recount", "relist", "rename"}
Again == Settled \cup {"recheck", "stood", "reload"}
Reading == Again \cup {"check", "stands", "target", "inventory", "list", "load", "copy"}

DiskTypes ==
    /\ live \in [Member -> [value : Low, stamp : 0..MaxWrites]]
    /\ past \subseteq LowImage /\ made \subseteq LowImage
    /\ package \in [Place -> Package \cup {None}]
    /\ root \in [Place -> Root \cup {None}]
    /\ staging \in [Kinds \X Place \X Id -> Partial \cup {None}]
    /\ faults \in 0..MaxFaults

JobTypes ==
    /\ pc \in [Job -> Steps]
    /\ kind \in [Job -> Kinds \cup {None}]
    /\ place \in [Job -> Place \cup {None}] /\ from \in [Job -> Place \cup {None}]
    /\ id \in [Job -> Id \cup {None}]
    /\ stamps \in [Job -> [Member -> (0..MaxWrites) \cup {None}]]
    /\ image \in [Job -> LowPartial] /\ rows \in [Job -> LowPartial]
    /\ before \in [Job -> [manifest : LowImage \cup {None}, files : Partial]]
    /\ at \in [Job -> Member]

\* The arguments and the kind an operation has at each step.
Placed(j) ==
    /\ pc[j] # "new" => /\ kind[j] \in Kinds /\ place[j] \in Place /\ from[j] \in Place
                        /\ id[j] \in Id
    /\ pc[j] \in {"sign", "read", "free", "compare", "take"} => kind[j] = "backup"
    /\ pc[j] \in {"inspect"} \cup Reading => kind[j] # "backup"
    /\ pc[j] \in {"stands", "stood"} => kind[j] = "rollback"
    /\ pc[j] = "new" \/ (pc[j] \in {"free", "stage"} /\ kind[j] = "backup") => at[j] = 1

\* An operation on a package has noted its manifest; it has loaded it again; it has found
\* the noted one there again; it has compared the staged members with the loaded one.
Bound(j) == pc[j] \in Reading \/ (pc[j] \in {"stage", "seal"} /\ kind[j] # "backup")
Loaded(j) == \/ pc[j] \in {"copy"} \cup Again
             \/ pc[j] \in {"stage", "seal"} /\ kind[j] # "backup"
             \/ pc[j] \in {"inventory", "list", "target"} /\ kind[j] = "migrate"
             \/ pc[j] = "target" /\ kind[j] = "rollback"

Noted(j) ==
    /\ Bound(j) => image[j] \in made
    /\ Loaded(j) => rows[j] \in made
    /\ pc[j] \in Settled => staging[Stage(j)] = Target(kind[j], rows[j])

\* The accidents it takes for a package to differ from what was noted and what was loaded.
There(j) == Manifest(Source(j))
Touched(j) ==
    /\ Bound(j) /\ There(j) # image[j] => faults >= 1
    /\ Loaded(j) /\ rows[j] # image[j] =>
           /\ faults >= 1
           /\ There(j) # rows[j] => faults >= 2
           /\ pc[j] \in Again => faults >= 2 /\ (There(j) # image[j] => faults >= 3)
           /\ pc[j] \in Settled => faults >= 3

\* An operation finds its staging directory, which no other one holds.
Held(j) == Holds(j) => staging[Stage(j)] \in Partial

\* Signatures were taken in the past, and while a planned member still has the signature
\* it has the planned value.
Signed(j) ==
    kind[j] = "backup" => \A m \in Member :
        /\ \/ pc[j] = "sign" /\ m < at[j]
           \/ pc[j] = "read" /\ m <= at[j]
           \/ pc[j] \in {"free", "stage", "compare", "take"}
           => stamps[j][m] \in 0..MaxWrites /\ stamps[j][m] <= live[m].stamp
        /\ pc[j] \in {"sign", "read"} /\ m < at[j] =>
               (live[m].stamp = stamps[j][m] => live[m].value = image[j][m])

\* There was an instant at which all members that were copied, and all that still have
\* their signature, had their planned values.
Agrees(j, f, m) == live[m].stamp = stamps[j][m] \/ m < at[j] => f[m] = image[j][m]
Cut(j) ==
    kind[j] = "backup" =>
        /\ pc[j] \in {"free", "stage", "compare", "take"} =>
               \E f \in past : \A m \in Member : Agrees(j, f, m)
        /\ pc[j] = "seal" => image[j] \in past

JobInv(j) == Placed(j) /\ Noted(j) /\ Touched(j) /\ Held(j) /\ Signed(j) /\ Cut(j)

\* Manifests are never touched once a backup is published.
Recorded ==
    /\ Contents(live) \in past
    /\ \A p \in Place : package[p] # None => package[p].manifest \in made

Inv == /\ DiskTypes /\ JobTypes
       /\ \A j \in Job : JobInv(j)
       /\ Recorded /\ StagingIsExclusive
       /\ BackupIsConsistentCut /\ RootMatchesBackup

-----------------------------------------------------------------------------
(* Data *)

\* Migrated values fit, and both forms are images.
LEMMA Images ==
    /\ Low \subseteq Value /\ LowImage \subseteq Image /\ LowPartial \subseteq Partial
    /\ Image \subseteq Partial
    /\ \A f \in LowImage : Migrated(f) \in Image
    /\ \A f \in LowImage, k \in Kinds : Target(k, f) \in Image
    /\ Blank \in LowPartial
    /\ 1 \in Member /\ Members \in Member
<1>1. Low \subseteq Value /\ \A v \in Low : v + Values \in Value
  BY StateRecoveryAssumption DEF Low, Value
<1>2. LowImage \subseteq Image /\ LowPartial \subseteq Partial /\ Image \subseteq Partial
  BY <1>1 DEF LowImage, Image, LowPartial, Partial
<1>3. \A f \in LowImage : Migrated(f) \in Image
  <2>1. SUFFICES ASSUME NEW f \in LowImage PROVE [f EXCEPT ![Affected] = @ + Values] \in Image
    BY DEF Migrated
  <2>2. Affected \in Member /\ f[Affected] + Values \in Value
    BY <1>1, StateRecoveryAssumption DEF LowImage
  <2> QED BY <1>1, <2>2 DEF LowImage, Image
<1>4. \A f \in LowImage, k \in Kinds : Target(k, f) \in Image
  BY <1>2, <1>3 DEF Target
<1>5. Blank \in LowPartial
  BY DEF Blank, LowPartial
<1>6. 1 \in Member /\ Members \in Member
  BY StateRecoveryAssumption DEF Member
<1> QED BY <1>1, <1>2, <1>3, <1>4, <1>5, <1>6

\* The contents of the live members are an image.
LEMMA ContentsType == DiskTypes => Contents(live) \in LowImage
BY DEF DiskTypes, Contents, LowImage

\* The invariant implies type correctness.
LEMMA InvTypeOK == DiskTypes /\ JobTypes => TypeOK
<1> SUFFICES ASSUME DiskTypes, JobTypes PROVE TypeOK
  OBVIOUS
<1>1. live \in [Member -> [value : Value, stamp : 0..MaxWrites]]
  BY Images DEF DiskTypes
<1>2. package \in [Place -> [manifest : Image, files : Image] \cup {None}]
  BY Images DEF DiskTypes, Package
<1>3. root \in [Place -> [kind : Kinds, content : Image, bound : Image] \cup {None}]
  BY Images DEF DiskTypes, Root
<1>4. before \in [Job -> [manifest : Image \cup {None}, files : Partial]]
  BY Images DEF JobTypes
<1>5. image \in [Job -> Partial] /\ rows \in [Job -> Partial]
  BY Images DEF JobTypes
<1> QED BY <1>1, <1>2, <1>3, <1>4, <1>5, Images DEF DiskTypes, JobTypes, TypeOK, Steps

\* Nothing was planned, published or restored at the beginning.
LEMMA InvInit == Init => Inv
<1> SUFFICES ASSUME Init PROVE Inv
  OBVIOUS
<1>1. DiskTypes
  <2>1. 0 \in Low /\ 0 \in 0..MaxWrites /\ 0 \in 0..MaxFaults
    BY StateRecoveryAssumption DEF Low
  <2>2. live \in [Member -> [value : Low, stamp : 0..MaxWrites]]
    BY <2>1 DEF Init
  <2>3. Contents(live) \in LowImage
    BY <2>2 DEF Contents, LowImage
  <2> QED BY <2>1, <2>2, <2>3 DEF Init, DiskTypes
<1>2. JobTypes
  <2>1. Blank \in [Member -> (0..MaxWrites) \cup {None}]
    BY DEF Blank
  <2> QED BY <2>1, Images DEF Init, JobTypes, Steps, Over
<1>3. ASSUME NEW j \in Job PROVE JobInv(j)
  BY DEF Init, JobInv, Placed, Noted, Touched, Bound, Loaded, Reading, Again, Settled, Held,
         Holds, Signed, Cut
<1>4. Recorded
  BY DEF Init, Recorded
<1>5. StagingIsExclusive /\ BackupIsConsistentCut /\ RootMatchesBackup
  BY DEF Init, StagingIsExclusive, Holds, BackupIsConsistentCut, RootMatchesBackup
<1> QED BY <1>1, <1>2, <1>3, <1>4, <1>5 DEF Inv

-----------------------------------------------------------------------------
(* Steps of one operation beside the others *)

JobStep(j) == Begin(j) \/ Plan(j) \/ CheckFree(j) \/ MakeStaging(j)
              \/ Pack(j) \/ Unpack(j) \/ Kill(j)

\* An operation changes its own variables only.
LEMMA OthersStay ==
    ASSUME JobTypes, NEW j \in Job, JobStep(j), NEW k \in Job, k # j
    PROVE  /\ pc'[k] = pc[k] /\ kind'[k] = kind[k] /\ place'[k] = place[k] /\ id'[k] = id[k]
           /\ from'[k] = from[k] /\ stamps'[k] = stamps[k] /\ image'[k] = image[k]
           /\ rows'[k] = rows[k] /\ at'[k] = at[k]
BY DEF JobTypes, JobStep, Begin, Plan, SignMember, PlanMember, CheckFree, MakeStaging, Pack,
       CompareSignature, TakeMember, PublishBackup, Unpack, Examine, Verify, Inspect, CheckMember,
       CheckMigration, ResolveTarget, TakeInventory, ListMember, LoadManifest, CopyMember,
       InspectAgain, RecheckMember, VerifyRoot, RereadMember, CompareInventory, RelistMember,
       Compare, PublishRoot, Kill, Advance, Fail, Go, job

\* Operations do not touch the live state, and images are only added.
LEMMA JobsOnlyRead ==
    ASSUME NEW j \in Job, JobStep(j)
    PROVE  UNCHANGED <<live, past, faults>> /\ made \subseteq made'
BY DEF JobStep, Begin, Plan, SignMember, PlanMember, CheckFree, MakeStaging, Pack,
       CompareSignature, TakeMember, PublishBackup, Unpack, Examine, Verify, Inspect, CheckMember,
       CheckMigration, ResolveTarget, TakeInventory, ListMember, LoadManifest, CopyMember,
       InspectAgain, RecheckMember, VerifyRoot, RereadMember, CompareInventory, RelistMember,
       Compare, PublishRoot, Kill, UnchangedDisk

\* A package is published where there is none.
LEMMA PackagesStay ==
    ASSUME DiskTypes, NEW j \in Job, JobStep(j), NEW p \in Place
    PROVE  package'[p] = package[p] \/ package[p] = None
<1>1. CASE PublishBackup(j)
  BY <1>1 DEF PublishBackup, DiskTypes
<1>2. CASE ~PublishBackup(j)
  BY <1>2 DEF JobStep, Begin, Plan, SignMember, PlanMember, CheckFree, MakeStaging, Pack,
       CompareSignature, TakeMember, Unpack, Examine, Verify, Inspect, CheckMember,
       CheckMigration, ResolveTarget, TakeInventory, ListMember, LoadManifest, CopyMember,
       InspectAgain, RecheckMember, VerifyRoot, RereadMember, CompareInventory, RelistMember,
       Compare, PublishRoot, Kill, UnchangedDisk
<1> QED BY <1>1, <1>2

\* A staging directory is touched by who holds it, or made by one that finds none.
LEMMA StagingStays ==
    ASSUME DiskTypes, NEW j \in Job, Placed(j), JobStep(j),
           NEW s \in Kinds \X Place \X Id, staging'[s] # staging[s]
    PROVE  s = Stage(j) /\ (Holds(j) \/ (pc[j] = "stage" /\ staging[Stage(j)] = None))
<1>1. CASE MakeStaging(j)
  BY <1>1 DEF MakeStaging, DiskTypes
<1>2. CASE TakeMember(j)
  BY <1>2 DEF TakeMember, DiskTypes, Holds
<1>3. CASE PublishBackup(j)
  BY <1>3 DEF PublishBackup, DiskTypes, Holds
<1>4. CASE CopyMember(j)
  BY <1>4 DEF CopyMember, DiskTypes, Holds
<1>5. CASE PublishRoot(j)
  BY <1>5 DEF PublishRoot, DiskTypes, Holds
<1>6. ASSUME Begin(j) \/ SignMember(j) \/ PlanMember(j) \/ CheckFree(j) \/ CompareSignature(j)
             \/ Examine(j) \/ Verify(j) \/ Kill(j)
      PROVE  FALSE
  BY <1>6 DEF Begin, SignMember, PlanMember, CheckFree, CompareSignature, Examine, Verify, Inspect,
       CheckMember, CheckMigration, ResolveTarget, TakeInventory, ListMember, LoadManifest,
       InspectAgain, RecheckMember, VerifyRoot, RereadMember, CompareInventory, RelistMember,
       Compare, Kill, UnchangedDisk
<1> QED BY <1>1, <1>2, <1>3, <1>4, <1>5, <1>6 DEF JobStep, Plan, Pack, Unpack

\* The staging directory of an operation that holds one has its key.
LEMMA StageType ==
    ASSUME NEW j \in Job, Placed(j), pc[j] # "new"
    PROVE  Stage(j) \in Kinds \X Place \X Id
BY DEF Placed, Stage

LEMMA HeldStaysHeld ==
    ASSUME Inv, NEW j \in Job, JobStep(j), NEW k \in Job, k # j, Holds(k)
    PROVE  Stage(k)' = Stage(k) /\ staging'[Stage(k)] = staging[Stage(k)]
<1>1. DiskTypes /\ JobTypes /\ JobInv(j) /\ JobInv(k) /\ StagingIsExclusive
  BY DEF Inv
<1>2. Stage(k)' = Stage(k)
  BY <1>1, OthersStay DEF Stage
<1>3. Stage(k) \in Kinds \X Place \X Id /\ staging[Stage(k)] \in Partial
  BY <1>1, StageType DEF JobInv, Held, Holds
<1>4. ASSUME staging'[Stage(k)] # staging[Stage(k)] PROVE FALSE
  <2>1. Stage(k) = Stage(j) /\ (Holds(j) \/ staging[Stage(j)] = None)
    BY <1>1, <1>3, <1>4, StagingStays DEF JobInv
  <2> QED BY <1>1, <1>3, <2>1, StateRecoveryAssumption DEF StagingIsExclusive
<1> QED BY <1>2, <1>4

\* A backup is published where a package is missing, which is what was noted of none.
LEMMA OthersTouched ==
    ASSUME DiskTypes, NEW j \in Job, JobStep(j), NEW k \in Job,
           Placed(k), Noted(k), Touched(k), UNCHANGED faults,
           pc'[k] = pc[k], kind'[k] = kind[k], from'[k] = from[k], image'[k] = image[k],
           rows'[k] = rows[k]
    PROVE  Touched(k)'
<1>1. Bound(k)' = Bound(k) /\ Loaded(k)' = Loaded(k)
  BY DEF Bound, Loaded
<1>2. CASE Source(k)' = Source(k)
  <2>1. There(k)' = There(k)
    BY <1>2 DEF There, Manifest
  <2> QED BY <1>1, <2>1 DEF Touched
<1>3. CASE Source(k)' # Source(k)
  <2>1. Bound(k) \/ Loaded(k) => from[k] \in Place
    BY DEF Placed, Bound, Loaded, Reading, Again, Settled
  <2>2. Bound(k) \/ Loaded(k) => Source(k) = None
    BY <1>3, <2>1, PackagesStay DEF Source
  <2>3. Bound(k) \/ Loaded(k) => There(k) = None
    BY <2>2 DEF There, Manifest
  <2>4. None \notin made
    BY Images, StateRecoveryAssumption DEF DiskTypes
  <2>5. Bound(k) => There(k) # image[k]
    BY <2>3, <2>4 DEF Noted
  <2>6. Loaded(k) => There(k) # rows[k] /\ Bound(k)
    BY <2>3, <2>4 DEF Noted, Bound, Loaded, Reading, Again, Settled
  <2> QED BY <1>1, <2>5, <2>6 DEF Touched
<1> QED BY <1>2, <1>3

\* The step of an operation leaves what was said about another one.
LEMMA OthersKept ==
    ASSUME Inv, NEW j \in Job, JobStep(j), NEW k \in Job, k # j
    PROVE  JobInv(k)'
<1>1. JobTypes /\ JobInv(k)
  BY DEF Inv
<1>2. /\ pc'[k] = pc[k] /\ kind'[k] = kind[k] /\ place'[k] = place[k] /\ id'[k] = id[k]
      /\ from'[k] = from[k] /\ stamps'[k] = stamps[k] /\ image'[k] = image[k]
      /\ rows'[k] = rows[k] /\ at'[k] = at[k]
  BY <1>1, OthersStay
<1>3. UNCHANGED <<live, past, faults>> /\ made \subseteq made'
  BY JobsOnlyRead
<1>4. Holds(k)' = Holds(k) /\ (Holds(k) => Stage(k)' = Stage(k)
                                          /\ staging'[Stage(k)] = staging[Stage(k)])
  BY <1>2, HeldStaysHeld DEF Holds
<1>5. Placed(k)' /\ Held(k)'
  BY <1>1, <1>2, <1>4 DEF JobInv, Placed, Held
<1>6. Noted(k)'
  <2>1. Bound(k)' = Bound(k) /\ Loaded(k)' = Loaded(k)
    BY <1>2 DEF Bound, Loaded
  <2>2. pc[k] \in Settled => Holds(k)
    BY DEF Holds, Settled
  <2>3. Target(kind[k], rows[k])' = Target(kind[k], rows[k])
    BY <1>2 DEF Target, Migrated
  <2> QED BY <1>1, <1>2, <1>3, <1>4, <2>1, <2>2, <2>3 DEF JobInv, Noted
<1>9. Touched(k)'
  BY <1>1, <1>2, <1>3, OthersTouched DEF JobInv, Inv
<1>7. Signed(k)'
  BY <1>1, <1>2, <1>3 DEF JobInv, Signed
<1>8. Cut(k)'
  BY <1>1, <1>2, <1>3 DEF JobInv, Cut, Agrees
<1> QED BY <1>5, <1>6, <1>7, <1>8, <1>9 DEF JobInv

\* No operation comes to hold a staging directory that another one holds.
LEMMA ExclusiveStep ==
    ASSUME Inv, NEW j \in Job, JobStep(j)
    PROVE  StagingIsExclusive'
<1>1. JobTypes /\ DiskTypes /\ StagingIsExclusive /\ \A k \in Job : JobInv(k)
  BY DEF Inv
<1>2. Holds(j)' => pc[j] # "new" /\ Stage(j)' = Stage(j)
                   /\ (Holds(j) \/ (pc[j] = "stage" /\ staging[Stage(j)] = None))
  BY <1>1 DEF JobTypes, JobInv, Placed, JobStep, Begin, Plan, SignMember, PlanMember, CheckFree,
       MakeStaging, Pack, CompareSignature, TakeMember, PublishBackup, Unpack, Examine, Verify,
       Inspect, CheckMember, CheckMigration, ResolveTarget, TakeInventory, ListMember,
       LoadManifest, CopyMember, InspectAgain, RecheckMember, VerifyRoot, RereadMember,
       CompareInventory, RelistMember, Compare, PublishRoot, Kill,
       Inspected, Checked, Advance, Fail, Go, Holds, Stage, job, Steps, Over, Reading, Again,
       Settled
<1>3. ASSUME NEW k \in Job, k # j, Holds(k)', Holds(j)' PROVE Stage(k)' # Stage(j)'
  <2>1. Holds(k) /\ Stage(k)' = Stage(k)
    BY <1>1, <1>3, OthersStay DEF Holds, Stage
  <2>2. staging[Stage(k)] \in Partial
    BY <1>1, <2>1 DEF JobInv, Held
  <2> QED BY <1>1, <1>2, <1>3, <2>1, <2>2, StateRecoveryAssumption DEF StagingIsExclusive
<1>4. ASSUME NEW k \in Job, NEW l \in Job, k # j, l # j, k # l, Holds(k)', Holds(l)'
      PROVE  Stage(k)' # Stage(l)'
  BY <1>1, <1>4, OthersStay DEF Holds, Stage, StagingIsExclusive
<1> QED BY <1>3, <1>4 DEF StagingIsExclusive

-----------------------------------------------------------------------------
(* The operation that takes the step *)

Shared == DiskTypes /\ JobTypes /\ Recorded /\ BackupIsConsistentCut /\ RootMatchesBackup

LEMMA SharedStays ==
    ASSUME Inv, UNCHANGED <<live, past, package, root, made, faults>>,
           staging' \in [Kinds \X Place \X Id -> Partial \cup {None}], JobTypes'
    PROVE  Shared'
<1>1. DiskTypes'
  BY DEF Inv, DiskTypes
<1>2. Recorded' /\ BackupIsConsistentCut' /\ RootMatchesBackup'
  BY DEF Inv, Recorded, Contents, BackupIsConsistentCut, RootMatchesBackup
<1> QED BY <1>1, <1>2 DEF Shared

\* An operation that has noted no package, or is over, has nothing to say of one.
LEMMA Unbound ==
    ASSUME NEW j \in Job,
           \/ pc'[j] \in Over \cup {"sign", "read", "free", "compare", "take", "inspect"}
           \/ pc'[j] \in {"stage", "seal"} /\ kind'[j] = "backup"
    PROVE  Noted(j)' /\ Touched(j)'
<1>1. /\ ~Bound(j)' /\ ~Loaded(j)'
      /\ pc'[j] \notin Settled
  BY DEF Bound, Loaded, Reading, Again, Settled, Over
<1> QED BY <1>1 DEF Noted, Touched

\* A step after which no more is said than before.
LEMMA SaysNoMore ==
    ASSUME NEW j \in Job, Noted(j), Touched(j), Bound(j), Loaded(j)' => Loaded(j),
           pc'[j] \in Again => pc[j] \in Again,
           pc'[j] \in Settled => pc[j] \in Settled /\ UNCHANGED staging,
           UNCHANGED <<package, made, faults, job>>, image'[j] = image[j], rows'[j] = rows[j]
    PROVE  Noted(j)' /\ Touched(j)'
<1>1. Stage(j)' = Stage(j) /\ There(j)' = There(j)
      /\ Target(kind[j], rows[j])' = Target(kind[j], rows[j])
  BY DEF Stage, There, Source, Manifest, Target, Migrated, job
<1>2. Noted(j)'
  BY <1>1 DEF Noted, job
<1>3. Touched(j)'
  BY <1>1 DEF Touched
<1> QED BY <1>2, <1>3

\* What a failed or finished operation did is of no more interest.
LEMMA OverInv ==
    ASSUME Inv, NEW j \in Job, pc[j] # "new", pc'[j] \in {"failed", "done"}, UNCHANGED job
    PROVE  JobInv(j)'
BY Unbound DEF Inv, JobInv, Placed, Reading, Again, Settled, Over, Held, Holds, Signed, Cut, job

LEMMA FailStep ==
    ASSUME Inv, NEW j \in Job, pc[j] # "new", Fail(j),
           UNCHANGED <<live, past, package, root, staging, made, faults, job, stamps, image,
                       rows, before, at>>
    PROVE  Shared' /\ JobInv(j)'
<1>1. JobTypes' /\ pc'[j] = "failed"
  BY DEF Inv, JobTypes, Fail, Go, job, Steps, Over
<1>2. Shared'
  BY <1>1, SharedStays DEF Inv, DiskTypes
<1> QED BY <1>1, <1>2, OverInv

LEMMA BeginStep ==
    ASSUME Inv, NEW j \in Job, Begin(j) PROVE Shared' /\ JobInv(j)'
<1>1. PICK k \in Kinds, p \in Place, i \in Id, f \in Place :
          /\ k = "backup" => f = p
          /\ Go(j, IF k = "backup" THEN "sign" ELSE "inspect")
          /\ kind' = [kind EXCEPT ![j] = k]
          /\ place' = [place EXCEPT ![j] = p]
          /\ id' = [id EXCEPT ![j] = i]
          /\ from' = [from EXCEPT ![j] = f]
  BY Zenon DEF Begin
<1>2. JobTypes'
  <2>1. pc' \in [Job -> Steps]
    BY <1>1 DEF Inv, JobTypes, Go, Steps
  <2> QED BY <1>1, <2>1 DEF Begin, Inv, JobTypes
<1>3. Shared'
  BY <1>2, SharedStays DEF Begin, UnchangedDisk, Inv, DiskTypes
<1>4. pc'[j] = (IF k = "backup" THEN "sign" ELSE "inspect") /\ kind'[j] = k /\ place'[j] = p
      /\ id'[j] = i /\ from'[j] = f /\ at'[j] = at[j]
  BY <1>1 DEF Begin, Inv, JobTypes, Go
<1>5. at[j] = 1
  BY DEF Begin, Inv, JobInv, Placed
<1>6. Placed(j)' /\ Noted(j)' /\ Touched(j)' /\ Held(j)' /\ Cut(j)'
  BY <1>4, <1>5, Unbound DEF Placed, Reading, Again, Settled, Held, Holds, Cut
<1>7. Signed(j)'
  BY <1>4, <1>5, StateRecoveryAssumption DEF Signed, Member
<1> QED BY <1>3, <1>6, <1>7 DEF JobInv

LEMMA SignMemberStep ==
    ASSUME Inv, NEW j \in Job, SignMember(j) PROVE Shared' /\ JobInv(j)'
<1> DEFINE a == at[j]
<1>1. /\ pc[j] = "sign" /\ kind[j] = "backup" /\ a \in Member /\ pc' = [pc EXCEPT ![j] = "read"]
      /\ live[a].stamp \in 0..MaxWrites
      /\ stamps' = [stamps EXCEPT ![j][a] = live[a].stamp]
      /\ UNCHANGED <<live, past, package, root, staging, made, faults, kind, place, id, from,
                     image, rows, before, at>>
  BY DEF SignMember, Go, UnchangedDisk, job, Inv, DiskTypes, JobTypes, JobInv, Placed
<1>2. /\ stamps[j] \in [Member -> (0..MaxWrites) \cup {None}]
      /\ stamps'[j] = [stamps[j] EXCEPT ![a] = live[a].stamp]
      /\ pc'[j] = "read"
  BY <1>1 DEF Inv, JobTypes
<1>3. stamps' \in [Job -> [Member -> (0..MaxWrites) \cup {None}]]
  BY <1>1, <1>2 DEF Inv, JobTypes
<1>4. JobTypes'
  BY <1>1, <1>3 DEF Inv, JobTypes, Steps
<1>5. Shared'
  BY <1>1, <1>4, SharedStays DEF Inv, DiskTypes
<1>6. Placed(j)' /\ Noted(j)' /\ Touched(j)' /\ Held(j)' /\ Cut(j)'
  BY <1>1, <1>2, Unbound DEF Inv, JobInv, Placed, Reading, Again, Settled, Held, Holds, Cut
<1>7. Signed(j)'
  <2>1. SUFFICES ASSUME NEW m \in Member
                 PROVE  /\ m <= a => stamps'[j][m] \in 0..MaxWrites
                                     /\ stamps'[j][m] <= live[m].stamp
                        /\ m < a => (live[m].stamp = stamps'[j][m] => live[m].value = image[j][m])
    BY <1>1, <1>2 DEF Signed
  <2>2. m < a => /\ stamps[j][m] \in 0..MaxWrites /\ stamps[j][m] <= live[m].stamp
                 /\ live[m].stamp = stamps[j][m] => live[m].value = image[j][m]
    BY <1>1 DEF Inv, JobInv, Signed
  <2>3. CASE m = a
    BY <1>1, <1>2, <2>3, StateRecoveryAssumption DEF Member
  <2>4. CASE m # a
    BY <1>1, <1>2, <2>2, <2>4, StateRecoveryAssumption DEF Member
  <2> QED BY <2>3, <2>4
<1> QED BY <1>5, <1>6, <1>7 DEF JobInv

\* Advance goes on with the next member, or ends with the last.
LEMMA AdvanceFacts ==
    ASSUME JobTypes, NEW j \in Job, NEW again \in Steps, NEW then \in Steps,
           Advance(j, again, then)
    PROVE  /\ pc' \in [Job -> Steps] /\ at' \in [Job -> Member]
           /\ \/ at[j] < Members /\ pc'[j] = again /\ at'[j] = at[j] + 1
              \/ at[j] = Members /\ pc'[j] = then /\ at'[j] = 1
<1>1. /\ at \in [Job -> 1..Members] /\ Members \in Nat \ {0}
      /\ pc \in [Job -> Steps]
  BY StateRecoveryAssumption DEF JobTypes, Member
<1>2. CASE at[j] < Members
  <2>1. pc' = [pc EXCEPT ![j] = again] /\ at' = [at EXCEPT ![j] = @ + 1]
    BY <1>2 DEF Advance, Go
  <2>2. at[j] + 1 \in 1..Members
    BY <1>1, <1>2
  <2> QED BY <1>1, <1>2, <2>1, <2>2 DEF Member
<1>3. CASE at[j] = Members
  <2>1. pc' = [pc EXCEPT ![j] = then] /\ at' = [at EXCEPT ![j] = 1]
    BY <1>1, <1>3 DEF Advance, Go
  <2>2. 1 \in 1..Members
    BY <1>1
  <2> QED BY <1>1, <1>3, <2>1, <2>2 DEF Member
<1> QED BY <1>1, <1>2, <1>3

LEMMA PlanMemberStep ==
    ASSUME Inv, NEW j \in Job, PlanMember(j) PROVE Shared' /\ JobInv(j)'
<1> DEFINE a == at[j]
<1>1. CASE Fail(j) /\ UNCHANGED <<image, at>>
  BY <1>1, FailStep DEF PlanMember, UnchangedDisk
<1>2. CASE /\ Advance(j, "sign", "free")
           /\ image' = [image EXCEPT ![j][a] = live[a].value]
           /\ a \in Sqlite \/ live[a].stamp = stamps[j][a]
  <2>1. /\ pc[j] = "read" /\ kind[j] = "backup" /\ a \in Member
        /\ live[a].value \in Low
        /\ UNCHANGED <<live, past, package, root, staging, made, faults, kind, place, id, from,
                       stamps, rows, before>>
    BY DEF PlanMember, UnchangedDisk, job, Inv, DiskTypes, JobTypes, JobInv, Placed
  <2>2. /\ pc' \in [Job -> Steps] /\ at' \in [Job -> Member]
        /\ \/ a < Members /\ pc'[j] = "sign" /\ at'[j] = a + 1
           \/ a = Members /\ pc'[j] = "free" /\ at'[j] = 1
    BY <1>2, AdvanceFacts DEF Inv, Steps
  <2>3. /\ image[j] \in LowPartial
        /\ image'[j] = [image[j] EXCEPT ![a] = live[a].value]
    BY <1>2, <2>1 DEF Inv, JobTypes
  <2>4. image' \in [Job -> LowPartial]
    BY <1>2, <2>1, <2>3 DEF Inv, JobTypes, LowPartial
  <2>5. JobTypes'
    BY <2>1, <2>2, <2>4 DEF Inv, JobTypes
  <2>6. Shared'
    BY <2>1, <2>5, SharedStays DEF Inv, DiskTypes
  <2>7. Placed(j)' /\ Noted(j)' /\ Touched(j)' /\ Held(j)'
    BY <2>1, <2>2, Unbound DEF Inv, JobInv, Placed, Reading, Again, Settled, Held, Holds
  <2>8. ASSUME NEW m \in Member, m <= a
        PROVE  /\ stamps[j][m] \in 0..MaxWrites /\ stamps[j][m] <= live[m].stamp
               /\ live[m].stamp = stamps[j][m] => live[m].value = image'[j][m]
    <3>1. /\ stamps[j][m] \in 0..MaxWrites /\ stamps[j][m] <= live[m].stamp
          /\ m < a => (live[m].stamp = stamps[j][m] => live[m].value = image[j][m])
      BY <2>1, <2>8 DEF Inv, JobInv, Signed
    <3>2. CASE m = a
      BY <2>1, <2>3, <3>1, <3>2 DEF LowPartial
    <3>3. CASE m # a
      BY <2>1, <2>3, <2>8, <3>1, <3>3 DEF LowPartial, Member
    <3> QED BY <3>2, <3>3
  <2>9. Signed(j)'
    BY <2>1, <2>2, <2>8, StateRecoveryAssumption DEF Signed, Member
  <2>10. Cut(j)'
    <3>1. CASE pc'[j] = "sign"
      BY <3>1 DEF Cut
    <3>2. CASE a = Members /\ pc'[j] = "free" /\ at'[j] = 1
      <4>1. \A m \in Member : m <= a /\ ~(m < 1)
        BY <3>2, StateRecoveryAssumption DEF Member
      <4>2. Contents(live) \in past /\ \A m \in Member : Contents(live)[m] = live[m].value
        BY DEF Inv, Recorded, Contents
      <4>3. \A m \in Member : Agrees(j, Contents(live), m)'
        BY <2>1, <2>8, <3>2, <4>1, <4>2 DEF Agrees, Contents
      <4> QED BY <2>1, <3>2, <4>2, <4>3 DEF Cut, Contents
    <3> QED BY <2>2, <3>1, <3>2
  <2> QED BY <2>6, <2>7, <2>9, <2>10 DEF JobInv
<1> QED BY <1>1, <1>2 DEF PlanMember

\* A step that only moves on.
LEMMA MoveShared ==
    ASSUME Inv, NEW j \in Job, NEW s \in Steps, Go(j, s),
           UNCHANGED <<live, past, package, root, staging, made, faults, job, stamps, image,
                       rows, before, at>>
    PROVE  Shared' /\ pc'[j] = s
<1>1. JobTypes' /\ pc'[j] = s
  BY DEF Inv, JobTypes, Go, job
<1> QED BY <1>1, SharedStays DEF Inv, DiskTypes

LEMMA CheckFreeStep ==
    ASSUME Inv, NEW j \in Job, CheckFree(j) PROVE Shared' /\ JobInv(j)'
<1>1. CASE Fail(j)
  BY <1>1, FailStep DEF CheckFree, UnchangedDisk
<1>2. CASE Go(j, "stage")
  <2>1. /\ pc[j] = "free" /\ kind[j] = "backup" /\ Shared' /\ pc'[j] = "stage"
        /\ UNCHANGED <<live, past, job, stamps, image, at>>
    BY <1>2, MoveShared DEF CheckFree, UnchangedDisk, Steps, Inv, JobInv, Placed
  <2>2. Noted(j)' /\ Touched(j)'
    BY <2>1, Unbound DEF job
  <2>3. JobInv(j)'
    BY <2>1, <2>2 DEF Inv, JobInv, Placed, Reading, Again, Settled, Held, Holds, Signed, Cut,
                      Agrees, job
  <2> QED BY <2>1, <2>3
<1> QED BY <1>1, <1>2 DEF CheckFree

LEMMA MakeStagingStep ==
    ASSUME Inv, NEW j \in Job, MakeStaging(j) PROVE Shared' /\ JobInv(j)'
<1>1. CASE Fail(j) /\ UNCHANGED staging
  BY <1>1, FailStep DEF MakeStaging
<1>2. CASE Go(j, Staging(j)) /\ staging' = [staging EXCEPT ![Stage(j)] = Filled(j)]
  <2>1. /\ pc[j] = "stage" /\ JobInv(j)
        /\ kind[j] \in Kinds
        /\ UNCHANGED <<live, past, package, root, made, faults, job, stamps, image, rows, before,
                       at>>
    BY DEF MakeStaging, Inv, JobInv, Placed
  <2>2. Stage(j) \in Kinds \X Place \X Id /\ Stage(j)' = Stage(j)
    BY <2>1, StageType DEF JobInv, Stage, job
  <2>3. Filled(j) \in Partial
    <3>1. CASE kind[j] \in {"migrate", "rollback"}
      <4>1. rows[j] \in made
        BY <2>1, <3>1 DEF JobInv, Noted, Loaded
      <4>3. rows[j] \in LowImage
        BY <4>1 DEF Inv, DiskTypes
      <4> QED BY <2>1, <3>1, <4>3, Images DEF Filled
    <3>2. CASE kind[j] \notin {"migrate", "rollback"}
      BY <3>2, Images DEF Filled
    <3> QED BY <3>1, <3>2
  <2>4. /\ staging' \in [Kinds \X Place \X Id -> Partial \cup {None}]
        /\ staging'[Stage(j)] \in Partial
    BY <1>2, <2>2, <2>3 DEF Inv, DiskTypes
  <2>5. /\ Staging(j) \in Steps
        /\ kind[j] = "backup" => Staging(j) = "compare"
        /\ kind[j] # "backup" => Staging(j) \in {"copy", "seal"}
    BY DEF Staging, Steps
  <2>6. JobTypes' /\ pc'[j] = Staging(j)
    BY <1>2, <2>1, <2>5 DEF Inv, JobTypes, Go, job
  <2>7. Shared'
    BY <2>1, <2>4, <2>6, SharedStays
  <2>8. Placed(j)' /\ Held(j)'
    BY <2>1, <2>2, <2>4, <2>5, <2>6 DEF JobInv, Placed, Reading, Again, Settled, Held, job
  <2>10. Noted(j)' /\ Touched(j)'
    <3>1. CASE kind[j] = "backup"
      BY <2>1, <2>5, <2>6, <3>1, Unbound DEF job
    <3>2. CASE kind[j] # "backup"
      <4>1. Bound(j) /\ Loaded(j) /\ pc'[j] \notin Again /\ pc'[j] \notin Settled
        BY <2>1, <2>5, <2>6, <3>2 DEF Bound, Loaded, Again, Settled
      <4> QED BY <2>1, <4>1, SaysNoMore DEF JobInv
    <3> QED BY <3>1, <3>2
  <2>9. Signed(j)' /\ Cut(j)'
    BY <2>1, <2>5, <2>6 DEF JobInv, Signed, Cut, Agrees, job
  <2> QED BY <2>7, <2>8, <2>9, <2>10 DEF JobInv
<1> QED BY <1>1, <1>2 DEF MakeStaging

LEMMA CompareSignatureStep ==
    ASSUME Inv, NEW j \in Job, CompareSignature(j) PROVE Shared' /\ JobInv(j)'
<1>1. CASE Fail(j)
  BY <1>1, FailStep DEF CompareSignature, UnchangedDisk
<1>2. CASE Go(j, "take")
  <2>1. /\ pc[j] = "compare" /\ JobInv(j) /\ Shared' /\ pc'[j] = "take"
        /\ UNCHANGED <<live, past, staging, job, stamps, image, rows, at>>
    BY <1>2, MoveShared DEF CompareSignature, UnchangedDisk, Steps, Inv
  <2>2. Noted(j)' /\ Touched(j)'
    BY <2>1, Unbound
  <2>3. JobInv(j)'
    BY <2>1, <2>2 DEF JobInv, Placed, Reading, Again, Settled, Held, Holds, Stage, Signed, Cut,
                      Agrees, job
  <2> QED BY <2>1, <2>3
<1> QED BY <1>1, <1>2 DEF CompareSignature

\* Writing a member into a staging directory leaves a staging directory.
LEMMA StagingWrite ==
    ASSUME DiskTypes, NEW s \in Kinds \X Place \X Id, staging[s] \in Partial,
           NEW m \in Member, NEW v \in Low,
           staging' = [staging EXCEPT ![s][m] = v]
    PROVE  /\ staging' \in [Kinds \X Place \X Id -> Partial \cup {None}]
           /\ staging'[s] \in Partial
<1>1. staging' = [staging EXCEPT ![s] = [staging[s] EXCEPT ![m] = v]]
  BY DEF DiskTypes
<1>2. [staging[s] EXCEPT ![m] = v] \in Partial
  BY Images DEF Partial
<1> QED BY <1>1, <1>2 DEF DiskTypes

LEMMA TakeMemberStep ==
    ASSUME Inv, NEW j \in Job, TakeMember(j) PROVE Shared' /\ JobInv(j)'
<1> DEFINE a == at[j]
<1>1. CASE Fail(j) /\ UNCHANGED <<staging, at>>
  BY <1>1, FailStep DEF TakeMember
<1>2. CASE /\ live[a].value = image[j][a] /\ live[a].stamp = stamps[j][a]
           /\ Advance(j, "compare", "seal")
           /\ staging' = [staging EXCEPT ![Stage(j)][a] = live[a].value]
  <2>1. /\ pc[j] = "take" /\ kind[j] = "backup" /\ JobInv(j) /\ a \in Member
        /\ live[a].value \in Low
        /\ UNCHANGED <<live, past, package, root, made, faults, job, stamps, image, rows, before>>
    BY DEF TakeMember, Inv, DiskTypes, JobTypes, JobInv, Placed
  <2>2. /\ Stage(j) \in Kinds \X Place \X Id /\ Stage(j)' = Stage(j)
        /\ staging[Stage(j)] \in Partial
    BY <2>1, StageType DEF JobInv, Stage, Held, Holds, job
  <2>3. /\ staging' \in [Kinds \X Place \X Id -> Partial \cup {None}]
        /\ staging'[Stage(j)] \in Partial
    BY <1>2, <2>1, <2>2, StagingWrite DEF Inv
  <2>4. /\ pc' \in [Job -> Steps] /\ at' \in [Job -> Member]
        /\ \/ a < Members /\ pc'[j] = "compare" /\ at'[j] = a + 1
           \/ a = Members /\ pc'[j] = "seal" /\ at'[j] = 1
    BY <1>2, AdvanceFacts DEF Inv, Steps
  <2>5. JobTypes'
    BY <2>1, <2>4 DEF Inv, JobTypes, job
  <2>6. Shared'
    BY <2>1, <2>3, <2>5, SharedStays
  <2>7. Placed(j)' /\ Held(j)' /\ Noted(j)' /\ Touched(j)'
    BY <2>1, <2>2, <2>3, <2>4, Unbound DEF JobInv, Placed, Reading, Again, Settled, Held, job
  <2>8. Signed(j)'
    BY <2>1, <2>4 DEF JobInv, Signed, job
  <2>9. Cut(j)'
    <3>1. PICK f \in past : \A m \in Member : Agrees(j, f, m)
      BY <2>1 DEF JobInv, Cut
    <3>2. f[a] = image[j][a]
      BY <1>2, <2>1, <3>1 DEF Agrees
    <3>3. CASE pc'[j] = "compare" /\ at'[j] = a + 1
      <4>1. \A m \in Member : m < a + 1 => m < a \/ m = a
        BY <2>1, StateRecoveryAssumption DEF Member
      <4>2. \A m \in Member : Agrees(j, f, m)'
        BY <2>1, <3>1, <3>2, <3>3, <4>1 DEF Agrees
      <4> QED BY <2>1, <3>3, <4>2 DEF Cut
    <3>4. CASE pc'[j] = "seal" /\ a = Members
      <4>1. \A m \in Member : m < a \/ m = a
        BY <3>4, StateRecoveryAssumption DEF Member
      <4>2. \A m \in Member : f[m] = image[j][m]
        BY <3>1, <3>2, <4>1 DEF Agrees
      <4>3. f \in [Member -> Low] /\ image[j] \in [Member -> Low \cup {None}]
        BY DEF Inv, DiskTypes, JobTypes, LowImage, LowPartial
      <4>4. f = image[j]
        BY <4>2, <4>3
      <4> QED BY <2>1, <3>4, <4>4 DEF Cut
    <3> QED BY <2>4, <3>3, <3>4
  <2> QED BY <2>6, <2>7, <2>8, <2>9 DEF JobInv
<1> QED BY <1>1, <1>2 DEF TakeMember

\* Giving up a staging directory.
LEMMA StagingDropped ==
    ASSUME DiskTypes, NEW s \in Kinds \X Place \X Id,
           staging' = [staging EXCEPT ![s] = None]
    PROVE  staging' \in [Kinds \X Place \X Id -> Partial \cup {None}]
BY DEF DiskTypes

LEMMA PublishBackupStep ==
    ASSUME Inv, NEW j \in Job, PublishBackup(j) PROVE Shared' /\ JobInv(j)'
<1> DEFINE p == place[j]
<1>1. CASE Fail(j) /\ UNCHANGED <<package, staging, made>>
  BY <1>1, FailStep DEF PublishBackup
<1>2. CASE /\ staging[Stage(j)] = image[j] /\ package[p] = None
           /\ Go(j, "done")
           /\ package' = [package EXCEPT ![p] =
                              [manifest |-> image[j], files |-> staging[Stage(j)]]]
           /\ staging' = [staging EXCEPT ![Stage(j)] = None]
           /\ made' = made \cup {image[j]}
  <2>1. /\ pc[j] = "seal" /\ kind[j] = "backup" /\ p \in Place
        /\ image[j] \in past
        /\ UNCHANGED <<live, past, root, faults, job, stamps, image, rows, before, at>>
    BY DEF PublishBackup, Inv, JobInv, Placed, Cut
  <2>2. image[j] \in LowImage /\ image[j] \in Image
    BY <2>1, Images DEF Inv, DiskTypes
  <2>3. package' \in [Place -> Package \cup {None}]
    BY <1>2, <2>1, <2>2 DEF Inv, DiskTypes, Package
  <2>4. staging' \in [Kinds \X Place \X Id -> Partial \cup {None}]
    BY <1>2, <2>1, StageType, StagingDropped DEF Inv, JobInv
  <2>5. DiskTypes'
    BY <1>2, <2>1, <2>2, <2>3, <2>4 DEF Inv, DiskTypes
  <2>6. JobTypes' /\ pc'[j] = "done"
    BY <1>2, <2>1 DEF Inv, JobTypes, Go, Steps, Over, job
  <2>7. Recorded' /\ BackupIsConsistentCut' /\ RootMatchesBackup'
    <3>1. \A q \in Place : package'[q] = package[q]
                           \/ package'[q].manifest = image[j]
      BY <1>2, <2>1 DEF Inv, DiskTypes
    <3>2. Recorded'
      BY <1>2, <2>1, <3>1 DEF Inv, Recorded, Contents
    <3>3. RootMatchesBackup'
      BY <1>2, <2>1 DEF Inv, RootMatchesBackup, Target, Migrated
    <3> QED BY <1>2, <2>1, <3>2, <3>3 DEF Inv, BackupIsConsistentCut
  <2> QED BY <2>1, <2>5, <2>6, <2>7, OverInv DEF Shared
<1> QED BY <1>1, <1>2 DEF PublishBackup

\* What an operation finds in its place is a package, with the manifest of a backup.
LEMMA SourceFacts ==
    ASSUME Inv, NEW j \in Job, pc[j] # "new", Source(j) # None
    PROVE  Source(j) \in Package /\ Source(j).manifest \in made /\ Source(j).manifest \in LowImage
<1>1. from[j] \in Place
  BY DEF Inv, JobInv, Placed
<1> QED BY <1>1 DEF Source, Inv, DiskTypes, Recorded, Package

\* A step of an operation that reads a package, or its staging directory.
LEMMA ReadStep ==
    ASSUME Inv, NEW j \in Job, pc[j] # "new", kind[j] # "backup", JobTypes',
           UNCHANGED <<live, past, package, root, staging, made, faults, job>>,
           pc'[j] \in Reading \cup {"stage"}, pc'[j] \in {"stands", "stood"} => kind[j] = "rollback",
           Holds(j)' => Holds(j), Noted(j)', Touched(j)'
    PROVE  Shared' /\ JobInv(j)'
<1>1. Shared'
  BY SharedStays DEF Inv, DiskTypes
<1>2. kind[j] \in Kinds /\ place[j] \in Place /\ from[j] \in Place /\ id[j] \in Id
  BY DEF Inv, JobInv, Placed
<1>3. Placed(j)'
  BY <1>2 DEF Placed, Reading, Again, Settled, job
<1>4. Held(j)'
  BY DEF Inv, JobInv, Held, Stage, job
<1>5. Signed(j)' /\ Cut(j)'
  BY DEF Signed, Cut, job
<1> QED BY <1>1, <1>3, <1>4, <1>5 DEF JobInv

\* One that goes to another step and notes nothing.
LEMMA GoStep ==
    ASSUME Inv, NEW j \in Job, pc[j] # "new", kind[j] # "backup", NEW s \in Reading, Go(j, s),
           UNCHANGED <<live, past, package, root, staging, made, faults, job, stamps, image,
                       rows, before, at>>,
           s \in Again => Holds(j), s \notin {"stands", "stood"},
           s = "copy" /\ kind[j] = "restore" => Holds(j),
           Noted(j)', Touched(j)'
    PROVE  Shared' /\ JobInv(j)'
<1>1. s \in Steps
  BY DEF Reading, Again, Settled, Steps
<1>2. JobTypes' /\ pc'[j] = s
  BY <1>1 DEF Inv, JobTypes, Go, job
<1>3. Holds(j)' => Holds(j)
  BY <1>2 DEF Holds, job, Reading, Again, Settled
<1> QED BY <1>2, <1>3, ReadStep

\* A comparison moves to the next member, or on.
LEMMA CompareStep ==
    ASSUME Inv, NEW j \in Job, kind[j] # "backup", NEW f,
           NEW s \in {"check", "recheck", "reread", "relist"}, NEW then \in Reading,
           Compare(j, f, s, then), s = "check" => then \in {"target", "load", "stands"},
           s # "check" => then \in Again, s = "recheck" => then \notin Settled,
           s \in Settled => then \in Settled,
           then = "target" => kind[j] = "restore",
           then \in {"stands", "stood"} => kind[j] = "rollback"
    PROVE  Shared' /\ JobInv(j)'
<1>1. CASE Fail(j) /\ UNCHANGED at
  BY <1>1, FailStep DEF Compare, UnchangedDisk
<1>2. CASE Advance(j, s, then)
  <2>1. /\ pc[j] = s /\ JobInv(j)
        /\ UNCHANGED <<live, past, package, root, staging, made, faults, job, stamps, image,
                       rows, before>>
    BY DEF Compare, UnchangedDisk, Inv
  <2>2. s \in Reading /\ s \in Steps /\ then \in Steps
    BY DEF Reading, Again, Settled, Steps
  <2>3. /\ pc' \in [Job -> Steps] /\ at' \in [Job -> Member]
        /\ pc'[j] \in {s, then}
    BY <1>2, <2>2, AdvanceFacts DEF Inv
  <2>4. JobTypes'
    BY <2>1, <2>3 DEF Inv, JobTypes, job
  <2>5. /\ Bound(j)
        /\ pc'[j] \in Again => pc[j] \in Again
        /\ pc'[j] \in Settled => pc[j] \in Settled
        /\ Holds(j)' => Holds(j)
    <3>1. CASE s = "check"
      BY <2>1, <2>3, <3>1 DEF Bound, Reading, Again, Settled, Holds, job
    <3>2. CASE s # "check"
      <4>1. s \in Again /\ Bound(j) /\ Holds(j)
        BY <2>1, <3>2 DEF Bound, Reading, Again, Settled, Holds
      <4>2. pc'[j] \in Settled => s \in Settled
        BY <2>3, <3>2 DEF Settled
      <4> QED BY <2>1, <4>1, <4>2
    <3> QED BY <3>1, <3>2
  <2>6. Loaded(j)' => Loaded(j)
    <3>1. CASE s = "check"
      BY <2>1, <2>3, <3>1 DEF Loaded, Again, Settled, job
    <3>2. CASE s # "check"
      BY <2>1, <3>2 DEF Loaded, Again, Settled
    <3> QED BY <3>1, <3>2
  <2>7. image'[j] = image[j] /\ rows'[j] = rows[j]
    BY <2>1
  <2>8. Noted(j)' /\ Touched(j)'
    BY <2>1, <2>5, <2>6, <2>7, SaysNoMore DEF JobInv
  <2>9. /\ pc'[j] \in Reading /\ pc[j] # "new"
        /\ pc'[j] \in {"stands", "stood"} => kind[j] = "rollback"
    BY <2>1, <2>2, <2>3
  <2> QED BY <2>1, <2>4, <2>5, <2>8, <2>9, ReadStep
<1> QED BY <1>1, <1>2 DEF Compare

\* Each of the comparisons is one.
LEMMA ComparisonSteps ==
    ASSUME Inv, NEW j \in Job,
           CheckMember(j) \/ RecheckMember(j) \/ RereadMember(j) \/ RelistMember(j)
    PROVE  Shared' /\ JobInv(j)'
<1>1. JobInv(j)
  BY DEF Inv
<1>2. kind[j] # "backup"
  BY <1>1 DEF CheckMember, RecheckMember, RereadMember, RelistMember, Compare, JobInv, Placed,
              Reading, Again, Settled
<1> kind[j] \in Kinds /\ Kinds \subseteq {"backup", "restore", "migrate", "rollback"}
  BY <1>1, StateRecoveryAssumption DEF CheckMember, RecheckMember, RereadMember, RelistMember,
              Compare, JobInv, Placed
<1>3. CASE CheckMember(j)
  <2>1. Checked(j) \in {"target", "load", "stands"}
        /\ (Checked(j) = "target" => kind[j] = "restore")
        /\ (Checked(j) = "stands" => kind[j] = "rollback")
    BY <1>2 DEF Checked
  <2>2. Checked(j) \in Reading
    BY <2>1 DEF Reading
  <2>3. Compare(j, image[j], "check", Checked(j))
    BY <1>3 DEF CheckMember
  <2>4. "check" \notin Settled
    BY DEF Settled
  <2> QED BY <1>2, <2>1, <2>2, <2>3, <2>4, CompareStep
<1>4. CASE RecheckMember(j)
  <2>1. Inspected(j) \in {"stood", "reload"} /\ (Inspected(j) = "stood" => kind[j] = "rollback")
    BY DEF Inspected
  <2>2. Inspected(j) \in Again /\ Inspected(j) \in Reading /\ Inspected(j) \notin Settled
    BY <2>1 DEF Reading, Again, Settled
  <2>3. Compare(j, image[j], "recheck", Inspected(j))
    BY <1>4 DEF RecheckMember
  <2>4. "recheck" \notin Settled
    BY DEF Settled
  <2> QED BY <1>2, <2>1, <2>2, <2>3, <2>4, CompareStep
<1>5. CASE RereadMember(j)
  <2>1. "recount" \in Settled /\ "recount" \in Again /\ "recount" \in Reading
    BY DEF Reading, Again, Settled
  <2>2. Compare(j, rows[j], "reread", "recount")
    BY <1>5 DEF RereadMember
  <2> QED BY <1>2, <2>1, <2>2, CompareStep
<1>6. CASE RelistMember(j)
  <2>1. "rename" \in Settled /\ "rename" \in Again /\ "rename" \in Reading
    BY DEF Reading, Again, Settled
  <2>2. Compare(j, before[j].files, "relist", "rename")
    BY <1>6 DEF RelistMember
  <2> QED BY <1>2, <2>1, <2>2, CompareStep
<1> QED BY <1>3, <1>4, <1>5, <1>6

LEMMA InspectStep ==
    ASSUME Inv, NEW j \in Job, Inspect(j) PROVE Shared' /\ JobInv(j)'
<1>1. CASE Fail(j) /\ UNCHANGED image
  BY <1>1, FailStep DEF Inspect, UnchangedDisk
<1>2. CASE /\ Source(j) # None
           /\ Go(j, "check")
           /\ image' = [image EXCEPT ![j] = Source(j).manifest]
  <2>1. /\ pc[j] = "inspect" /\ kind[j] # "backup" /\ JobInv(j)
        /\ Source(j).manifest \in LowImage /\ Source(j).manifest \in made
        /\ UNCHANGED <<live, past, package, root, staging, made, faults, job, stamps, rows,
                       before, at>>
    BY <1>2, SourceFacts DEF Inspect, UnchangedDisk, Inv, JobInv, Placed
  <2>2. image'[j] = Source(j).manifest /\ image' \in [Job -> LowPartial]
    BY <1>2, <2>1 DEF Inv, JobTypes, LowImage, LowPartial
  <2>3. JobTypes' /\ pc'[j] = "check"
    BY <1>2, <2>1, <2>2 DEF Inv, JobTypes, Go, Steps, job
  <2>4. ~Loaded(j)' /\ pc'[j] \notin Settled /\ ~Holds(j)' /\ pc'[j] \in Reading
    BY <2>3 DEF Loaded, Reading, Again, Settled, Holds
  <2>5. There(j)' = image'[j]
    BY <1>2, <2>1, <2>2 DEF There, Manifest, Source, job
  <2>6. Noted(j)' /\ Touched(j)'
    BY <2>1, <2>2, <2>4, <2>5 DEF Noted, Touched
  <2> QED BY <2>1, <2>3, <2>4, <2>6, ReadStep
<1> QED BY <1>1, <1>2 DEF Inspect

LEMMA CheckMigrationStep ==
    ASSUME Inv, NEW j \in Job, CheckMigration(j) PROVE Shared' /\ JobInv(j)'
<1>1. CASE Fail(j)
  BY <1>1, FailStep DEF CheckMigration, UnchangedDisk
<1>2. CASE Go(j, IF pc[j] = "stands" THEN "inventory" ELSE "reload")
  <2>1. /\ pc[j] \in {"stands", "stood"} /\ JobInv(j) /\ kind[j] # "backup"
        /\ UNCHANGED <<live, past, package, root, staging, made, faults, job, stamps, image,
                       rows, before, at>>
    BY DEF CheckMigration, UnchangedDisk, Inv, JobInv, Placed, Reading, Again, Settled
  <2> DEFINE s == IF pc[j] = "stands" THEN "inventory" ELSE "reload"
  <2>2. kind[j] = "rollback"
    BY <2>1 DEF JobInv, Placed
  <2>3. pc' = [pc EXCEPT ![j] = s] /\ pc'[j] = s
    BY <1>2, <2>1 DEF Go, Inv, JobTypes
  <2>4. /\ Bound(j) /\ (Loaded(j)' => Loaded(j))
        /\ (pc'[j] \in Again => pc[j] \in Again) /\ pc'[j] \notin Settled
    BY <2>1, <2>2, <2>3 DEF Bound, Loaded, Reading, Again, Settled, job
  <2>5. Noted(j)' /\ Touched(j)'
    BY <2>1, <2>4, SaysNoMore DEF JobInv
  <2>6. /\ s \in Reading /\ s \in {"inventory", "reload"} /\ pc[j] # "new"
        /\ s \in Again => Holds(j)
    BY <2>1 DEF Reading, Again, Settled, Holds
  <2>7. Go(j, s)
    BY <1>2
  <2> HIDE DEF s
  <2> QED BY <2>1, <2>5, <2>6, <2>7, GoStep
<1> QED BY <1>1, <1>2 DEF CheckMigration

LEMMA ResolveTargetStep ==
    ASSUME Inv, NEW j \in Job, ResolveTarget(j) PROVE Shared' /\ JobInv(j)'
<1>1. CASE Fail(j)
  BY <1>1, FailStep DEF ResolveTarget, UnchangedDisk
<1>2. CASE Go(j, IF kind[j] = "restore" THEN "inventory" ELSE "copy")
  <2> DEFINE s == IF kind[j] = "restore" THEN "inventory" ELSE "copy"
  <2>1. /\ pc[j] = "target" /\ JobInv(j) /\ kind[j] # "backup" /\ kind[j] \in Kinds
        /\ UNCHANGED <<live, past, package, root, staging, made, faults, job, stamps, image,
                       rows, before, at>>
    BY DEF ResolveTarget, UnchangedDisk, Inv, JobInv, Placed, Reading
  <2>2. kind[j] \in {"restore", "migrate", "rollback"}
    BY <2>1, StateRecoveryAssumption
  <2>3. pc' = [pc EXCEPT ![j] = s] /\ pc'[j] = s
    BY <1>2, <2>1 DEF Go, Inv, JobTypes
  <2>4. /\ Bound(j) /\ (Loaded(j)' => Loaded(j))
        /\ pc'[j] \notin Again /\ pc'[j] \notin Settled
    BY <2>1, <2>2, <2>3 DEF Bound, Loaded, Reading, Again, Settled, job
  <2>5. Noted(j)' /\ Touched(j)'
    BY <2>1, <2>4, SaysNoMore DEF JobInv
  <2>6. /\ s \in Reading /\ s \notin Again /\ s \notin {"stands", "stood"} /\ pc[j] # "new"
        /\ ~(s = "copy" /\ kind[j] = "restore")
    BY <2>1 DEF Reading, Again, Settled
  <2>7. Go(j, s)
    BY <1>2
  <2> HIDE DEF s
  <2> QED BY <2>1, <2>5, <2>6, <2>7, GoStep
<1> QED BY <1>1, <1>2 DEF ResolveTarget

LEMMA TakeInventoryStep ==
    ASSUME Inv, NEW j \in Job, TakeInventory(j) PROVE Shared' /\ JobInv(j)'
<1>1. /\ pc[j] = "inventory" /\ JobInv(j) /\ kind[j] # "backup" /\ from[j] \in Place
      /\ pc' = [pc EXCEPT ![j] = "list"]
      /\ before' = [before EXCEPT ![j].manifest = There(j)]
      /\ UNCHANGED <<live, past, package, root, staging, made, faults, job, stamps, image, rows,
                     at>>
  BY DEF TakeInventory, UnchangedDisk, Inv, JobInv, Placed, Reading, Go, There
<1>2. There(j) \in LowImage \cup {None}
  BY <1>1, SourceFacts DEF There, Manifest
<1>3. before' \in [Job -> [manifest : LowImage \cup {None}, files : Partial]]
  <2>1. before' = [before EXCEPT ![j] = [before[j] EXCEPT !.manifest = There(j)]]
    BY <1>1 DEF Inv, JobTypes
  <2>2. before[j] \in [manifest : LowImage \cup {None}, files : Partial]
    BY DEF Inv, JobTypes
  <2>3. [before[j] EXCEPT !.manifest = There(j)] \in [manifest : LowImage \cup {None}, files : Partial]
    BY <1>2, <2>2
  <2> QED BY <2>1, <2>3 DEF Inv, JobTypes
<1>4. JobTypes' /\ pc'[j] = "list"
  BY <1>1, <1>3 DEF Inv, JobTypes, Steps, job
<1>5. /\ Bound(j) /\ (Loaded(j)' => Loaded(j)) /\ ~Holds(j)'
      /\ pc'[j] \notin Again /\ pc'[j] \notin Settled /\ pc'[j] \in Reading
  BY <1>1, <1>4 DEF Bound, Loaded, Reading, Again, Settled, Holds, job
<1>6. Noted(j)' /\ Touched(j)'
  BY <1>1, <1>5, SaysNoMore DEF JobInv
<1> QED BY <1>1, <1>4, <1>5, <1>6, ReadStep

LEMMA ListMemberStep ==
    ASSUME Inv, NEW j \in Job, ListMember(j) PROVE Shared' /\ JobInv(j)'
<1> DEFINE a == at[j]
           then == IF kind[j] = "migrate" THEN "target" ELSE "load"
           v == File(Source(j), a)
<1>1. /\ pc[j] = "list" /\ JobInv(j) /\ kind[j] # "backup" /\ from[j] \in Place
      /\ a \in Member /\ Advance(j, "list", then)
      /\ before' = [before EXCEPT ![j].files[a] = v]
      /\ UNCHANGED <<live, past, package, root, staging, made, faults, job, stamps, image, rows>>
  BY DEF ListMember, UnchangedDisk, Inv, JobInv, Placed, Reading, JobTypes
<1>2. v \in Value \cup {None}
  <2>1. CASE Source(j) = None
    BY <2>1 DEF File
  <2>2. CASE Source(j) # None
    <3>1. Source(j).files \in Image
      BY <1>1, <2>2, SourceFacts DEF Package
    <3> QED BY <1>1, <2>2, <3>1 DEF File, Image
  <2> QED BY <2>1, <2>2
<1>3. before' \in [Job -> [manifest : LowImage \cup {None}, files : Partial]]
  <2> HIDE DEF v, a
  <2>1. before' = [before EXCEPT ![j] = [before[j] EXCEPT !.files = [before[j].files EXCEPT ![a] = v]]]
    BY <1>1 DEF Inv, JobTypes
  <2>2. before[j] \in [manifest : LowImage \cup {None}, files : Partial]
    BY DEF Inv, JobTypes
  <2>3. [before[j].files EXCEPT ![a] = v] \in Partial
    BY <1>1, <1>2, <2>2 DEF Partial
  <2>4. [before[j] EXCEPT !.files = [before[j].files EXCEPT ![a] = v]]
            \in [manifest : LowImage \cup {None}, files : Partial]
    BY <2>2, <2>3
  <2> QED BY <2>1, <2>4 DEF Inv, JobTypes
<1>4. then \in {"target", "load"} /\ then \in Steps /\ "list" \in Steps
  BY DEF Steps
<1>5. /\ pc' \in [Job -> Steps] /\ at' \in [Job -> Member]
      /\ pc'[j] \in {"list", then}
  BY <1>1, <1>4, AdvanceFacts DEF Inv
<1>6. JobTypes'
  BY <1>1, <1>3, <1>5 DEF Inv, JobTypes, job
<1>7. /\ Bound(j) /\ (Loaded(j)' => Loaded(j)) /\ ~Holds(j)'
      /\ pc'[j] \notin Again /\ pc'[j] \notin Settled /\ pc'[j] \in Reading
      /\ pc'[j] \notin {"stands", "stood"}
  BY <1>1, <1>5 DEF Bound, Loaded, Reading, Again, Settled, Holds, job
<1>8. Noted(j)' /\ Touched(j)'
  BY <1>1, <1>7, SaysNoMore DEF JobInv
<1> QED BY <1>1, <1>6, <1>7, <1>8, ReadStep

LEMMA LoadManifestStep ==
    ASSUME Inv, NEW j \in Job, LoadManifest(j) PROVE Shared' /\ JobInv(j)'
<1>1. CASE Fail(j) /\ UNCHANGED rows
  BY <1>1, FailStep DEF LoadManifest, UnchangedDisk
<1> DEFINE s == CASE kind[j] = "restore" -> "stage" [] kind[j] = "migrate" -> "inventory"
                  [] OTHER -> "target"
<1>2. CASE /\ Source(j) # None
           /\ Go(j, s)
           /\ rows' = [rows EXCEPT ![j] = Source(j).manifest]
  <2>1. /\ pc[j] = "load" /\ JobInv(j) /\ kind[j] # "backup"
        /\ Source(j).manifest \in LowImage /\ Source(j).manifest \in made
        /\ UNCHANGED <<live, past, package, root, staging, made, faults, job, stamps, image,
                       before, at>>
    BY <1>2, SourceFacts DEF LoadManifest, UnchangedDisk, Inv, JobInv, Placed, Reading
  <2>2. rows'[j] = Source(j).manifest /\ rows' \in [Job -> LowPartial]
    BY <1>2, <2>1 DEF Inv, JobTypes, LowImage, LowPartial
  <2>3. s \in {"stage", "inventory", "target"} /\ s \in Steps
    BY DEF Steps
  <2>4. JobTypes' /\ pc'[j] = s
    BY <1>2, <2>1, <2>2, <2>3 DEF Inv, JobTypes, Go, job
  <2>5. /\ Bound(j) /\ pc'[j] \notin Again /\ pc'[j] \notin Settled /\ ~Holds(j)'
        /\ pc'[j] \in Reading \cup {"stage"} /\ pc'[j] \notin {"stands", "stood"}
    BY <2>1, <2>3, <2>4 DEF Bound, Reading, Again, Settled, Holds
  <2>6. There(j)' = Source(j).manifest /\ There(j) = Source(j).manifest /\ image'[j] = image[j]
    BY <1>2, <2>1 DEF There, Manifest, Source, job
  <2>7. Noted(j)'
    BY <2>1, <2>2, <2>5 DEF JobInv, Noted
  <2>8. Touched(j)'
    BY <2>1, <2>2, <2>5, <2>6 DEF JobInv, Touched
  <2> QED BY <2>1, <2>4, <2>5, <2>7, <2>8, ReadStep
<1> QED BY <1>1, <1>2 DEF LoadManifest

LEMMA CopyMemberStep ==
    ASSUME Inv, NEW j \in Job, CopyMember(j) PROVE Shared' /\ JobInv(j)'
<1> DEFINE a == at[j]
<1>1. CASE Fail(j) /\ UNCHANGED <<staging, at>>
  BY <1>1, FailStep DEF CopyMember
<1>2. /\ pc[j] = "copy" /\ kind[j] # "backup" /\ JobInv(j) /\ a \in Member
      /\ UNCHANGED <<live, past, package, root, made, faults, job, stamps, image, rows, before>>
  BY DEF CopyMember, Inv, JobTypes, JobInv, Placed, Reading
<1>3. Bound(j) /\ Loaded(j)
  BY <1>2 DEF Bound, Loaded, Reading
<1>4. rows[j] \in LowImage
  BY <1>2, <1>3 DEF JobInv, Noted, Inv, DiskTypes
<1>5. ASSUME pc'[j] \in {"copy", "seal", "stage"} PROVE Noted(j)' /\ Touched(j)'
  <2>1. pc'[j] \notin Again /\ pc'[j] \notin Settled
    BY <1>5 DEF Again, Settled
  <2>2. image'[j] = image[j] /\ rows'[j] = rows[j]
    BY <1>2
  <2> QED BY <1>2, <1>3, <2>1, <2>2, SaysNoMore DEF JobInv
<1>6. CASE /\ kind[j] = "restore"
           /\ Advance(j, "copy", "seal")
           /\ staging' = [staging EXCEPT ![Stage(j)][a] = rows[j][a]]
  <2>1. /\ Stage(j) \in Kinds \X Place \X Id /\ Stage(j)' = Stage(j)
        /\ staging[Stage(j)] \in Partial /\ rows[j][a] \in Low
    BY <1>2, <1>4, <1>6, StageType DEF JobInv, Stage, Held, Holds, job, LowImage
  <2>2. /\ staging' \in [Kinds \X Place \X Id -> Partial \cup {None}]
        /\ staging'[Stage(j)] \in Partial
    BY <1>2, <1>6, <2>1, StagingWrite DEF Inv
  <2>3. /\ pc' \in [Job -> Steps] /\ at' \in [Job -> Member]
        /\ pc'[j] \in {"copy", "seal"}
    BY <1>6, AdvanceFacts DEF Inv, Steps
  <2>4. JobTypes'
    BY <1>2, <2>3 DEF Inv, JobTypes, job
  <2>5. Shared'
    BY <1>2, <2>2, <2>4, SharedStays
  <2>6. Placed(j)' /\ Held(j)' /\ Signed(j)' /\ Cut(j)'
    BY <1>2, <2>1, <2>2, <2>3 DEF JobInv, Placed, Held, Signed, Cut, job
  <2> QED BY <1>5, <2>3, <2>5, <2>6 DEF JobInv
<1>7. CASE kind[j] # "restore" /\ Advance(j, "copy", "stage") /\ UNCHANGED staging
  <2>1. /\ pc' \in [Job -> Steps] /\ at' \in [Job -> Member]
        /\ pc'[j] \in {"copy", "stage"}
    BY <1>7, AdvanceFacts DEF Inv, Steps
  <2>2. JobTypes'
    BY <1>2, <2>1 DEF Inv, JobTypes, job
  <2>3. ~Holds(j)' /\ pc'[j] \in Reading \cup {"stage"} /\ pc'[j] \notin {"stands", "stood"}
    BY <1>2, <1>7, <2>1 DEF Holds, Reading, job
  <2> QED BY <1>2, <1>5, <1>7, <2>1, <2>2, <2>3, ReadStep
<1> QED BY <1>1, <1>6, <1>7 DEF CopyMember

LEMMA InspectAgainStep ==
    ASSUME Inv, NEW j \in Job, InspectAgain(j) PROVE Shared' /\ JobInv(j)'
<1>1. CASE Fail(j)
  BY <1>1, FailStep DEF InspectAgain, UnchangedDisk
<1>2. CASE There(j) = image[j] /\ Go(j, "recheck")
  <2>1. /\ pc[j] = "seal" /\ kind[j] # "backup" /\ JobInv(j) /\ Holds(j)
        /\ UNCHANGED <<live, past, package, root, staging, made, faults, job, stamps, image,
                       rows, before, at>>
    BY DEF InspectAgain, UnchangedDisk, Inv, Holds
  <2>2. pc'[j] = "recheck"
    BY <1>2 DEF Go, Inv, JobTypes
  <2>3. /\ Bound(j) /\ Loaded(j) /\ pc'[j] \notin Settled /\ "recheck" \in Reading
    BY <2>1, <2>2 DEF Bound, Loaded, Reading, Again, Settled
  <2>4. There(j)' = There(j) /\ image'[j] = image[j] /\ rows'[j] = rows[j]
    BY <2>1 DEF There, Manifest, Source, job
  <2>5. Noted(j)'
    BY <2>1, <2>3, <2>4 DEF JobInv, Noted
  <2>6. Touched(j)'
    BY <1>2, <2>1, <2>3, <2>4 DEF JobInv, Touched
  <2> QED BY <1>2, <2>1, <2>3, <2>5, <2>6, GoStep
<1> QED BY <1>1, <1>2 DEF InspectAgain, There

LEMMA VerifyRootStep ==
    ASSUME Inv, NEW j \in Job, VerifyRoot(j) PROVE Shared' /\ JobInv(j)'
<1>1. CASE Fail(j)
  BY <1>1, FailStep DEF VerifyRoot, UnchangedDisk
<1> DEFINE s == IF kind[j] = "restore" THEN "recount" ELSE "reread"
<1>2. CASE /\ There(j) = rows[j] /\ staging[Stage(j)] = Target(kind[j], rows[j])
           /\ Go(j, s)
  <2>1. /\ pc[j] = "reload" /\ kind[j] # "backup" /\ JobInv(j)
        /\ UNCHANGED <<live, past, package, root, staging, made, faults, job, stamps, image,
                       rows, before, at>>
    BY DEF VerifyRoot, UnchangedDisk, Inv, JobInv, Placed, Reading, Again
  <2>2. s \in {"recount", "reread"} /\ s \in Reading /\ pc'[j] = s
    BY <1>2 DEF Go, Inv, JobTypes, Reading, Again, Settled
  <2>3. Bound(j) /\ Loaded(j) /\ pc[j] \in Again /\ Holds(j)
    BY <2>1 DEF Bound, Loaded, Reading, Again, Holds
  <2>4. /\ There(j)' = There(j) /\ image'[j] = image[j] /\ rows'[j] = rows[j]
        /\ Stage(j)' = Stage(j) /\ Target(kind[j], rows[j])' = Target(kind[j], rows[j])
    BY <2>1 DEF There, Manifest, Source, Stage, Target, Migrated, job
  <2>5. Noted(j)'
    BY <1>2, <2>1, <2>3, <2>4 DEF JobInv, Noted
  <2>6. Touched(j)'
    BY <1>2, <2>1, <2>3, <2>4 DEF JobInv, Touched
  <2>7. Go(j, s) /\ s \notin {"stands", "stood"} /\ s # "copy" /\ pc[j] # "new"
    BY <1>2, <2>1, <2>2
  <2> HIDE DEF s
  <2> QED BY <2>1, <2>2, <2>3, <2>5, <2>6, <2>7, GoStep
<1> QED BY <1>1, <1>2 DEF VerifyRoot, There

LEMMA CompareInventoryStep ==
    ASSUME Inv, NEW j \in Job, CompareInventory(j) PROVE Shared' /\ JobInv(j)'
<1>1. CASE Fail(j)
  BY <1>1, FailStep DEF CompareInventory, UnchangedDisk
<1>2. CASE Go(j, "relist")
  <2>1. /\ pc[j] = "recount" /\ kind[j] # "backup" /\ JobInv(j) /\ Holds(j)
        /\ UNCHANGED <<live, past, package, root, staging, made, faults, job, stamps, image,
                       rows, before, at>>
    BY DEF CompareInventory, UnchangedDisk, Inv, JobInv, Placed, Reading, Again, Settled, Holds
  <2>2. /\ Bound(j) /\ Loaded(j) /\ pc[j] \in Again /\ pc[j] \in Settled
        /\ "relist" \in Reading
    BY <2>1 DEF Bound, Loaded, Reading, Again, Settled
  <2>3. image'[j] = image[j] /\ rows'[j] = rows[j]
    BY <2>1
  <2>4. Noted(j)' /\ Touched(j)'
    BY <2>1, <2>2, <2>3, SaysNoMore DEF JobInv
  <2> QED BY <1>2, <2>1, <2>2, <2>4, GoStep
<1> QED BY <1>1, <1>2 DEF CompareInventory

LEMMA PublishRootStep ==
    ASSUME Inv, NEW j \in Job, PublishRoot(j) PROVE Shared' /\ JobInv(j)'
<1> DEFINE p == place[j]
<1>1. CASE Fail(j) /\ UNCHANGED <<root, staging>>
  BY <1>1, FailStep DEF PublishRoot
<1>2. CASE /\ root[p] = None /\ Go(j, "done")
           /\ root' = [root EXCEPT ![p] = [kind |-> kind[j], content |-> staging[Stage(j)],
                                           bound |-> image[j]]]
           /\ staging' = [staging EXCEPT ![Stage(j)] = None]
  <2>1. /\ pc[j] = "rename" /\ kind[j] \in Kinds /\ p \in Place /\ JobInv(j)
        /\ UNCHANGED <<live, past, package, made, faults, job, stamps, image, rows, before, at>>
    BY DEF PublishRoot, Inv, JobInv, Placed
  <2>2. Bound(j) /\ Loaded(j) /\ pc[j] \in Settled
    BY <2>1 DEF Bound, Loaded, Reading, Again, Settled
  <2>3. /\ image[j] \in made /\ rows[j] \in made
        /\ staging[Stage(j)] = Target(kind[j], rows[j])
        /\ rows[j] # image[j] => faults >= 3
    BY <2>1, <2>2 DEF JobInv, Noted, Touched
  <2>4. image[j] \in LowImage /\ staging[Stage(j)] \in Image
    BY <2>1, <2>3, Images DEF Inv, DiskTypes
  <2>5. root' \in [Place -> Root \cup {None}]
    BY <1>2, <2>1, <2>4 DEF Inv, DiskTypes, Root
  <2>6. staging' \in [Kinds \X Place \X Id -> Partial \cup {None}]
    BY <1>2, <2>1, StageType, StagingDropped DEF Inv, JobInv
  <2>7. DiskTypes'
    BY <2>1, <2>5, <2>6 DEF Inv, DiskTypes
  <2>8. JobTypes' /\ pc'[j] = "done"
    BY <1>2, <2>1 DEF Inv, JobTypes, Go, Steps, Over, job
  <2>9. RootMatchesBackup'
    <3>1. faults <= 2 => rows[j] = image[j]
      BY <2>3, StateRecoveryAssumption DEF Inv, DiskTypes
    <3>2. ASSUME NEW q \in Place, root'[q] # None
          PROVE  /\ root'[q].bound \in made
                 /\ \E f \in made : /\ root'[q].content = Target(root'[q].kind, f)
                                    /\ faults <= 2 => root'[q].bound = f
      <4>1. CASE q = p
        <5>1. root'[q] = [kind |-> kind[j], content |-> staging[Stage(j)], bound |-> image[j]]
          BY <1>2, <2>1, <4>1 DEF Inv, DiskTypes
        <5> QED BY <2>3, <3>1, <5>1
      <4>2. CASE q # p
        <5>1. root'[q] = root[q]
          BY <1>2, <2>1, <4>2 DEF Inv, DiskTypes
        <5> QED BY <3>2, <5>1 DEF Inv, RootMatchesBackup
      <4> QED BY <4>1, <4>2
    <3> QED BY <2>1, <3>2 DEF RootMatchesBackup, Target, Migrated
  <2>10. Recorded' /\ BackupIsConsistentCut'
    BY <2>1 DEF Inv, Recorded, Contents, BackupIsConsistentCut
  <2> QED BY <2>1, <2>7, <2>8, <2>9, <2>10, OverInv DEF Shared
<1> QED BY <1>1, <1>2 DEF PublishRoot

-----------------------------------------------------------------------------
(* The whole invariant *)

LEMMA JobStepInv ==
    ASSUME Inv, NEW j \in Job, JobStep(j) PROVE Inv'
<1>1. Shared' /\ JobInv(j)'
  <2>1. CASE Begin(j)
    BY <2>1, BeginStep
  <2>2. CASE Plan(j)
    BY <2>2, SignMemberStep, PlanMemberStep DEF Plan
  <2>3. CASE CheckFree(j) \/ MakeStaging(j)
    BY <2>3, CheckFreeStep, MakeStagingStep
  <2>4. CASE Pack(j)
    BY <2>4, CompareSignatureStep, TakeMemberStep, PublishBackupStep DEF Pack
  <2>5. CASE Unpack(j)
    BY <2>5, InspectStep, CheckMigrationStep, ResolveTargetStep, TakeInventoryStep,
       ListMemberStep, LoadManifestStep, CopyMemberStep, InspectAgainStep, ComparisonSteps,
       VerifyRootStep, CompareInventoryStep, PublishRootStep DEF Unpack, Examine, Verify
  <2>6. CASE Kill(j)
    BY <2>6, FailStep DEF Kill, UnchangedDisk, Over
  <2> QED BY <2>1, <2>2, <2>3, <2>4, <2>5, <2>6 DEF JobStep
<1>2. \A k \in Job : JobInv(k)'
  BY <1>1, OthersKept
<1>3. StagingIsExclusive'
  BY ExclusiveStep
<1> QED BY <1>1, <1>2, <1>3 DEF Inv, Shared

\* A write changes the signature of a member, so it spoils nothing that was planned.
LEMMA WriteLiveStep ==
    ASSUME Inv, NEW m \in Member, NEW v \in Low, WriteLive(m, v) PROVE Inv'
<1>1. /\ live[m].stamp \in 0..MaxWrites /\ live[m].stamp < MaxWrites
      /\ live' = [live EXCEPT ![m] = [value |-> v, stamp |-> live[m].stamp + 1]]
      /\ past' = past \cup {Contents(live')}
      /\ UNCHANGED <<package, root, staging, made, pc, job, stamps, image, rows, before, at,
                     faults>>
  BY DEF WriteLive, Inv, DiskTypes
<1>2. live' \in [Member -> [value : Low, stamp : 0..MaxWrites]]
  <2>1. [value |-> v, stamp |-> live[m].stamp + 1] \in [value : Low, stamp : 0..MaxWrites]
    BY <1>1, StateRecoveryAssumption
  <2> QED BY <1>1, <2>1 DEF Inv, DiskTypes
<1>3. Contents(live') \in LowImage
  BY <1>2 DEF Contents, LowImage
<1>4. DiskTypes' /\ JobTypes'
  BY <1>1, <1>2, <1>3 DEF Inv, DiskTypes, JobTypes, job
<1>5. \A n \in Member : /\ live[n].stamp <= live'[n].stamp
                        /\ live'[n] = live[n] \/ live[n].stamp < live'[n].stamp
  <2>1. \A n \in Member : live[n].stamp \in Nat /\ live'[n].stamp \in Nat
    BY <1>2, StateRecoveryAssumption DEF Inv, DiskTypes
  <2> QED BY <1>1, <2>1 DEF Inv, DiskTypes
<1>6. ASSUME NEW j \in Job PROVE JobInv(j)'
  <2>1. JobInv(j)
    BY DEF Inv
  <2>2. Placed(j)' /\ Held(j)'
    BY <1>1, <2>1 DEF JobInv, Placed, Held, Holds, Stage, job
  <2>6. Noted(j)' /\ Touched(j)'
    BY <1>1, <2>1 DEF JobInv, Noted, Touched, Bound, Loaded, There, Source, Manifest, Stage,
                      Target, Migrated, job
  <2>3. ASSUME NEW n \in Member, stamps[j][n] \in 0..MaxWrites, stamps[j][n] <= live[n].stamp
        PROVE  /\ stamps[j][n] <= live'[n].stamp
               /\ live'[n].stamp = stamps[j][n] => live'[n] = live[n]
    <3>1. live[n].stamp \in Nat /\ live'[n].stamp \in Nat /\ stamps[j][n] \in Nat
      BY <1>2, <2>3, StateRecoveryAssumption DEF Inv, DiskTypes
    <3> QED BY <1>5, <2>3, <3>1
  <2>4. Signed(j)'
    <3>1. SUFFICES ASSUME kind[j] = "backup", NEW n \in Member
                   PROVE  /\ \/ pc[j] = "sign" /\ n < at[j]
                             \/ pc[j] = "read" /\ n <= at[j]
                             \/ pc[j] \in {"free", "stage", "compare", "take"}
                             => stamps[j][n] \in 0..MaxWrites /\ stamps[j][n] <= live'[n].stamp
                          /\ pc[j] \in {"sign", "read"} /\ n < at[j] =>
                                (live'[n].stamp = stamps[j][n] => live'[n].value = image[j][n])
      BY <1>1 DEF Signed, job
    <3>2. n < at[j] => n <= at[j]
      BY StateRecoveryAssumption DEF Inv, JobTypes, Member
    <3> QED BY <2>1, <2>3, <3>1, <3>2 DEF JobInv, Signed
  <2>5. Cut(j)'
    <3>1. CASE kind[j] = "backup" /\ pc[j] \in {"free", "stage", "compare", "take"}
      <4>1. PICK f \in past : \A n \in Member : Agrees(j, f, n)
        BY <2>1, <3>1 DEF JobInv, Cut
      <4>2. \A n \in Member : stamps[j][n] \in 0..MaxWrites /\ stamps[j][n] <= live[n].stamp
        BY <2>1, <3>1 DEF JobInv, Signed
      <4>3. ASSUME NEW n \in Member PROVE Agrees(j, f, n)'
        BY <1>1, <2>3, <4>1, <4>2 DEF Agrees
      <4> QED BY <1>1, <3>1, <4>3 DEF Cut, job
    <3>2. CASE ~(kind[j] = "backup" /\ pc[j] \in {"free", "stage", "compare", "take"})
      BY <1>1, <2>1, <3>2 DEF JobInv, Cut, job
    <3> QED BY <3>1, <3>2
  <2> QED BY <2>2, <2>4, <2>5, <2>6 DEF JobInv
<1>7. Recorded' /\ StagingIsExclusive' /\ BackupIsConsistentCut' /\ RootMatchesBackup'
  BY <1>1 DEF Inv, Recorded, StagingIsExclusive, Holds, Stage, BackupIsConsistentCut,
              RootMatchesBackup, Target, Migrated, job
<1> QED BY <1>4, <1>6, <1>7 DEF Inv

\* An accident spoils files, and no operation takes them for what its manifest names.
LEMMA AccidentStep ==
    ASSUME Inv, NEW p \in Place, Accident(p) PROVE Inv'
<1>1. /\ package[p] # None /\ faults < MaxFaults /\ faults' = faults + 1
      /\ UNCHANGED <<live, past, root, staging, made, pc, job, stamps, image, rows, before, at>>
  BY DEF Accident
<1>2. /\ package' \in [Place -> Package \cup {None}]
      /\ \A q \in Place : package'[q] # None => package'[q].manifest \in made
  <2>1. package[p] \in Package /\ package[p].manifest \in made
    BY <1>1 DEF Inv, DiskTypes, Recorded
  <2>2. ASSUME NEW m \in Member, NEW v \in Value,
               package' = [package EXCEPT ![p].files[m] = v]
        PROVE  /\ package' \in [Place -> Package \cup {None}]
               /\ \A q \in Place : package'[q] # None => package'[q].manifest \in made
    <3>1. [package[p].files EXCEPT ![m] = v] \in Image
      BY <2>1 DEF Package, Image
    <3>2. [package[p] EXCEPT !.files = [package[p].files EXCEPT ![m] = v]] \in Package
      BY <2>1, <3>1 DEF Package
    <3>3. [package[p] EXCEPT !.files = [package[p].files EXCEPT ![m] = v]].manifest
              = package[p].manifest
      BY <2>1 DEF Package
    <3>4. package' = [package EXCEPT ![p] =
                         [package[p] EXCEPT !.files = [package[p].files EXCEPT ![m] = v]]]
      BY <2>2 DEF Inv, DiskTypes
    <3> HIDE <2>2
    <3> QED BY <2>1, <3>2, <3>3, <3>4 DEF Inv, DiskTypes, Recorded
  <2>3. CASE package' = [package EXCEPT ![p] = None]
    BY <2>3 DEF Inv, DiskTypes, Recorded
  <2>4. ASSUME NEW f \in made,
               package' = [package EXCEPT ![p] = [manifest |-> f, files |-> f]]
        PROVE  /\ package' \in [Place -> Package \cup {None}]
               /\ \A q \in Place : package'[q] # None => package'[q].manifest \in made
    <3>1. f \in LowImage /\ f \in Image
      BY Images DEF Inv, DiskTypes
    <3>2. [manifest |-> f, files |-> f] \in Package
      BY <3>1 DEF Package
    <3> QED BY <2>4, <3>2 DEF Inv, DiskTypes, Recorded
  <2> QED BY <2>2, <2>3, <2>4 DEF Accident
<1>3. faults' \in 0..MaxFaults
  BY <1>1, StateRecoveryAssumption DEF Inv, DiskTypes
<1>4. DiskTypes' /\ JobTypes'
  BY <1>1, <1>2, <1>3 DEF Inv, DiskTypes, JobTypes, job
<1>5. ASSUME NEW j \in Job PROVE JobInv(j)'
  <2>1. JobInv(j) /\ faults \in Nat
    BY StateRecoveryAssumption DEF Inv, DiskTypes
  <2>2. Placed(j)' /\ Held(j)' /\ Signed(j)' /\ Cut(j)'
    BY <1>1, <2>1 DEF JobInv, Placed, Held, Holds, Stage, Signed, Cut, Agrees, job
  <2>3. Noted(j)'
    BY <1>1, <2>1 DEF JobInv, Noted, Bound, Loaded, Stage, Target, Migrated, job
  <2>4. Touched(j)'
    <3>1. /\ Bound(j)' = Bound(j) /\ Loaded(j)' = Loaded(j) /\ pc'[j] = pc[j]
          /\ image'[j] = image[j] /\ rows'[j] = rows[j]
      BY <1>1 DEF Bound, Loaded, job
    <3>2. Touched(j)
      BY <2>1 DEF JobInv
    <3>3. Loaded(j) /\ rows[j] # image[j] => faults >= 1 /\ faults' >= 2
      BY <1>1, <2>1, <3>2 DEF Touched
    <3>4. pc[j] \in Again /\ Loaded(j) /\ rows[j] # image[j] => faults >= 2 /\ faults' >= 3
      BY <1>1, <2>1, <3>2 DEF Touched
    <3>5. pc[j] \in Settled /\ Loaded(j) /\ rows[j] # image[j] => faults' >= 3
      BY <1>1, <2>1, <3>2 DEF Touched
    <3>6. faults' >= 1 /\ (faults' >= 2 => faults' >= 1)
      BY <1>1, <2>1
    <3>7. faults' >= 3 => faults' >= 2
      BY <1>1, <2>1
    <3> QED BY <3>1, <3>3, <3>4, <3>5, <3>6, <3>7 DEF Touched
  <2> QED BY <2>2, <2>3, <2>4 DEF JobInv
<1>6. Recorded' /\ StagingIsExclusive' /\ BackupIsConsistentCut'
  BY <1>1, <1>2 DEF Inv, Recorded, Contents, StagingIsExclusive, Holds, Stage,
                    BackupIsConsistentCut, job
<1>7. RootMatchesBackup'
  <2>1. faults' <= 2 => faults <= 2
    BY <1>1, StateRecoveryAssumption DEF Inv, DiskTypes
  <2>2. RootMatchesBackup /\ UNCHANGED <<root, made>>
    BY <1>1 DEF Inv
  <2> QED BY <2>1, <2>2 DEF RootMatchesBackup, Target, Migrated
<1> QED BY <1>4, <1>5, <1>6, <1>7 DEF Inv

LEMMA InvStep == Inv /\ [Next]_vars => Inv'
<1> SUFFICES ASSUME Inv, [Next]_vars PROVE Inv'
  OBVIOUS
<1>1. CASE UNCHANGED vars
  <2>1. DiskTypes' /\ JobTypes' /\ Recorded' /\ StagingIsExclusive' /\ BackupIsConsistentCut'
    BY <1>1 DEF vars, Inv, DiskTypes, JobTypes, Recorded, Contents, StagingIsExclusive, Holds,
                Stage, BackupIsConsistentCut, job
  <2>2. RootMatchesBackup'
    BY <1>1 DEF vars, Inv, RootMatchesBackup, Target, Migrated
  <2>3. ASSUME NEW j \in Job PROVE JobInv(j)'
    <3>1. JobInv(j)
      BY DEF Inv
    <3>2. Noted(j)' /\ Touched(j)'
      BY <1>1, <3>1 DEF vars, JobInv, Noted, Touched, Bound, Loaded, There, Source, Manifest,
                        Stage, Target, Migrated, job
    <3>3. Placed(j)' /\ Held(j)' /\ Signed(j)' /\ Cut(j)'
      BY <1>1, <3>1 DEF vars, JobInv, Placed, Held, Holds, Stage, Signed, Cut, Agrees, job
    <3> QED BY <3>2, <3>3 DEF JobInv
  <2> QED BY <2>1, <2>2, <2>3 DEF Inv
<1>2. CASE \E j \in Job : JobStep(j)
  BY <1>2, JobStepInv
<1>3. CASE \E m \in Member, v \in 0..(Values - 1) : WriteLive(m, v)
  BY <1>3, WriteLiveStep DEF Low
<1>4. CASE \E p \in Place : Accident(p)
  BY <1>4, AccidentStep
<1> QED BY <1>1, <1>2, <1>3, <1>4 DEF Next, JobStep

-----------------------------------------------------------------------------
(* Theorems *)

\* Whatever writers, crashes and accidents do: a published backup is one state of the live
\* members, and a published root is the image of one backup, which its receipt binds unless
\* packages were touched three times; no two operations hold one staging directory.
THEOREM RecoverySafety ==
    Spec => [](TypeOK /\ BackupIsConsistentCut /\ RootMatchesBackup /\ StagingIsExclusive)
<1>1. Inv => TypeOK /\ BackupIsConsistentCut /\ RootMatchesBackup /\ StagingIsExclusive
  BY InvTypeOK DEF Inv
<1> QED BY <1>1, InvInit, InvStep, PTL DEF Spec

\* No operation writes what was published before.
THEOREM PublicationIsFinal == Spec => PublishedStays
<1>1. ASSUME Inv, [Next]_vars
      PROVE  [\A p \in Place : /\ root[p] # None => root'[p] = root[p]
                               /\ package[p] # None /\ faults' = faults =>
                                      package'[p] = package[p]]_vars
  <2>1. ASSUME NEW j \in Job, JobStep(j), NEW p \in Place
        PROVE  /\ root[p] # None => root'[p] = root[p]
               /\ package[p] # None => package'[p] = package[p]
    <3>1. CASE PublishBackup(j)
      BY <1>1, <3>1 DEF PublishBackup, Inv, DiskTypes
    <3>2. CASE PublishRoot(j)
      BY <1>1, <3>2 DEF PublishRoot, Inv, DiskTypes
    <3>3. CASE ~PublishBackup(j) /\ ~PublishRoot(j)
      BY <2>1, <3>3 DEF JobStep, Begin, Plan, SignMember, PlanMember, CheckFree, MakeStaging,
         Pack, CompareSignature, TakeMember, Unpack, Examine, Verify, Inspect, CheckMember,
         CheckMigration, ResolveTarget, TakeInventory, ListMember, LoadManifest, CopyMember,
         InspectAgain, RecheckMember, VerifyRoot, RereadMember, CompareInventory, RelistMember,
         Compare, Kill, UnchangedDisk
    <3> QED BY <3>1, <3>2, <3>3
  <2>2. ASSUME NEW m \in Member, NEW v \in Value, WriteLive(m, v) PROVE UNCHANGED <<root, package>>
    BY <2>2 DEF WriteLive
  <2>3. ASSUME NEW p \in Place, Accident(p) PROVE UNCHANGED root /\ faults' # faults
    <3>1. faults \in Nat
      BY <1>1, StateRecoveryAssumption DEF Inv, DiskTypes
    <3> QED BY <2>3, <3>1 DEF Accident
  <2>4. Low \subseteq Value
    BY Images
  <2> QED BY <1>1, <2>1, <2>2, <2>3, <2>4 DEF Next, JobStep, vars, Low
<1> QED BY <1>1, InvInit, InvStep, PTL DEF Spec, PublishedStays
=============================================================================
