---------------------------- MODULE StateRecovery ----------------------------
(***************************************************************************)
(* Backup packages of the live state and what is made of them: restored,   *)
(* migrated and rolled-back roots.  Every operation checks its source,     *)
(* fills a staging directory of its own, verifies it and publishes it by   *)
(* one rename.  Nothing locks the live state or a package: writers go on,  *)
(* and a package may be damaged, replaced or removed between two reads.    *)
(* Source: server/services/unified_backup.py (plan_backup, create_backup), *)
(* unified_restore.py (restore_backup) and unified_migration.py            *)
(* (apply_migration, rollback_migration).                                  *)
(*                                                                         *)
(* A file's signature (device, inode, size, mtime) is a stamp that every   *)
(* write changes.                                                          *)
(***************************************************************************)
EXTENDS Naturals, FiniteSets

CONSTANTS
    Members,        \* the number of members, in the order of their paths
    Sqlite,         \* the members read through SQLite
    Values,         \* the number of values a member can have
    Affected,       \* the member a migration rewrites
    Job, Id, Place, \* operations, the ids they are given, names in the target directory
    Kinds,          \* the operations of this instance
    MaxWrites, MaxFaults,   \* bounds: live writes, accidents to packages
    None

Member == 1..Members
Value == 0..(2 * Values - 1)    \* the upper half is the migrated form
Image == [Member -> Value]
Partial == [Member -> Value \cup {None}]

ASSUME StateRecoveryAssumption ==
    /\ Members \in Nat \ {0} /\ Values \in Nat \ {0} /\ Sqlite \subseteq Member
    /\ Affected \in Member /\ MaxWrites \in Nat /\ MaxFaults \in Nat
    /\ Kinds \subseteq {"backup", "restore", "migrate", "rollback"}
    /\ None \notin Partial

VARIABLES
    live,       \* of each member: value and stamp
    past,       \* every state the live members were in together
    package,    \* the published backups: manifest and member files
    root,       \* the published roots: content, origin, and the manifest the receipt binds
    staging,    \* the staging directories, by their names: operation, place, id
    made,       \* the images that backups were published with
    pc, kind, place, id, from,  \* of each operation: step, kind, target, id, source package
    stamps,     \* the planned signatures
    image,      \* the planned values, or the manifest of the source that was verified
    rows,       \* the manifest that the copy goes by
    before,     \* the first inventory of the source package
    at,         \* the member it has come to
    faults

job == <<kind, place, id, from>>
vars == <<live, past, package, root, staging, made, pc, job, stamps, image, rows, before, at, faults>>

Migrated(f) == [f EXCEPT ![Affected] = @ + Values]
Contents(l) == [m \in Member |-> l[m].value]
Target(k, f) == IF k = "migrate" THEN Migrated(f) ELSE f
Blank == [m \in Member |-> None]

-----------------------------------------------------------------------------
Init ==
    /\ live = [m \in Member |-> [value |-> 0, stamp |-> 0]]
    /\ past = {Contents(live)}
    /\ package = [p \in Place |-> None]
    /\ root = [p \in Place |-> None]
    /\ staging = [s \in Kinds \X Place \X Id |-> None]
    /\ made = {}
    /\ pc = [j \in Job |-> "new"]
    /\ kind = [j \in Job |-> None]
    /\ place = [j \in Job |-> None]
    /\ id = [j \in Job |-> None]
    /\ from = [j \in Job |-> None]
    /\ stamps = [j \in Job |-> Blank]
    /\ image = [j \in Job |-> Blank]
    /\ rows = [j \in Job |-> Blank]
    /\ before = [j \in Job |-> [manifest |-> None, files |-> Blank]]
    /\ at = [j \in Job |-> 1]
    /\ faults = 0

Go(j, step) == pc' = [pc EXCEPT ![j] = step]
Fail(j) == Go(j, "failed")
Stage(j) == <<kind[j], place[j], id[j]>>
Source(j) == package[from[j]]
UnchangedDisk == UNCHANGED <<live, past, package, root, staging, made, faults>>

Begin(j) ==
    /\ pc[j] = "new"
    /\ \E k \in Kinds, p \in Place, i \in Id, f \in Place :
           /\ k = "backup" => f = p
           /\ Go(j, IF k = "backup" THEN "sign" ELSE "inspect")
           /\ kind' = [kind EXCEPT ![j] = k]
           /\ place' = [place EXCEPT ![j] = p]
           /\ id' = [id EXCEPT ![j] = i]
           /\ from' = [from EXCEPT ![j] = f]
    /\ UnchangedDisk /\ UNCHANGED <<stamps, image, rows, before, at>>

Advance(j, again, then) ==
    IF at[j] < Members
    THEN Go(j, again) /\ at' = [at EXCEPT ![j] = @ + 1]
    ELSE Go(j, then) /\ at' = [at EXCEPT ![j] = 1]

-----------------------------------------------------------------------------
(* plan_backup, create_backup *)

SignMember(j) ==
    /\ pc[j] = "sign"
    /\ Go(j, "read")
    /\ stamps' = [stamps EXCEPT ![j][at[j]] = live[at[j]].stamp]
    /\ UnchangedDisk /\ UNCHANGED <<job, image, rows, before, at>>

\* A file is hashed between two signatures; a database is not signed again.
PlanMember(j) ==
    /\ pc[j] = "read"
    /\ IF at[j] \in Sqlite \/ live[at[j]].stamp = stamps[j][at[j]]
       THEN /\ Advance(j, "sign", "free")
            /\ image' = [image EXCEPT ![j][at[j]] = live[at[j]].value]
       ELSE Fail(j) /\ UNCHANGED <<image, at>>
    /\ UnchangedDisk /\ UNCHANGED <<job, stamps, rows, before>>

Published(j) == IF kind[j] = "backup" THEN package[place[j]] # None ELSE root[place[j]] # None

\* The destination must not exist, and the staging directory is made exclusively.
CheckFree(j) ==
    /\ pc[j] = "free"
    /\ IF Published(j) THEN Fail(j) ELSE Go(j, "stage")
    /\ UnchangedDisk /\ UNCHANGED <<job, stamps, image, rows, before, at>>

Filled(j) == IF kind[j] \in {"migrate", "rollback"} THEN Target(kind[j], rows[j]) ELSE Blank
Staging(j) == CASE kind[j] = "backup" -> "compare" [] kind[j] = "restore" -> "copy"
                [] OTHER -> "seal"

MakeStaging(j) ==
    /\ pc[j] = "stage"
    /\ IF staging[Stage(j)] = None
       THEN /\ Go(j, Staging(j))
            /\ staging' = [staging EXCEPT ![Stage(j)] = Filled(j)]
       ELSE Fail(j) /\ UNCHANGED staging
    /\ UNCHANGED <<live, past, package, root, made, faults, job, stamps, image, rows, before, at>>

\* Mutant: what is copied is not compared with the plan.
TakeUnplanned(j) ==
    /\ pc[j] = "take"
    /\ Advance(j, "compare", "seal")
    /\ staging' = [staging EXCEPT ![Stage(j)][at[j]] = live[at[j]].value]
    /\ image' = [image EXCEPT ![j][at[j]] = live[at[j]].value]
    /\ UNCHANGED <<live, past, package, root, made, faults, job, stamps, rows, before>>

CompareSignature(j) ==
    /\ pc[j] = "compare"
    /\ IF live[at[j]].stamp = stamps[j][at[j]] THEN Go(j, "take") ELSE Fail(j)
    /\ UnchangedDisk /\ UNCHANGED <<job, stamps, image, rows, before, at>>

\* The copy must be the planned content, of a source that still has its signature.
TakeMember(j) ==
    /\ pc[j] = "take"
    /\ IF live[at[j]].value = image[j][at[j]] /\ live[at[j]].stamp = stamps[j][at[j]]
       THEN /\ Advance(j, "compare", "seal")
            /\ staging' = [staging EXCEPT ![Stage(j)][at[j]] = live[at[j]].value]
       ELSE Fail(j) /\ UNCHANGED <<staging, at>>
    /\ UNCHANGED <<live, past, package, root, made, faults, job, stamps, image, rows, before>>

\* The manifest is written, the staged package verified and renamed.
PublishBackup(j) ==
    /\ pc[j] = "seal" /\ kind[j] = "backup"
    /\ IF staging[Stage(j)] = image[j] /\ package[place[j]] = None
       THEN /\ Go(j, "done")
            /\ package' = [package EXCEPT ![place[j]] =
                               [manifest |-> image[j], files |-> staging[Stage(j)]]]
            /\ staging' = [staging EXCEPT ![Stage(j)] = None]
            /\ made' = made \cup {image[j]}
       ELSE Fail(j) /\ UNCHANGED <<package, staging, made>>
    /\ UNCHANGED <<live, past, root, faults, job, stamps, image, rows, before, at>>

-----------------------------------------------------------------------------
(* restore_backup, apply_migration, rollback_migration: every read of a    *)
(* package is a step.  Left out are checks repeated between these steps    *)
(* that note nothing, and so only refuse more.                             *)

Manifest(p) == IF p = None THEN None ELSE p.manifest
File(p, m) == IF p = None THEN None ELSE p.files[m]

\* One member after another is compared.
Compare(j, f, step, then) ==
    /\ pc[j] = step
    /\ IF File(Source(j), at[j]) = f[at[j]]
       THEN Advance(j, step, then)
       ELSE Fail(j) /\ UNCHANGED at
    /\ UnchangedDisk /\ UNCHANGED <<job, stamps, image, rows, before>>

\* The package is verified, and the hash of the manifest that was read is noted.
Inspect(j) ==
    /\ pc[j] = "inspect"
    /\ IF Source(j) # None
       THEN /\ Go(j, "check")
            /\ image' = [image EXCEPT ![j] = Source(j).manifest]
       ELSE Fail(j) /\ UNCHANGED image
    /\ UnchangedDisk /\ UNCHANGED <<job, stamps, rows, before, at>>

Checked(j) == CASE kind[j] = "restore" -> "target" [] kind[j] = "migrate" -> "load"
                [] OTHER -> "stands"
CheckMember(j) == Compare(j, image[j], "check", Checked(j))

\* A rollback is of a migration of the noted package, whose manifest is loaded for it.
MigrationStands(j) == \E p \in Place :
    /\ root[p] # None /\ root[p].kind = "migrate" /\ root[p].bound = image[j]
    /\ Source(j) # None /\ root[p].content = Migrated(Source(j).manifest)

CheckMigration(j) ==
    /\ pc[j] \in {"stands", "stood"}
    /\ IF MigrationStands(j)
       THEN Go(j, IF pc[j] = "stands" THEN "inventory" ELSE "reload")
       ELSE Fail(j)
    /\ UnchangedDisk /\ UNCHANGED <<job, stamps, image, rows, before, at>>

\* Mutant: a target that exists is cleared.
ResolveTargetOver(j) ==
    /\ pc[j] = "target"
    /\ Go(j, IF kind[j] = "restore" THEN "inventory" ELSE "copy")
    /\ root' = [root EXCEPT ![place[j]] = None]
    /\ UNCHANGED <<live, past, package, staging, made, faults, job, stamps, image, rows, before, at>>

ResolveTarget(j) ==
    /\ pc[j] = "target"
    /\ IF Published(j) THEN Fail(j)
       ELSE Go(j, IF kind[j] = "restore" THEN "inventory" ELSE "copy")
    /\ UnchangedDisk /\ UNCHANGED <<job, stamps, image, rows, before, at>>

\* Every file of the package is hashed, the manifest among them.
TakeInventory(j) ==
    /\ pc[j] = "inventory"
    /\ Go(j, "list")
    /\ before' = [before EXCEPT ![j].manifest = Manifest(Source(j))]
    /\ UnchangedDisk /\ UNCHANGED <<job, stamps, image, rows, at>>

ListMember(j) ==
    /\ pc[j] = "list"
    /\ Advance(j, "list", IF kind[j] = "migrate" THEN "target" ELSE "load")
    /\ before' = [before EXCEPT ![j].files[at[j]] = File(Source(j), at[j])]
    /\ UnchangedDisk /\ UNCHANGED <<job, stamps, image, rows>>

\* The manifest that the copy goes by is read again, and not compared with the noted hash.
LoadManifest(j) ==
    /\ pc[j] = "load"
    /\ IF Source(j) # None
       THEN /\ Go(j, CASE kind[j] = "restore" -> "stage" [] kind[j] = "migrate" -> "inventory"
                       [] OTHER -> "target")
            /\ rows' = [rows EXCEPT ![j] = Source(j).manifest]
       ELSE Fail(j) /\ UNCHANGED rows
    /\ UnchangedDisk /\ UNCHANGED <<job, stamps, image, before, at>>

\* Each member is read and hashed against its row; a restore writes it to the staging.
CopyMember(j) ==
    /\ pc[j] = "copy"
    /\ IF File(Source(j), at[j]) = rows[j][at[j]]
       THEN IF kind[j] = "restore"
            THEN /\ Advance(j, "copy", "seal")
                 /\ staging' = [staging EXCEPT ![Stage(j)][at[j]] = rows[j][at[j]]]
            ELSE Advance(j, "copy", "stage") /\ UNCHANGED staging
       ELSE Fail(j) /\ UNCHANGED <<staging, at>>
    /\ UNCHANGED <<live, past, package, root, made, faults, job, stamps, image, rows, before>>

Inspected(j) == IF kind[j] = "rollback" THEN "stood" ELSE "reload"

\* Mutant: what was staged is not verified.
TrustStaging(j) ==
    /\ pc[j] = "seal" /\ kind[j] # "backup"
    /\ Go(j, "rename")
    /\ UnchangedDisk /\ UNCHANGED <<job, stamps, image, rows, before, at>>

\* verify_restored_state, verify_migrated_state, verify_rollback: the package is verified
\* again, and its manifest must be the noted one;
InspectAgain(j) ==
    /\ pc[j] = "seal" /\ kind[j] # "backup"
    /\ IF Manifest(Source(j)) = image[j] THEN Go(j, "recheck") ELSE Fail(j)
    /\ UnchangedDisk /\ UNCHANGED <<job, stamps, image, rows, before, at>>

RecheckMember(j) == Compare(j, image[j], "recheck", Inspected(j))

\* the manifest is read once more, and the staged members are compared with that one;
VerifyRoot(j) ==
    /\ pc[j] = "reload"
    /\ IF Manifest(Source(j)) = rows[j] /\ staging[Stage(j)] = Target(kind[j], rows[j])
       THEN Go(j, IF kind[j] = "restore" THEN "recount" ELSE "reread")
       ELSE Fail(j)
    /\ UnchangedDisk /\ UNCHANGED <<job, stamps, image, rows, before, at>>

\* a migration and a rollback read the members of the package again.
RereadMember(j) == Compare(j, rows[j], "reread", "recount")

CompareInventory(j) ==
    /\ pc[j] = "recount"
    /\ IF Manifest(Source(j)) = before[j].manifest THEN Go(j, "relist") ELSE Fail(j)
    /\ UnchangedDisk /\ UNCHANGED <<job, stamps, image, rows, before, at>>

RelistMember(j) == Compare(j, before[j].files, "relist", "rename")

\* A rename over a directory that is not empty fails.
PublishRoot(j) ==
    /\ pc[j] = "rename"
    /\ IF root[place[j]] = None
       THEN /\ Go(j, "done")
            /\ root' = [root EXCEPT ![place[j]] =
                   [kind |-> kind[j], content |-> staging[Stage(j)], bound |-> image[j]]]
            /\ staging' = [staging EXCEPT ![Stage(j)] = None]
       ELSE Fail(j) /\ UNCHANGED <<root, staging>>
    /\ UNCHANGED <<live, past, package, made, faults, job, stamps, image, rows, before, at>>

-----------------------------------------------------------------------------
Over == {"new", "failed", "done"}

\* A failed or killed operation leaves its staging directory.
Kill(j) ==
    /\ pc[j] \notin Over
    /\ Fail(j)
    /\ UnchangedDisk /\ UNCHANGED <<job, stamps, image, rows, before, at>>

\* A writer of the live state: a service or an execution.
WriteLive(m, v) ==
    /\ live[m].stamp < MaxWrites
    /\ live' = [live EXCEPT ![m] = [value |-> v, stamp |-> @.stamp + 1]]
    /\ past' = past \cup {Contents(live')}
    /\ UNCHANGED <<package, root, staging, made, pc, job, stamps, image, rows, before, at, faults>>

\* A member of a package rots, or a package is removed or replaced by a copy of one.
Accident(p) ==
    /\ faults < MaxFaults /\ package[p] # None
    /\ faults' = faults + 1
    /\ \/ \E m \in Member, v \in Value : package' = [package EXCEPT ![p].files[m] = v]
       \/ package' = [package EXCEPT ![p] = None]
       \/ \E f \in made :
              package' = [package EXCEPT ![p] = [manifest |-> f, files |-> f]]
    /\ UNCHANGED <<live, past, root, staging, made, pc, job, stamps, image, rows, before, at>>

Plan(j) == SignMember(j) \/ PlanMember(j)
Pack(j) == CompareSignature(j) \/ TakeMember(j) \/ PublishBackup(j)
Examine(j) == Inspect(j) \/ CheckMember(j) \/ CheckMigration(j) \/ ResolveTarget(j)
              \/ TakeInventory(j) \/ ListMember(j) \/ LoadManifest(j)
Verify(j) == InspectAgain(j) \/ RecheckMember(j) \/ VerifyRoot(j) \/ RereadMember(j)
             \/ CompareInventory(j) \/ RelistMember(j)
Unpack(j) == Examine(j) \/ CopyMember(j) \/ Verify(j) \/ PublishRoot(j)

Next ==
    \/ \E j \in Job : Begin(j) \/ Plan(j) \/ CheckFree(j) \/ MakeStaging(j)
                      \/ Pack(j) \/ Unpack(j) \/ Kill(j)
    \/ \E m \in Member, v \in 0..(Values - 1) : WriteLive(m, v)
    \/ \E p \in Place : Accident(p)

Spec == Init /\ [][Next]_vars

-----------------------------------------------------------------------------
(* Properties *)

TypeOK ==
    /\ live \in [Member -> [value : Value, stamp : 0..MaxWrites]]
    /\ past \subseteq Image /\ made \subseteq Image
    /\ package \in [Place -> [manifest : Image, files : Image] \cup {None}]
    /\ root \in [Place -> [kind : Kinds, content : Image, bound : Image] \cup {None}]
    /\ staging \in [Kinds \X Place \X Id -> Partial \cup {None}]
    /\ pc \in [Job -> Over \cup {"sign", "read", "free", "stage", "compare", "take", "seal",
                  "inspect", "check", "stands", "target", "inventory", "list", "load", "copy",
                  "recheck", "stood", "reload", "reread", "recount", "relist", "rename"}]
    /\ kind \in [Job -> Kinds \cup {None}]
    /\ place \in [Job -> Place \cup {None}] /\ from \in [Job -> Place \cup {None}]
    /\ id \in [Job -> Id \cup {None}]
    /\ stamps \in [Job -> [Member -> (0..MaxWrites) \cup {None}]]
    /\ image \in [Job -> Partial] /\ rows \in [Job -> Partial]
    /\ before \in [Job -> [manifest : Image \cup {None}, files : Partial]]
    /\ at \in [Job -> Member]
    /\ faults \in 0..MaxFaults

\* A backup is a state the live members were in at one instant, although they are read
\* one after another beside their writers.
BackupIsConsistentCut == made \subseteq past

\* A root holds exactly the image of one backup, a migrated one its migrated form, however
\* often its package is damaged, removed or replaced between the reads of it.  The receipt
\* binds that image while packages were touched at most twice: exchanged, put back and
\* exchanged again at the right moments, a package passes with the hash of another one.
RootMatchesBackup ==
    \A p \in Place : root[p] # None =>
        /\ root[p].bound \in made
        /\ \E f \in made : /\ root[p].content = Target(root[p].kind, f)
                           /\ faults <= 2 => root[p].bound = f

\* No two running operations hold one staging directory.
Holds(j) == \/ pc[j] \in {"compare", "take", "seal", "recheck", "stood", "reload", "reread", "recount",
                      "relist", "rename"}
            \/ pc[j] = "copy" /\ kind[j] = "restore"
StagingIsExclusive ==
    \A j, k \in Job : j # k /\ Holds(j) /\ Holds(k) => Stage(j) # Stage(k)

\* What was published once is never written again by an operation.
PublishedStays ==
    [][\A p \in Place : /\ root[p] # None => root'[p] = root[p]
                        /\ package[p] # None /\ faults' = faults => package'[p] = package[p]]_vars
=============================================================================
