----------------------- MODULE SecurityMasterReleases -----------------------
(***************************************************************************)
(* The Security Master releases of one state root, a directory per release *)
(* id under candidates/, releases/, rejected/ and retired/, and the active *)
(* pointer.  A caller is a process: the `update` and `migrate-legacy`      *)
(* commands (build, qualify, retain, activate), `rollback` (activate), a   *)
(* retirement, or a service that opens the active release.  Each file is   *)
(* written by one atomic replace, and a caller can be killed between any   *)
(* two of its steps.                                                       *)
(* Source: scripts/m8r_08g_security_master_releases.py and main of         *)
(* scripts/manage_security_master.py.                                      *)
(***************************************************************************)
CONSTANTS
    Caller, Release,
    Content,        \* the records and provenance of a source snapshot
    Good,           \* the content that passes validate_release_candidate
    Legacy,         \* the content of a legacy import, which retains no bundle
    BundleOf,       \* the name of the source bundle, a time in whole seconds
    None, Empty

ASSUME ReleasesAssumption ==
    /\ Good \subseteq Content /\ Legacy \subseteq Content
    /\ DOMAIN BundleOf = Content
    /\ None \notin Content /\ Empty \notin Content /\ None # Empty
    /\ None \notin Release

VARIABLES
    candidate,  \* index.json of candidates/<r>; Empty before it is written
    files,      \* what releases/<r> holds; "dir" is the directory itself
    index,      \* the content of its index.json
    bound,      \* the content its manifest.json binds by hash
    rejected, retired,  \* "none", "created" or, with the status file, "described"
    retained,   \* the source bundles kept, by name
    pointer,    \* the active pointer
    pc, op, release, content,   \* of each caller: step, command, release, content
    note,       \* what it read: the source index, the manifest or the pointer
    answer      \* "unavailable": its last command was a service refused by the active release

store == <<candidate, files, index, bound, rejected, retired, retained, pointer>>
local == <<op, release, content>>
vars == <<store, pc, local, note, answer>>

Bundles == {BundleOf[c] : c \in Content}
File == {"dir", "index", "qualification", "manifest", "release"}
Mark == {"none", "created", "described"}
Command == {"update", "rollback", "retire", "serve"}
Pointer == [release : Release, content : Content]
Step == {"idle", "check", "make", "fill", "qualify", "dir", "index", "qualification",
         "manifest", "release", "retain", "promote", "reject", "reject_status",
         "unretired", "open", "load", "point", "bind", "inactive", "retire", "retire_status"}

ASSUME NoneAssumption == None \notin Pointer \cup Command \cup {"unavailable"}

-----------------------------------------------------------------------------
Init ==
    /\ candidate = [r \in Release |-> None]
    /\ files = [r \in Release |-> {}]
    /\ index = [r \in Release |-> None]
    /\ bound = [r \in Release |-> None]
    /\ rejected = [r \in Release |-> "none"]
    /\ retired = [r \in Release |-> "none"]
    /\ retained = [b \in Bundles |-> None]
    /\ pointer = None
    /\ pc = [p \in Caller |-> "idle"]
    /\ op = [p \in Caller |-> None]
    /\ release = [p \in Caller |-> None]
    /\ content = [p \in Caller |-> None]
    /\ note = [p \in Caller |-> None]
    /\ answer = [p \in Caller |-> None]

Move(p, step) == pc' = [pc EXCEPT ![p] = step] /\ UNCHANGED <<local, answer>>
Go(p, step) == Move(p, step) /\ UNCHANGED note

\* A command that ends leaves nothing behind but the files.
End(p, how) ==
    /\ pc' = [pc EXCEPT ![p] = "idle"]
    /\ op' = [op EXCEPT ![p] = None]
    /\ release' = [release EXCEPT ![p] = None]
    /\ content' = [content EXCEPT ![p] = None]
    /\ note' = [note EXCEPT ![p] = None]
    /\ answer' = [answer EXCEPT ![p] = how]
Refuse(p) == End(p, IF op[p] = "serve" THEN "unavailable" ELSE None)
At(p, step) == pc[p] = step
R(p) == release[p]

Begin(p, command, r, c, first, read) ==
    /\ At(p, "idle")
    /\ pc' = [pc EXCEPT ![p] = first]
    /\ op' = [op EXCEPT ![p] = command]
    /\ release' = [release EXCEPT ![p] = r]
    /\ content' = [content EXCEPT ![p] = c]
    /\ note' = [note EXCEPT ![p] = read]
    /\ answer' = [answer EXCEPT ![p] = None]
    /\ UNCHANGED store

\* The id of a release is a time in whole seconds or given by the user: two
\* updates may have the same.
BeginUpdate(p) ==
    \E r \in Release, c \in Content : Begin(p, "update", r, c, "check", None)
BeginRollback(p) ==
    \E r \in Release : Begin(p, "rollback", r, None, "unretired", None)
BeginRetire(p) ==
    \E r \in Release : Begin(p, "retire", r, None, "open", None)

\* load_active_identity_service reads the pointer first; without one it answers
\* NOT_INITIALIZED.
BeginServe(p) ==
    /\ pointer # None
    /\ Begin(p, "serve", pointer.release, None, "open", pointer)

-----------------------------------------------------------------------------
(* build_candidate_release *)

CheckFree(p) ==
    /\ At(p, "check")
    /\ IF candidate[R(p)] = None /\ files[R(p)] = {} THEN Go(p, "make") ELSE Refuse(p)
    /\ UNCHANGED store

MakeCandidate(p) ==
    /\ At(p, "make")
    /\ IF candidate[R(p)] = None
       THEN Go(p, "fill") /\ candidate' = [candidate EXCEPT ![R(p)] = Empty]
       ELSE Refuse(p) /\ UNCHANGED candidate
    /\ UNCHANGED <<files, index, bound, rejected, retired, retained, pointer>>

FillCandidate(p) ==
    /\ At(p, "fill")
    /\ Go(p, "qualify")
    /\ candidate' = [candidate EXCEPT ![R(p)] = content[p]]
    /\ UNCHANGED <<files, index, bound, rejected, retired, retained, pointer>>

-----------------------------------------------------------------------------
(* qualify_candidate_release *)

\* Mutant: the report's status is not looked at.
QualifyAnything(p) == At(p, "qualify") /\ Go(p, "dir") /\ UNCHANGED store

Qualify(p) ==
    /\ At(p, "qualify")
    /\ Go(p, IF candidate[R(p)] \in Good THEN "dir" ELSE "reject")
    /\ UNCHANGED store

\* The candidate's index is read again, then the directory is made; it must be new.
MakeRelease(p) ==
    /\ At(p, "dir")
    /\ IF files[R(p)] = {}
       THEN /\ Move(p, "index")
            /\ files' = [files EXCEPT ![R(p)] = {"dir"}]
            /\ note' = [note EXCEPT ![p] = candidate[R(p)]]
       ELSE Refuse(p) /\ UNCHANGED files
    /\ UNCHANGED <<candidate, index, bound, rejected, retired, retained, pointer>>

\* The file each step writes, and the step after it: release.json comes last.
After == [index |-> "qualification", qualification |-> "manifest",
          manifest |-> "release", release |-> "retain"]

WriteRelease(p) ==
    /\ pc[p] \in DOMAIN After
    /\ Go(p, After[pc[p]])
    /\ files' = [files EXCEPT ![R(p)] = @ \cup {pc[p]}]
    /\ index' = IF At(p, "index") THEN [index EXCEPT ![R(p)] = note[p]] ELSE index
    /\ bound' = IF At(p, "manifest") THEN [bound EXCEPT ![R(p)] = index[R(p)]] ELSE bound
    /\ UNCHANGED <<candidate, rejected, retired, retained, pointer>>

MakeRejected(p) ==
    /\ At(p, "reject")
    /\ IF rejected[R(p)] = "none"
       THEN Go(p, "reject_status") /\ rejected' = [rejected EXCEPT ![R(p)] = "created"]
       ELSE Refuse(p) /\ UNCHANGED rejected
    /\ UNCHANGED <<candidate, files, index, bound, retired, retained, pointer>>

DescribeRejected(p) ==
    /\ At(p, "reject_status")
    /\ Refuse(p)
    /\ rejected' = [rejected EXCEPT ![R(p)] = "described"]
    /\ UNCHANGED <<candidate, files, index, bound, retired, retained, pointer>>

-----------------------------------------------------------------------------
(* _retain_or_verify_bundle *)

Retain(p) ==
    /\ At(p, "retain")
    /\ LET kept == retained[BundleOf[content[p]]] IN
       \/ (content[p] \in Legacy \/ kept = content[p]) /\ Go(p, "unretired")
       \/ content[p] \notin Legacy /\ kept = None /\ Go(p, "promote")
       \/ content[p] \notin Legacy /\ kept \notin {None, content[p]} /\ Refuse(p)
    /\ UNCHANGED store

\* Mutant: the rename replaces what is there.
PromoteOver(p) ==
    /\ At(p, "promote")
    /\ Go(p, "unretired")
    /\ retained' = [retained EXCEPT ![BundleOf[content[p]]] = content[p]]
    /\ UNCHANGED <<candidate, files, index, bound, rejected, retired, pointer>>

\* The verified copy is renamed to its name, which fails over a bundle.
PromoteBundle(p) ==
    /\ At(p, "promote")
    /\ LET b == BundleOf[content[p]] IN
       IF retained[b] = None
       THEN Go(p, "unretired") /\ retained' = [retained EXCEPT ![b] = content[p]]
       ELSE Refuse(p) /\ UNCHANGED retained
    /\ UNCHANGED <<candidate, files, index, bound, rejected, retired, pointer>>

-----------------------------------------------------------------------------
(* load_qualified_release and activate_qualified_release *)

\* release.json names the manifest by hash, the manifest the index and the bundle.
Loads(r) ==
    /\ files[r] = File
    /\ bound[r] = index[r]
    /\ index[r] \in Legacy \/ retained[BundleOf[index[r]]] = index[r]

CheckUnretired(p) ==
    /\ At(p, "unretired")
    /\ IF retired[R(p)] = "described" THEN Refuse(p) ELSE Go(p, "open")
    /\ UNCHANGED store

OpenRelease(p) ==
    /\ At(p, "open")
    /\ IF "release" \in files[R(p)] THEN Go(p, "load") ELSE Refuse(p)
    /\ UNCHANGED store

Loaded == [retire |-> "inactive", serve |-> "bind", update |-> "point", rollback |-> "point"]

\* Mutant: a release is activated once its release.json is found.
LoadUnverified(p) ==
    /\ At(p, "load")
    /\ Move(p, Loaded[op[p]])
    /\ note' = [note EXCEPT ![p] = IF op[p] = "serve" THEN @ ELSE bound[R(p)]]
    /\ UNCHANGED store

LoadRelease(p) ==
    /\ At(p, "load")
    /\ IF Loads(R(p)) THEN Move(p, Loaded[op[p]]) /\ note' = [note EXCEPT ![p] = IF op[p] = "serve" THEN @ ELSE bound[R(p)]]
                      ELSE Refuse(p)
    /\ UNCHANGED store

SwitchPointer(p) ==
    /\ At(p, "point")
    /\ End(p, None)
    /\ pointer' = [release |-> R(p), content |-> note[p]]
    /\ UNCHANGED <<candidate, files, index, bound, rejected, retired, retained>>

\* The service compares the pointer it read with the release it loaded.
BindActive(p) ==
    /\ At(p, "bind")
    /\ IF note[p].content = bound[R(p)] THEN End(p, None) ELSE Refuse(p)
    /\ UNCHANGED store

-----------------------------------------------------------------------------
(* retire_qualified_release *)

CheckInactive(p) ==
    /\ At(p, "inactive")
    /\ IF pointer # None /\ pointer.release = R(p) THEN Refuse(p) ELSE Go(p, "retire")
    /\ UNCHANGED store

MakeRetired(p) ==
    /\ At(p, "retire")
    /\ IF retired[R(p)] = "none"
       THEN Go(p, "retire_status") /\ retired' = [retired EXCEPT ![R(p)] = "created"]
       ELSE Refuse(p) /\ UNCHANGED retired
    /\ UNCHANGED <<candidate, files, index, bound, rejected, retained, pointer>>

DescribeRetired(p) ==
    /\ At(p, "retire_status")
    /\ End(p, None)
    /\ retired' = [retired EXCEPT ![R(p)] = "described"]
    /\ UNCHANGED <<candidate, files, index, bound, rejected, retained, pointer>>

Kill(p) ==
    /\ pc[p] # "idle"
    /\ End(p, None)
    /\ UNCHANGED store

Build(p) == CheckFree(p) \/ MakeCandidate(p) \/ FillCandidate(p)
QualifySteps(p) == Qualify(p) \/ MakeRelease(p) \/ WriteRelease(p) \/ MakeRejected(p) \/ DescribeRejected(p)
RetainSteps(p) == Retain(p) \/ PromoteBundle(p)
Activate(p) == CheckUnretired(p) \/ OpenRelease(p) \/ LoadRelease(p) \/ SwitchPointer(p) \/ BindActive(p)
Retire(p) == CheckInactive(p) \/ MakeRetired(p) \/ DescribeRetired(p)

Next ==
    \E p \in Caller :
        \/ BeginUpdate(p) \/ BeginRollback(p) \/ BeginRetire(p) \/ BeginServe(p)
        \/ Build(p) \/ QualifySteps(p) \/ RetainSteps(p) \/ Activate(p) \/ Retire(p)
        \/ Kill(p)

Spec == Init /\ [][Next]_vars

-----------------------------------------------------------------------------
(* Properties *)

Sealed(r) == "release" \in files[r]

\* Every directory, the pointer and every caller stay in their ranges.
TypeOK ==
    /\ candidate \in [Release -> Content \cup {None, Empty}]
    /\ files \in [Release -> SUBSET File]
    /\ index \in [Release -> Content \cup {None}]
    /\ bound \in [Release -> Content \cup {None}]
    /\ rejected \in [Release -> Mark] /\ retired \in [Release -> Mark]
    /\ retained \in [Bundles -> Content \cup {None}]
    /\ pointer \in Pointer \cup {None}
    /\ pc \in [Caller -> Step]
    /\ op \in [Caller -> Command \cup {None}]
    /\ release \in [Caller -> Release \cup {None}]
    /\ content \in [Caller -> Content \cup {None}]
    /\ note \in [Caller -> Content \cup Pointer \cup {None}]
    /\ answer \in [Caller -> {"unavailable", None}]

\* Whatever was killed, and where: the release the pointer names is complete, holds
\* what the pointer binds, and still finds its retained source bundle.
ActiveReleaseLoads ==
    pointer # None => Loads(pointer.release) /\ pointer.content = bound[pointer.release]

\* Only content that passed the qualification is ever published in releases/.
OnlyQualifiedIsPublished == \A r \in Release : Sealed(r) => index[r] \in Good

\* A service that found a pointer is never refused, though updates, rollbacks and
\* retirements go on between its reads of the files.
ServiceIsNeverRefused == \A p \in Caller : answer[p] # "unavailable"

\* Readers that follow release.json see an immutable release, and a retained bundle
\* is never replaced by another source of the same second.
PublishedIsImmutable ==
    [][/\ \A r \in Release : Sealed(r) =>
              files'[r] = files[r] /\ index'[r] = index[r] /\ bound'[r] = bound[r]
       /\ \A b \in Bundles : retained[b] # None => retained'[b] = retained[b]]_vars

\* The releases implement a register of published releases with one active.
Register == INSTANCE ReleaseRegister WITH
    published <- [r \in Release |-> IF Sealed(r) THEN index[r] ELSE None],
    active <- pointer
ImplementsRegister == Register!Spec
=============================================================================
