---------------------------- MODULE ResultPackages ----------------------------
(***************************************************************************)
(* The derived outputs of one finalized control package: a result, an      *)
(* audit and a Markdown file of one output version, built on the first     *)
(* request and verified on every later one.  Builders are requests of any  *)
(* process that serves the control root; nothing locks the package.        *)
(* Source: server/services/unified_mode_c.py (build_mode_c_result_package) *)
(* and scripts/m8r_05c/containment.py (materialize_outputs).               *)
(*                                                                         *)
(* The content of an output is told by its version and by the projector    *)
(* that made it: everything else is rebuilt from verified predecessors.    *)
(***************************************************************************)
EXTENDS Naturals, FiniteSets

CONSTANTS
    Builder,            \* requests for the outputs of the package
    Version, Wanted,    \* the output versions, and those that are asked for
    Projector, Current, \* the projector versions, and the one of this code
    MaxActivations,     \* bound: Security Master releases activated meanwhile
    None

ASSUME ResultPackagesAssumption ==
    /\ Wanted \subseteq Version /\ Wanted # {} /\ Current \in Projector
    /\ None \notin Version \cup Projector /\ MaxActivations \in Nat

\* The parts in the order of their promotion.
Part == <<"result", "audit", "markdown">>
Parts == {"result", "audit", "markdown"}

VARIABLES
    file,       \* the outputs on disk, by version and part: the projector they are of
    f3,         \* the validation artifact is on disk
    matches,    \* the active release reproduces the validation the plan is bound to
    activations,
    pc,
    want,       \* the version a builder is at
    using,      \* the projector it projects with
    part,       \* the output it promotes next
    late,       \* it began after some builder had answered
    answers     \* what was answered: version and projector

disk == <<file, f3, matches, activations>>
vars == <<disk, pc, want, using, part, late, answers>>

Over == {"idle", "answered", "failed", "broken", "killed"}
Present(v) == {p \in Parts : file[v][p] # None}
Complete == {v \in Version : Present(v) = Parts}
Partial == {v \in Version : Present(v) \notin {{}, Parts}}

Outputs(v, p) == [u \in Version |-> [q \in Parts |-> IF u = v THEN p ELSE None]]

\* A package that was just finalized, or one whose outputs an earlier code has made.
Init ==
    /\ \/ file = [v \in Version |-> [p \in Parts |-> None]] /\ f3 = FALSE
       \/ f3 = TRUE /\ \E v \in Version, p \in Projector : file = Outputs(v, p)
    /\ matches \in BOOLEAN
    /\ activations = 0
    /\ pc = [b \in Builder |-> "idle"]
    /\ want = [b \in Builder |-> None]
    /\ using = [b \in Builder |-> None]
    /\ part = [b \in Builder |-> 1]
    /\ late = [b \in Builder |-> FALSE]
    /\ answers = {}

Go(b, step) == pc' = [pc EXCEPT ![b] = step]
Answer(b) == Go(b, "answered") /\ answers' = answers \cup {<<want[b], using[b]>>}

Begin(b) ==
    /\ pc[b] = "idle"
    /\ Go(b, "look")
    /\ want' \in {[want EXCEPT ![b] = v] : v \in Wanted}
    /\ late' = [late EXCEPT ![b] = answers # {}]
    /\ UNCHANGED <<disk, using, part, answers>>

\* Mutant: outputs of another version are not looked for.
LookForWanted(b) ==
    /\ pc[b] = "look"
    /\ Go(b, IF Present(want[b]) = Parts /\ f3 THEN "project" ELSE "f3")
    /\ UNCHANGED <<disk, want, using, part, late, answers>>

\* Mutant: what is persisted is validated again before it is shown.
LookAndRevalidate(b) ==
    /\ pc[b] = "look"
    /\ IF Partial # {} \/ Cardinality(Complete) > 1
       THEN Go(b, "failed") /\ UNCHANGED want
       ELSE Go(b, "f3") /\ want' \in {[want EXCEPT ![b] = v] :
                                            v \in IF Complete = {} THEN {want[b]} ELSE Complete}
    /\ UNCHANGED <<disk, using, part, late, answers>>

\* _persisted_output_version: an incomplete set, or two sets, stop every builder.
Look(b) ==
    /\ pc[b] = "look"
    /\ IF Partial # {} \/ Cardinality(Complete) > 1
       THEN Go(b, "failed") /\ UNCHANGED want
       ELSE IF Complete = {}
            THEN Go(b, "f3") /\ UNCHANGED want
            ELSE /\ Go(b, IF f3 THEN "project" ELSE "failed")
                 /\ want' \in {[want EXCEPT ![b] = v] : v \in Complete}
    /\ UNCHANGED <<disk, using, part, late, answers>>

\* _f3: the request is validated again, under the release that is active now.
RebuildF3(b) ==
    /\ pc[b] = "f3"
    /\ Go(b, IF ~matches THEN "failed" ELSE IF f3 THEN "project" ELSE "write f3")
    /\ UNCHANGED <<disk, want, using, part, late, answers>>

WriteF3(b) ==
    /\ pc[b] = "write f3"
    /\ Go(b, IF f3 THEN "failed" ELSE "project")
    /\ f3' = TRUE
    /\ UNCHANGED <<file, matches, activations, want, using, part, late, answers>>

\* The outputs are projected by the projector that an audit on disk names.
Project(b) ==
    /\ pc[b] = "project"
    /\ Go(b, "read")
    /\ using' = [using EXCEPT ![b] = IF file[want[b]]["audit"] = None THEN Current
                                     ELSE file[want[b]]["audit"]]
    /\ UNCHANGED <<disk, want, part, late, answers>>

\* _read_verified_outputs, and the disk admission of what is to be written.
ReadOutputs(b) ==
    /\ pc[b] = "read"
    /\ IF Present(want[b]) = {}
       THEN /\ Go(b, "free") \/ Go(b, "failed")
            /\ UNCHANGED answers
       ELSE IF \A p \in Parts : file[want[b]][p] = using[b]
            THEN Answer(b)
            ELSE Go(b, "failed") /\ UNCHANGED answers
    /\ UNCHANGED <<disk, want, using, part, late>>

\* materialize_outputs: no output exists; all three are staged and checked.
CheckCollision(b) ==
    /\ pc[b] = "free"
    /\ Go(b, IF Present(want[b]) = {} THEN "promote" ELSE "failed")
    /\ UNCHANGED <<disk, want, using, part, late, answers>>

\* Mutant: a builder that loses takes back what it promoted.
CheckOrTakeBack(b) ==
    /\ pc[b] = "promote"
    /\ IF file[want[b]][Part[part[b]]] = None
       THEN Go(b, "rename") /\ UNCHANGED file
       ELSE /\ Go(b, "failed")
            /\ file' = [file EXCEPT ![want[b]] =
                           [p \in Parts |-> IF \E i \in 1..(part[b] - 1) : Part[i] = p
                                            THEN None ELSE @[p]]]
    /\ UNCHANGED <<f3, matches, activations, want, using, part, late, answers>>

CheckAbsent(b) ==
    /\ pc[b] = "promote"
    /\ Go(b, IF file[want[b]][Part[part[b]]] = None THEN "rename" ELSE "failed")
    /\ UNCHANGED <<disk, want, using, part, late, answers>>

\* A rename replaces what another builder has put there since the check.
Rename(b) ==
    /\ pc[b] = "rename"
    /\ file' = [file EXCEPT ![want[b]][Part[part[b]]] = using[b]]
    /\ IF part[b] = 3
       THEN Answer(b) /\ UNCHANGED part
       ELSE Go(b, "promote") /\ part' = [part EXCEPT ![b] = @ + 1] /\ UNCHANGED answers
    /\ UNCHANGED <<f3, matches, activations, want, using, late>>

\* Staging or a rename fails: staged files are removed, promoted ones stay.
IoError(b) ==
    /\ pc[b] \in {"write f3", "promote", "rename"}
    /\ Go(b, "broken")
    /\ UNCHANGED <<disk, want, using, part, late, answers>>

Kill(b) ==
    /\ pc[b] \notin Over
    /\ Go(b, "killed")
    /\ UNCHANGED <<disk, want, using, part, late, answers>>

\* Another Security Master release becomes active.
Activate ==
    /\ activations < MaxActivations
    /\ activations' = activations + 1
    /\ matches' \in BOOLEAN
    /\ UNCHANGED <<file, f3, pc, want, using, part, late, answers>>

Build(b) == Look(b) \/ RebuildF3(b) \/ WriteF3(b) \/ Project(b) \/ ReadOutputs(b)
            \/ CheckCollision(b) \/ CheckAbsent(b) \/ Rename(b)

Next == \/ \E b \in Builder : Begin(b) \/ Build(b) \/ IoError(b) \/ Kill(b)
        \/ Activate

Spec == Init /\ [][Next]_vars

\* A request that is being handled is handled to its end, unless its process dies.
FairSpec == Spec /\ \A b \in Builder : WF_vars(Build(b))

-----------------------------------------------------------------------------
(* Properties *)

TypeOK ==
    /\ file \in [Version -> [Parts -> Projector \cup {None}]]
    /\ f3 \in BOOLEAN /\ matches \in BOOLEAN /\ activations \in 0..MaxActivations
    /\ pc \in [Builder -> Over \cup {"look", "f3", "write f3", "project", "read", "free",
                                     "promote", "rename"}]
    /\ want \in [Builder -> Version \cup {None}]
    /\ using \in [Builder -> Projector \cup {None}]
    /\ part \in [Builder -> 1..3]
    /\ late \in [Builder -> BOOLEAN]
    /\ answers \subseteq Version \X Projector

\* An answer tells what the package holds: its whole set is on disk, and no file of any
\* other version, so a result that was cited can always be shown again.
AnswerIsOnDisk ==
    \A a \in answers : /\ \A p \in Parts : file[a[1]][p] = a[2]
                       /\ \A v \in Version \ {a[1]} : Present(v) = {}

\* Once the outputs were answered, a request that begins later does not fail, whichever
\* release is active by then and whatever was killed meanwhile.
AnswersLast == \A b \in Builder : late[b] => pc[b] # "failed"

\* A set that was begun is in the hands of a builder whose next output is still missing,
\* or somebody was killed or could not write: those who lose a race lose it to one who
\* goes on (containment.py:182-195).
Completes(b, v) ==
    /\ pc[b] \in {"promote", "rename"} /\ want[b] = v
    /\ file[v][Part[part[b]]] = None
BegunIsPursued ==
    \A v \in Partial : \E b \in Builder : pc[b] \in {"killed", "broken"} \/ Completes(b, v)

\* Builders that race for the same outputs do not all lose: unless one is killed or an
\* output cannot be written, a set that was begun is completed.
RacesComplete ==
    Partial # {} ~> Partial = {} \/ \E b \in Builder : pc[b] \in {"killed", "broken"}
=============================================================================
