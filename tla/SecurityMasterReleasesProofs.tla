-------------------- MODULE SecurityMasterReleasesProofs --------------------
(***************************************************************************)
(* Proofs about SecurityMasterReleases for every set of callers, releases  *)
(* and contents, and of the refinement of ReleaseRegister.                 *)
(***************************************************************************)
EXTENDS SecurityMasterReleases, TLAPS

Writing == {"index", "qualification", "manifest", "release"}
Building == {"fill", "qualify", "dir"} \cup Writing

\* What a release directory holds when a file is about to be written into it.
Before == [index |-> {"dir"}, qualification |-> {"dir", "index"},
           manifest |-> {"dir", "index", "qualification"},
           release |-> {"dir", "index", "qualification", "manifest"}]

\* The command a caller is in, step by step, and its arguments.
Commanded(p) ==
    /\ pc[p] # "idle" => release[p] \in Release /\ op[p] \in Command
    /\ pc[p] \in Building \cup {"check", "make", "retain", "promote", "reject", "reject_status"} =>
           op[p] = "update"
    /\ pc[p] \in {"unretired", "point"} => op[p] \in {"update", "rollback"}
    /\ pc[p] = "bind" => op[p] = "serve"
    /\ pc[p] \in {"inactive", "retire", "retire_status"} => op[p] = "retire"
    /\ op[p] = "update" => content[p] \in Content

\* A builder's candidate is its own, and its release has the files it wrote.
Built(p) ==
    /\ pc[p] \in Building => candidate[release[p]] # None
    /\ pc[p] \in {"qualify", "dir"} \cup Writing => candidate[release[p]] = content[p]
    /\ pc[p] \in {"dir"} \cup Writing => content[p] \in Good
    /\ pc[p] = "index" => note[p] = content[p]
    /\ pc[p] \in Writing => files[release[p]] = Before[pc[p]]
    /\ pc[p] \in Writing \ {"index"} => index[release[p]] = content[p]
    /\ pc[p] = "release" => bound[release[p]] = content[p]

\* What a caller has loaded, and what a service has read in the pointer, stands.
Stands(p) ==
    /\ pc[p] = "point" => Loads(release[p]) /\ note[p] = bound[release[p]]
    /\ op[p] = "serve" /\ pc[p] # "idle" =>
           /\ note[p] \in Pointer /\ note[p].release = release[p]
           /\ Loads(release[p]) /\ note[p].content = bound[release[p]]

CallerInv(p) == Commanded(p) /\ Built(p) /\ Stands(p)

\* One caller builds a release.
OneBuilder ==
    \A p, q \in Caller : p # q /\ pc[p] \in Building /\ pc[q] \in Building =>
        release[p] # release[q]

\* A release that has its release.json is whole.
Whole == \A r \in Release : Sealed(r) => /\ files[r] = File /\ bound[r] = index[r]
                                         /\ index[r] \in Good

Inv == /\ TypeOK
       /\ \A p \in Caller : CallerInv(p)
       /\ OneBuilder /\ Whole /\ ActiveReleaseLoads /\ ServiceIsNeverRefused

-----------------------------------------------------------------------------

LEMMA Names ==
    /\ DOMAIN After = Writing
    /\ After["index"] = "qualification" /\ After["qualification"] = "manifest"
    /\ After["manifest"] = "release" /\ After["release"] = "retain"
    /\ Before["index"] = {"dir"} /\ Before["qualification"] = {"dir", "index"}
    /\ Before["manifest"] = {"dir", "index", "qualification"}
    /\ Before["release"] = {"dir", "index", "qualification", "manifest"}
    /\ Loaded["retire"] = "inactive" /\ Loaded["serve"] = "bind"
    /\ Loaded["update"] = "point" /\ Loaded["rollback"] = "point"
BY DEF After, Writing, Before, Loaded

\* Nothing is built and nobody is at work at the beginning.
LEMMA InvInit == Init => Inv
<1> SUFFICES ASSUME Init PROVE Inv
  OBVIOUS
<1>1. TypeOK
  BY DEF Init, TypeOK, Step, Mark
<1>2. ASSUME NEW p \in Caller PROVE CallerInv(p)
  BY NoneAssumption DEF Init, CallerInv, Commanded, Built, Stands, Building, Writing, Command
<1>3. OneBuilder /\ ServiceIsNeverRefused
  BY NoneAssumption DEF Init, OneBuilder, Building, Writing, ServiceIsNeverRefused
<1>4. Whole /\ ActiveReleaseLoads
  BY DEF Init, Whole, Sealed, ActiveReleaseLoads
<1> QED BY <1>1, <1>2, <1>3, <1>4 DEF Inv

\* The commands a step of a caller belongs to.
CallerStep(p) ==
    \/ BeginUpdate(p) \/ BeginRollback(p) \/ BeginRetire(p) \/ BeginServe(p)
    \/ Build(p) \/ QualifySteps(p) \/ RetainSteps(p) \/ Activate(p) \/ Retire(p)
    \/ Kill(p)

\* A caller changes its own variables only.
LEMMA OthersStay ==
    ASSUME TypeOK, NEW p \in Caller, CallerStep(p), NEW q \in Caller, q # p
    PROVE  /\ pc'[q] = pc[q] /\ op'[q] = op[q] /\ release'[q] = release[q]
           /\ content'[q] = content[q] /\ note'[q] = note[q] /\ answer'[q] = answer[q]
<1>2. CASE BeginUpdate(p) \/ BeginRollback(p) \/ BeginRetire(p) \/ BeginServe(p)
  BY <1>2 DEF BeginUpdate, BeginRollback, BeginRetire, BeginServe, Begin, TypeOK
<1>3. CASE \E how : End(p, how)
  BY <1>3 DEF End, TypeOK
<1>4. CASE \E s : Go(p, s)
  BY <1>4 DEF Go, Move, local, TypeOK
<1>5. CASE \E s, n : Move(p, s) /\ note' = [note EXCEPT ![p] = n]
  BY <1>5 DEF Move, local, TypeOK
<1>6. (\E how : End(p, how)) \/ (\E s : Go(p, s))
      \/ (\E s, n : Move(p, s) /\ note' = [note EXCEPT ![p] = n])
      \/ BeginUpdate(p) \/ BeginRollback(p) \/ BeginRetire(p) \/ BeginServe(p)
  BY DEF CallerStep, Build, CheckFree, MakeCandidate, FillCandidate, QualifySteps, Qualify,
     MakeRelease, WriteRelease, MakeRejected, DescribeRejected, RetainSteps, Retain, PromoteBundle,
     Activate, CheckUnretired, OpenRelease, LoadRelease, SwitchPointer, BindActive, Retire,
     CheckInactive, MakeRetired, DescribeRetired, Kill, Refuse
<1> QED BY <1>2, <1>3, <1>4, <1>5, <1>6

-----------------------------------------------------------------------------
(* What a step leaves alone *)

\* A candidate is touched by who makes or fills it, a release by who builds it, and a
\* retained bundle by nobody.
LEMMA StoreStays ==
    ASSUME TypeOK, NEW p \in Caller, CallerInv(p), CallerStep(p)
    PROVE  /\ \A r \in Release :
                  \/ candidate'[r] = candidate[r]
                  \/ r = release[p] /\ (pc[p] = "fill" \/ (pc[p] = "make" /\ candidate[r] = None))
           /\ \A r \in Release :
                  \/ files'[r] = files[r] /\ index'[r] = index[r] /\ bound'[r] = bound[r]
                  \/ r = release[p] /\ pc[p] \in {"dir"} \cup Writing
                     /\ (pc[p] = "dir" => files[r] = {})
           /\ \A b \in Bundles : retained[b] # None => retained'[b] = retained[b]
<1>1. CASE MakeCandidate(p) \/ FillCandidate(p)
  BY <1>1 DEF MakeCandidate, FillCandidate, TypeOK, R, At
<1>2. CASE MakeRelease(p)
  BY <1>2 DEF MakeRelease, TypeOK, R, At
<1>3. CASE WriteRelease(p)
  BY <1>3, Names DEF WriteRelease, TypeOK, R, At, Writing
<1>4. CASE PromoteBundle(p)
  BY <1>4 DEF PromoteBundle, TypeOK, Bundles
<1>5. ASSUME \/ BeginUpdate(p) \/ BeginRollback(p) \/ BeginRetire(p) \/ BeginServe(p)
             \/ CheckFree(p) \/ Qualify(p) \/ MakeRejected(p) \/ DescribeRejected(p) \/ Retain(p)
             \/ Activate(p) \/ Retire(p) \/ Kill(p)
      PROVE  UNCHANGED <<candidate, files, index, bound, retained>>
  BY <1>5 DEF BeginUpdate, BeginRollback, BeginRetire, BeginServe, Begin, CheckFree, Qualify,
     MakeRejected, DescribeRejected, Retain, Activate, CheckUnretired, OpenRelease, LoadRelease,
     SwitchPointer, BindActive, Retire, CheckInactive, MakeRetired, DescribeRetired, Kill, store
<1> QED
  BY <1>1, <1>2, <1>3, <1>4, <1>5 DEF CallerStep, Build, QualifySteps, RetainSteps

\* A release that has its release.json never changes.
LEMMA SealedStays ==
    ASSUME Inv, NEW p \in Caller, CallerStep(p), NEW r \in Release, Sealed(r)
    PROVE  files'[r] = files[r] /\ index'[r] = index[r] /\ bound'[r] = bound[r]
<1>1. TypeOK /\ CallerInv(p)
  BY DEF Inv
<1>2. \A s \in Writing : "release" \notin Before[s]
  BY Names DEF Writing
<1> QED BY <1>1, <1>2, StoreStays DEF CallerInv, Built, Sealed

\* A release that loads goes on loading.
LEMMA LoadsStays ==
    ASSUME Inv, NEW p \in Caller, CallerStep(p), NEW r \in Release, Loads(r)
    PROVE  Loads(r)' /\ bound'[r] = bound[r]
<1>1. Sealed(r)
  BY DEF Loads, Sealed, File
<1>2. index[r] \in Content
  BY <1>1, ReleasesAssumption DEF Inv, Whole
<1>3. BundleOf[index[r]] \in Bundles /\ index[r] # None
  BY <1>2, ReleasesAssumption DEF Bundles
<1>4. files'[r] = files[r] /\ index'[r] = index[r] /\ bound'[r] = bound[r]
  BY <1>1, SealedStays
<1>5. index[r] \in Legacy \/ retained'[BundleOf[index[r]]] = index[r]
  BY <1>3, StoreStays DEF Inv, Loads
<1> QED BY <1>4, <1>5 DEF Loads

\* A step leaves what was said about another caller.
LEMMA OthersKept ==
    ASSUME Inv, NEW p \in Caller, CallerStep(p), NEW q \in Caller, q # p
    PROVE  CallerInv(q)'
<1>1. TypeOK /\ CallerInv(p) /\ CallerInv(q) /\ OneBuilder
  BY DEF Inv
<1>2. /\ pc'[q] = pc[q] /\ op'[q] = op[q] /\ release'[q] = release[q]
      /\ content'[q] = content[q] /\ note'[q] = note[q]
  BY <1>1, OthersStay
<1>3. Commanded(q)'
  BY <1>1, <1>2 DEF CallerInv, Commanded
<1>4. pc[q] \in Building => release[q] \in Release /\ candidate[release[q]] # None
  BY <1>1 DEF CallerInv, Commanded, Built, Building, Writing
<1>5. pc[q] \in Building => candidate'[release[q]] = candidate[release[q]]
  BY <1>1, <1>4, StoreStays DEF OneBuilder, Building
<1>6. pc[q] \in Writing => /\ files'[release[q]] = files[release[q]]
                           /\ index'[release[q]] = index[release[q]]
                           /\ bound'[release[q]] = bound[release[q]]
  <2>1. pc[q] \in Writing => pc[q] \in Building
    BY DEF Building
  <2>2. {"dir"} \cup Writing \subseteq Building
    BY DEF Building
  <2> QED BY <1>1, <1>4, <2>1, <2>2, StoreStays DEF OneBuilder
<1>7. Built(q)'
  BY <1>1, <1>2, <1>5, <1>6 DEF CallerInv, Built, Building, Writing
<1>8. pc[q] \notin {"idle"} => release[q] \in Release
  BY <1>1 DEF CallerInv, Commanded
<1>9. Stands(q)'
  BY <1>1, <1>2, <1>8, LoadsStays DEF CallerInv, Stands
<1> QED BY <1>3, <1>7, <1>9 DEF CallerInv

\* The maker of a candidate finds none, so it is the only builder.
LEMMA OneBuilderStep ==
    ASSUME Inv, NEW p \in Caller, CallerStep(p)
    PROVE  OneBuilder'
<1>1. TypeOK /\ OneBuilder /\ \A q \in Caller : CallerInv(q)
  BY DEF Inv
<1>2. pc'[p] \in Building => release'[p] = release[p]
                             /\ (pc[p] \in Building
                                 \/ (pc[p] = "make" /\ candidate[release[p]] = None))
  BY <1>1, Names DEF TypeOK, CallerStep, BeginUpdate, BeginRollback, BeginRetire, BeginServe, Begin,
     Build, CheckFree, MakeCandidate, FillCandidate, QualifySteps, Qualify,
     MakeRelease, WriteRelease, MakeRejected, DescribeRejected, RetainSteps, Retain, PromoteBundle,
     Activate, CheckUnretired, OpenRelease, LoadRelease, SwitchPointer, BindActive, Retire,
     CheckInactive, MakeRetired, DescribeRetired, Kill, Refuse, End, Go, Move, At, R, local,
     Building, Writing, CallerInv, Commanded, Command
<1>3. ASSUME NEW q \in Caller, q # p, pc'[p] \in Building, pc'[q] \in Building
      PROVE  release'[p] # release'[q]
  <2>1. pc[q] \in Building /\ release'[q] = release[q] /\ candidate[release[q]] # None
    BY <1>1, <1>3, OthersStay DEF CallerInv, Built
  <2> QED BY <1>1, <1>2, <1>3, <2>1 DEF OneBuilder
<1>4. ASSUME NEW q \in Caller, NEW s \in Caller, q # p, s # p, q # s,
             pc'[q] \in Building, pc'[s] \in Building
      PROVE  release'[q] # release'[s]
  BY <1>1, <1>4, OthersStay DEF OneBuilder
<1> QED BY <1>3, <1>4 DEF OneBuilder

-----------------------------------------------------------------------------
(* The caller that takes the step *)

LocalTypes ==
    /\ pc \in [Caller -> Step]
    /\ op \in [Caller -> Command \cup {None}]
    /\ release \in [Caller -> Release \cup {None}]
    /\ content \in [Caller -> Content \cup {None}]
    /\ note \in [Caller -> Content \cup Pointer \cup {None}]
    /\ answer \in [Caller -> {"unavailable", None}]

\* A command ends, refused or not; a service is not refused.
LEMMA EndStep ==
    ASSUME Inv, NEW p \in Caller, End(p, None)
    PROVE  LocalTypes' /\ CallerInv(p)' /\ ServiceIsNeverRefused'
<1>1. LocalTypes' /\ pc'[p] = "idle" /\ op'[p] = None
  BY DEF Inv, TypeOK, LocalTypes, End, Step
<1>2. ServiceIsNeverRefused'
  BY NoneAssumption DEF Inv, TypeOK, End, ServiceIsNeverRefused
<1>3. CallerInv(p)'
  BY <1>1, NoneAssumption
     DEF CallerInv, Commanded, Built, Stands, Building, Writing, Command
<1> QED BY <1>1, <1>2, <1>3

LEMMA RefuseStep ==
    ASSUME Inv, NEW p \in Caller, op[p] # "serve", Refuse(p)
    PROVE  LocalTypes' /\ CallerInv(p)' /\ ServiceIsNeverRefused'
BY EndStep DEF Refuse

\* A caller goes on, and may note something.
LEMMA MoveStep ==
    ASSUME Inv, NEW p \in Caller, NEW s \in Step, Move(p, s),
           NEW n \in Content \cup Pointer \cup {None},
           UNCHANGED note \/ note' = [note EXCEPT ![p] = n]
    PROVE  /\ LocalTypes' /\ ServiceIsNeverRefused'
           /\ pc'[p] = s /\ op'[p] = op[p] /\ release'[p] = release[p] /\ content'[p] = content[p]
           /\ note'[p] \in {note[p], n}
           /\ ~(UNCHANGED note) => note'[p] = n
BY DEF Inv, TypeOK, LocalTypes, Move, local, ServiceIsNeverRefused

LEMMA GoStep ==
    ASSUME Inv, NEW p \in Caller, NEW s \in Step, Go(p, s)
    PROVE  /\ LocalTypes' /\ ServiceIsNeverRefused'
           /\ pc'[p] = s /\ op'[p] = op[p] /\ release'[p] = release[p] /\ content'[p] = content[p]
           /\ note'[p] = note[p]
BY DEF Inv, TypeOK, LocalTypes, Go, Move, local, ServiceIsNeverRefused

\* A command begins.
LEMMA BeginStep ==
    ASSUME Inv, NEW p \in Caller,
           BeginUpdate(p) \/ BeginRollback(p) \/ BeginRetire(p) \/ BeginServe(p)
    PROVE  LocalTypes' /\ CallerInv(p)' /\ ServiceIsNeverRefused' /\ UNCHANGED store
<1>1. PICK command \in Command, r \in Release, c \in Content \cup {None},
           n \in Pointer \cup {None}, first \in {"check", "unretired", "open"} :
          /\ Begin(p, command, r, c, first, n)
          /\ command = "update" => c \in Content
          /\ first = "check" => command = "update"
          /\ first = "unretired" => command = "rollback"
          /\ command = "serve" => n \in Pointer /\ n = pointer /\ r = n.release /\ first = "open"
  <2>1. CASE BeginUpdate(p)
    <3>1. PICK r \in Release, c \in Content : Begin(p, "update", r, c, "check", None)
      BY <2>1 DEF BeginUpdate
    <3> QED BY <3>1 DEF Command
  <2>2. CASE BeginRollback(p)
    <3>1. PICK r \in Release : Begin(p, "rollback", r, None, "unretired", None)
      BY <2>2 DEF BeginRollback
    <3> QED BY <3>1 DEF Command
  <2>3. CASE BeginRetire(p)
    <3>1. PICK r \in Release : Begin(p, "retire", r, None, "open", None)
      BY <2>3 DEF BeginRetire
    <3> QED BY <3>1 DEF Command
  <2>4. CASE BeginServe(p)
    <3>1. pointer \in Pointer /\ pointer.release \in Release
          /\ Begin(p, "serve", pointer.release, None, "open", pointer)
      BY <2>4 DEF BeginServe, Inv, TypeOK, Pointer
    <3> QED BY <3>1 DEF Command
  <2> QED BY <2>1, <2>2, <2>3, <2>4
<1>2. /\ pc'[p] = first /\ op'[p] = command /\ release'[p] = r /\ content'[p] = c
      /\ note'[p] = n /\ UNCHANGED store
  BY <1>1 DEF Begin, Inv, TypeOK
<1>3. LocalTypes' /\ ServiceIsNeverRefused'
  BY <1>1, NoneAssumption DEF Begin, Inv, TypeOK, LocalTypes, ServiceIsNeverRefused, Step
<1>4. Commanded(p)' /\ Built(p)'
  BY <1>1, <1>2 DEF Commanded, Built, Building, Writing, Command
<1>5. Stands(p)'
  BY <1>1, <1>2, NoneAssumption DEF Stands, Inv, ActiveReleaseLoads, Loads, store
<1> QED BY <1>2, <1>3, <1>4, <1>5 DEF CallerInv

\* The steps that write nothing.
LEMMA ReadingStep ==
    ASSUME Inv, NEW p \in Caller,
           \/ CheckFree(p) \/ Qualify(p) \/ Retain(p) \/ CheckUnretired(p) \/ OpenRelease(p)
           \/ LoadRelease(p) \/ BindActive(p) \/ CheckInactive(p) \/ Kill(p)
    PROVE  LocalTypes' /\ CallerInv(p)' /\ ServiceIsNeverRefused' /\ UNCHANGED store
<1>1. CallerInv(p) /\ p \in Caller /\ UNCHANGED store
  BY DEF Inv, CheckFree, Qualify, Retain, CheckUnretired, OpenRelease, LoadRelease,
         BindActive, CheckInactive, Kill
<1>2. \A r \in Release : Loads(r)' = Loads(r)
  BY <1>1 DEF Loads, store
<1>3. CASE CheckFree(p)
  <2>1. CASE Refuse(p)
    BY <1>1, <1>3, <2>1, RefuseStep DEF CheckFree, At, CallerInv, Commanded
  <2>2. CASE Go(p, "make")
    <3>1. pc'[p] = "make" /\ op'[p] = op[p] /\ release'[p] = release[p] /\ content'[p] = content[p]
          /\ LocalTypes' /\ ServiceIsNeverRefused'
      BY <2>2, GoStep DEF Step
    <3> QED BY <1>1, <1>3, <3>1 DEF CheckFree, At, CallerInv, Commanded, Built, Stands, Building,
                                    Writing
  <2> QED BY <1>3, <2>1, <2>2 DEF CheckFree
<1>4. CASE Qualify(p)
  <2>1. PICK s \in {"dir", "reject"} : Go(p, s) /\ (s = "dir" => candidate[release[p]] \in Good)
    BY <1>4 DEF Qualify, R
  <2>2. pc'[p] = s /\ op'[p] = op[p] /\ release'[p] = release[p] /\ content'[p] = content[p]
        /\ LocalTypes' /\ ServiceIsNeverRefused'
    BY <2>1, GoStep DEF Step
  <2> QED BY <1>1, <1>4, <2>1, <2>2 DEF Qualify, At, CallerInv, Commanded, Built, Stands, Building,
                                        Writing, store
<1>5. CASE Retain(p)
  <2>1. CASE Refuse(p)
    BY <1>1, <1>5, <2>1, RefuseStep DEF Retain, At, CallerInv, Commanded
  <2>2. ASSUME NEW s \in {"unretired", "promote"}, Go(p, s)
        PROVE  LocalTypes' /\ CallerInv(p)' /\ ServiceIsNeverRefused'
    <3>1. pc'[p] = s /\ op'[p] = op[p] /\ release'[p] = release[p] /\ content'[p] = content[p]
          /\ LocalTypes' /\ ServiceIsNeverRefused'
      BY <2>2, GoStep DEF Step
    <3> QED BY <1>1, <1>5, <2>2, <3>1 DEF Retain, At, CallerInv, Commanded, Built, Stands, Building,
                                          Writing
  <2> QED BY <1>1, <1>5, <2>1, <2>2 DEF Retain
<1>6. CASE CheckUnretired(p)
  <2>1. CASE Refuse(p)
    BY <1>1, <1>6, <2>1, RefuseStep DEF CheckUnretired, At, CallerInv, Commanded
  <2>2. CASE Go(p, "open")
    <3>1. pc'[p] = "open" /\ op'[p] = op[p] /\ release'[p] = release[p] /\ content'[p] = content[p]
          /\ LocalTypes' /\ ServiceIsNeverRefused'
      BY <2>2, GoStep DEF Step
    <3> QED BY <1>1, <1>6, <3>1 DEF CheckUnretired, At, CallerInv, Commanded, Built, Stands,
                                    Building, Writing
  <2> QED BY <1>6, <2>1, <2>2 DEF CheckUnretired
<1>7. CASE OpenRelease(p)
  <2>1. CASE Refuse(p) /\ "release" \notin files[release[p]]
    <3>1. op[p] # "serve"
      BY <1>1, <1>7, <2>1 DEF OpenRelease, At, CallerInv, Stands, Loads, File
    <3> QED BY <1>1, <2>1, <3>1, RefuseStep
  <2>2. CASE Go(p, "load")
    <3>1. pc'[p] = "load" /\ op'[p] = op[p] /\ release'[p] = release[p] /\ content'[p] = content[p]
          /\ note'[p] = note[p] /\ LocalTypes' /\ ServiceIsNeverRefused'
      BY <2>2, GoStep DEF Step
    <3> QED BY <1>1, <1>2, <1>7, <3>1 DEF OpenRelease, At, CallerInv, Commanded, Built, Stands,
                                          Building, Writing, store
  <2> QED BY <1>7, <2>1, <2>2 DEF OpenRelease, R
<1>8. CASE LoadRelease(p)
  <2>1. CASE Refuse(p) /\ ~Loads(release[p])
    <3>1. op[p] # "serve"
      BY <1>1, <1>8, <2>1 DEF LoadRelease, At, CallerInv, Stands
    <3> QED BY <1>1, <2>1, <3>1, RefuseStep
  <2>2. CASE /\ Loads(release[p]) /\ Move(p, Loaded[op[p]])
             /\ note' = [note EXCEPT ![p] = IF op[p] = "serve" THEN note[p] ELSE bound[release[p]]]
    <3> DEFINE n == IF op[p] = "serve" THEN note[p] ELSE bound[release[p]]
    <3>1. pc[p] = "load" /\ release[p] \in Release /\ op[p] \in Command
      BY <1>1, <1>8 DEF LoadRelease, At, CallerInv, Commanded
    <3>2. n \in Content \cup Pointer \cup {None} /\ Loaded[op[p]] \in Step
      BY <3>1, Names DEF Inv, TypeOK, Command, Step
    <3>3. pc'[p] = Loaded[op[p]] /\ op'[p] = op[p] /\ release'[p] = release[p]
          /\ content'[p] = content[p] /\ LocalTypes' /\ ServiceIsNeverRefused'
      <4>1. Move(p, Loaded[op[p]]) /\ note' = [note EXCEPT ![p] = n]
        BY <2>2
      <4> HIDE DEF n
      <4> QED BY <3>2, <4>1, MoveStep
    <3>4. note'[p] = n
      BY <2>2 DEF Inv, TypeOK
    <3>5. Commanded(p)'
      BY <1>1, <3>1, <3>3, Names DEF CallerInv, Commanded, Command, Building, Writing
    <3>6. Built(p)'
      BY <3>1, <3>3, Names DEF Built, Command, Building, Writing
    <3>7. Stands(p)'
      BY <1>1, <1>2, <2>2, <3>1, <3>3, <3>4, Names DEF CallerInv, Stands, Command, store
    <3> QED BY <1>1, <3>3, <3>5, <3>6, <3>7 DEF CallerInv
  <2> QED BY <1>8, <2>1, <2>2 DEF LoadRelease, R
<1>9. CASE BindActive(p)
  <2>1. note[p].content = bound[release[p]]
    BY <1>1, <1>9 DEF BindActive, At, CallerInv, Commanded, Stands
  <2> QED BY <1>1, <1>9, <2>1, EndStep DEF BindActive, R
<1>10. CASE CheckInactive(p)
  <2>1. CASE Refuse(p)
    BY <1>1, <1>10, <2>1, RefuseStep DEF CheckInactive, At, CallerInv, Commanded
  <2>2. CASE Go(p, "retire")
    <3>1. pc'[p] = "retire" /\ op'[p] = op[p] /\ release'[p] = release[p]
          /\ content'[p] = content[p] /\ LocalTypes' /\ ServiceIsNeverRefused'
      BY <2>2, GoStep DEF Step
    <3> QED BY <1>1, <1>10, <3>1 DEF CheckInactive, At, CallerInv, Commanded, Built, Stands,
                                     Building, Writing
  <2> QED BY <1>10, <2>1, <2>2 DEF CheckInactive
<1>11. CASE Kill(p)
  BY <1>1, <1>11, EndStep DEF Kill
<1> QED BY <1>3, <1>4, <1>5, <1>6, <1>7, <1>8, <1>9, <1>10, <1>11, <1>1

StoreTypes ==
    /\ candidate \in [Release -> Content \cup {None, Empty}]
    /\ files \in [Release -> SUBSET File]
    /\ index \in [Release -> Content \cup {None}]
    /\ bound \in [Release -> Content \cup {None}]
    /\ rejected \in [Release -> Mark] /\ retired \in [Release -> Mark]
    /\ retained \in [Bundles -> Content \cup {None}]
    /\ pointer \in Pointer \cup {None}

LEMMA CandidateStep ==
    ASSUME Inv, NEW p \in Caller, MakeCandidate(p) \/ FillCandidate(p)
    PROVE  LocalTypes' /\ CallerInv(p)' /\ ServiceIsNeverRefused' /\ StoreTypes'
<1>1. CASE MakeCandidate(p)
  <2>1. pc[p] = "make" /\ op[p] = "update" /\ release[p] \in Release /\ CallerInv(p)
    BY <1>1 DEF MakeCandidate, At, Inv, CallerInv, Commanded
  <2>2. CASE Refuse(p) /\ UNCHANGED candidate
    BY <1>1, <2>1, <2>2, RefuseStep DEF MakeCandidate, Inv, TypeOK, StoreTypes
  <2>3. CASE Go(p, "fill") /\ candidate' = [candidate EXCEPT ![release[p]] = Empty]
    <3>1. pc'[p] = "fill" /\ op'[p] = op[p] /\ release'[p] = release[p]
          /\ content'[p] = content[p] /\ LocalTypes' /\ ServiceIsNeverRefused'
      BY <2>3, GoStep DEF Step
    <3>2. StoreTypes' /\ candidate'[release[p]] # None
      BY <1>1, <2>1, <2>3, ReleasesAssumption DEF MakeCandidate, Inv, TypeOK, StoreTypes
    <3> QED BY <2>1, <3>1, <3>2 DEF CallerInv, Commanded, Built, Stands, Building, Writing
  <2> QED BY <1>1, <2>2, <2>3 DEF MakeCandidate, R
<1>2. CASE FillCandidate(p)
  <2>1. pc[p] = "fill" /\ op[p] = "update" /\ release[p] \in Release /\ content[p] \in Content
        /\ CallerInv(p)
    BY <1>2 DEF FillCandidate, At, Inv, CallerInv, Commanded, Building
  <2>2. pc'[p] = "qualify" /\ op'[p] = op[p] /\ release'[p] = release[p]
        /\ content'[p] = content[p] /\ LocalTypes' /\ ServiceIsNeverRefused'
    BY <1>2, GoStep DEF Step, FillCandidate
  <2>3. StoreTypes' /\ candidate'[release[p]] = content[p] /\ content[p] # None
    BY <1>2, <2>1, ReleasesAssumption DEF FillCandidate, R, Inv, TypeOK, StoreTypes
  <2> QED BY <2>1, <2>2, <2>3 DEF CallerInv, Commanded, Built, Stands, Building, Writing
<1> QED BY <1>1, <1>2

LEMMA MakeReleaseStep ==
    ASSUME Inv, NEW p \in Caller, MakeRelease(p)
    PROVE  LocalTypes' /\ CallerInv(p)' /\ ServiceIsNeverRefused' /\ StoreTypes' /\ Whole'
<1>1. /\ pc[p] = "dir" /\ op[p] = "update" /\ release[p] \in Release /\ content[p] \in Content
      /\ candidate[release[p]] = content[p] /\ content[p] \in Good /\ CallerInv(p)
      /\ UNCHANGED <<candidate, index, bound, rejected, retired, retained, pointer>>
  BY DEF MakeRelease, At, Inv, CallerInv, Commanded, Built, Building
<1>2. CASE Refuse(p) /\ UNCHANGED files
  BY <1>1, <1>2, RefuseStep DEF Inv, TypeOK, StoreTypes, Whole, Sealed
<1>3. CASE /\ Move(p, "index") /\ files' = [files EXCEPT ![release[p]] = {"dir"}]
           /\ note' = [note EXCEPT ![p] = candidate[release[p]]]
  <2>1. pc'[p] = "index" /\ op'[p] = op[p] /\ release'[p] = release[p]
        /\ content'[p] = content[p] /\ LocalTypes' /\ ServiceIsNeverRefused'
    BY <1>1, <1>3, MoveStep DEF Step
  <2>2. note'[p] = content[p]
    BY <1>1, <1>3 DEF Inv, TypeOK
  <2>3. StoreTypes' /\ files'[release[p]] = {"dir"}
    BY <1>1, <1>3 DEF Inv, TypeOK, StoreTypes, File
  <2>4. Whole'
    BY <1>1, <1>3 DEF Inv, TypeOK, Whole, Sealed
  <2> QED BY <1>1, <2>1, <2>2, <2>3, <2>4, Names
             DEF CallerInv, Commanded, Built, Stands, Building, Writing
<1> QED BY <1>2, <1>3 DEF MakeRelease, R

LEMMA WriteReleaseStep ==
    ASSUME Inv, NEW p \in Caller, WriteRelease(p)
    PROVE  LocalTypes' /\ CallerInv(p)' /\ ServiceIsNeverRefused' /\ StoreTypes' /\ Whole'
<1> DEFINE r == release[p]
<1>1. /\ pc[p] \in Writing /\ op[p] = "update" /\ r \in Release /\ content[p] \in Content
      /\ candidate[r] = content[p] /\ content[p] \in Good /\ CallerInv(p)
      /\ files[r] = Before[pc[p]]
      /\ pc[p] = "index" => note[p] = content[p]
      /\ pc[p] # "index" => index[r] = content[p]
      /\ pc[p] = "release" => bound[r] = content[p]
      /\ UNCHANGED <<candidate, rejected, retired, retained, pointer>>
  BY Names DEF WriteRelease, Inv, CallerInv, Commanded, Built, Building, Writing
<1>2. /\ files' = [files EXCEPT ![r] = files[r] \cup {pc[p]}]
      /\ index' = IF pc[p] = "index" THEN [index EXCEPT ![r] = note[p]] ELSE index
      /\ bound' = IF pc[p] = "manifest" THEN [bound EXCEPT ![r] = index[r]] ELSE bound
      /\ Go(p, After[pc[p]])
  BY DEF WriteRelease, At, R, Inv, TypeOK
<1>3. /\ pc'[p] = After[pc[p]] /\ op'[p] = op[p] /\ release'[p] = release[p]
      /\ content'[p] = content[p] /\ LocalTypes' /\ ServiceIsNeverRefused'
  BY <1>1, <1>2, GoStep, Names DEF Step, Writing
<1>4. files \in [Release -> SUBSET File] /\ index \in [Release -> Content \cup {None}]
      /\ bound \in [Release -> Content \cup {None}]
  BY DEF Inv, TypeOK
<1>5. /\ files'[r] = files[r] \cup {pc[p]}
      /\ index'[r] = content[p]
      /\ pc[p] \in {"manifest", "release"} => bound'[r] = content[p]
      /\ \A q \in Release : q # r => files'[q] = files[q] /\ index'[q] = index[q]
                                     /\ bound'[q] = bound[q]
  BY <1>1, <1>2, <1>4 DEF Writing
<1>6. StoreTypes'
  <2>1. files' \in [Release -> SUBSET File]
    BY <1>1, <1>2, <1>4 DEF Writing, File
  <2>2. index' \in [Release -> Content \cup {None}] /\ bound' \in [Release -> Content \cup {None}]
    BY <1>1, <1>2, <1>4
  <2> QED BY <1>1, <2>1, <2>2 DEF Inv, TypeOK, StoreTypes
<1>7. Whole'
  <2>1. pc[p] # "release" => "release" \notin files'[r]
    BY <1>1, <1>5, Names DEF Writing
  <2>2. pc[p] = "release" => files'[r] = File /\ bound'[r] = index'[r] /\ index'[r] \in Good
    BY <1>1, <1>5, Names DEF File
  <2> QED BY <1>5, <2>1, <2>2 DEF Inv, Whole, Sealed
<1>8. CallerInv(p)'
  <2>1. Commanded(p)' /\ Stands(p)'
    BY <1>1, <1>3, Names DEF Commanded, Stands, Writing, Building, Command
  <2>2. Built(p)'
    <3>1. pc[p] # "release" => files'[r] = Before[After[pc[p]]]
      BY <1>1, <1>5, Names DEF Writing
    <3> QED BY <1>1, <1>3, <1>5, <3>1, Names, ReleasesAssumption DEF Built, Building, Writing
  <2> QED BY <2>1, <2>2 DEF CallerInv
<1> QED BY <1>3, <1>6, <1>7, <1>8

\* The steps that make or describe a mark.
LEMMA MarkStep ==
    ASSUME Inv, NEW p \in Caller,
           MakeRejected(p) \/ DescribeRejected(p) \/ MakeRetired(p) \/ DescribeRetired(p)
    PROVE  LocalTypes' /\ CallerInv(p)' /\ ServiceIsNeverRefused' /\ StoreTypes'
<1>1. CallerInv(p) /\ op[p] # "serve" /\ release[p] \in Release
  BY DEF Inv, CallerInv, Commanded, MakeRejected, DescribeRejected, MakeRetired, DescribeRetired,
         At
<1>2. StoreTypes'
  BY <1>1 DEF Inv, TypeOK, StoreTypes, MakeRejected, DescribeRejected, MakeRetired,
              DescribeRetired, Mark, R
<1>3. CASE Refuse(p) \/ End(p, None)
  BY <1>1, <1>2, <1>3, RefuseStep, EndStep
<1>4. CASE (pc[p] = "reject" /\ Go(p, "reject_status")) \/ (pc[p] = "retire" /\ Go(p, "retire_status"))
  <2>1. PICK s \in {"reject_status", "retire_status"} :
            Go(p, s) /\ pc[p] = IF s = "reject_status" THEN "reject" ELSE "retire"
    BY <1>4
  <2>2. pc'[p] = s /\ op'[p] = op[p] /\ release'[p] = release[p] /\ content'[p] = content[p]
        /\ LocalTypes' /\ ServiceIsNeverRefused'
    BY <2>1, GoStep DEF Step
  <2> QED BY <1>1, <1>2, <2>1, <2>2 DEF CallerInv, Commanded, Built, Stands, Building, Writing
<1> QED BY <1>3, <1>4 DEF MakeRejected, DescribeRejected, MakeRetired, DescribeRetired, At

LEMMA PromoteBundleStep ==
    ASSUME Inv, NEW p \in Caller, PromoteBundle(p)
    PROVE  LocalTypes' /\ CallerInv(p)' /\ ServiceIsNeverRefused' /\ StoreTypes'
<1>1. CallerInv(p) /\ pc[p] = "promote" /\ op[p] = "update" /\ content[p] \in Content
      /\ release[p] \in Release
  BY DEF Inv, CallerInv, Commanded, PromoteBundle, At
<1>2. BundleOf[content[p]] \in Bundles
  BY <1>1 DEF Bundles
<1>3. StoreTypes'
  BY <1>1, <1>2 DEF Inv, TypeOK, StoreTypes, PromoteBundle
<1>4. CASE Refuse(p)
  BY <1>1, <1>3, <1>4, RefuseStep
<1>5. CASE Go(p, "unretired")
  <2>1. pc'[p] = "unretired" /\ op'[p] = op[p] /\ release'[p] = release[p]
        /\ content'[p] = content[p] /\ LocalTypes' /\ ServiceIsNeverRefused'
    BY <1>5, GoStep DEF Step
  <2> QED BY <1>1, <1>3, <2>1 DEF CallerInv, Commanded, Built, Stands, Building, Writing
<1> QED BY <1>4, <1>5 DEF PromoteBundle

\* The pointer is switched to a release that loads.
LEMMA SwitchPointerStep ==
    ASSUME Inv, NEW p \in Caller, SwitchPointer(p)
    PROVE  LocalTypes' /\ CallerInv(p)' /\ ServiceIsNeverRefused' /\ StoreTypes'
           /\ ActiveReleaseLoads'
<1>1. pc[p] = "point" /\ release[p] \in Release /\ Loads(release[p]) /\ note[p] = bound[release[p]]
  BY DEF Inv, CallerInv, Commanded, Stands, SwitchPointer, At
<1>2. bound[release[p]] \in Content
  BY <1>1, ReleasesAssumption DEF Inv, Whole, Sealed, Loads, File
<1>3. pointer' = [release |-> release[p], content |-> note[p]]
      /\ UNCHANGED <<candidate, files, index, bound, rejected, retired, retained>>
  BY DEF SwitchPointer, R
<1>4. StoreTypes'
  BY <1>1, <1>2, <1>3 DEF Inv, TypeOK, StoreTypes, Pointer
<1>5. ActiveReleaseLoads'
  BY <1>1, <1>3 DEF ActiveReleaseLoads, Loads
<1> QED BY <1>4, <1>5, EndStep DEF SwitchPointer

-----------------------------------------------------------------------------
(* The whole invariant *)

LEMMA CallerStepInv ==
    ASSUME Inv, NEW p \in Caller, CallerStep(p)
    PROVE  Inv'
<1>1. /\ LocalTypes' /\ CallerInv(p)' /\ ServiceIsNeverRefused' /\ StoreTypes' /\ Whole'
      /\ SwitchPointer(p) \/ UNCHANGED pointer
  <2>1. CASE UNCHANGED store
    <3>1. StoreTypes' /\ Whole' /\ UNCHANGED pointer
      BY <2>1 DEF Inv, TypeOK, StoreTypes, Whole, Sealed, store
    <3>2. ~(MakeRelease(p) \/ WriteRelease(p) \/ SwitchPointer(p)) =>
              LocalTypes' /\ CallerInv(p)' /\ ServiceIsNeverRefused'
      BY BeginStep, ReadingStep, CandidateStep, MarkStep, PromoteBundleStep
         DEF CallerStep, Build, QualifySteps, RetainSteps, Activate, Retire
    <3> QED BY <3>1, <3>2, MakeReleaseStep, WriteReleaseStep, SwitchPointerStep
  <2>2. CASE MakeCandidate(p) \/ FillCandidate(p)
    BY <2>2, CandidateStep DEF MakeCandidate, FillCandidate, Inv, Whole, Sealed
  <2>3. CASE MakeRelease(p)
    BY <2>3, MakeReleaseStep DEF MakeRelease
  <2>4. CASE WriteRelease(p)
    BY <2>4, WriteReleaseStep DEF WriteRelease
  <2>5. CASE MakeRejected(p) \/ DescribeRejected(p) \/ MakeRetired(p) \/ DescribeRetired(p)
    BY <2>5, MarkStep DEF MakeRejected, DescribeRejected, MakeRetired, DescribeRetired, Inv, Whole,
                          Sealed
  <2>6. CASE PromoteBundle(p)
    BY <2>6, PromoteBundleStep DEF PromoteBundle, Inv, Whole, Sealed
  <2>7. CASE SwitchPointer(p)
    BY <2>7, SwitchPointerStep DEF SwitchPointer, Inv, Whole, Sealed
  <2>8. UNCHANGED store
        \/ MakeCandidate(p) \/ FillCandidate(p) \/ MakeRelease(p) \/ WriteRelease(p)
        \/ MakeRejected(p) \/ DescribeRejected(p) \/ MakeRetired(p) \/ DescribeRetired(p)
        \/ PromoteBundle(p) \/ SwitchPointer(p)
    BY BeginStep, ReadingStep
       DEF CallerStep, Build, QualifySteps, RetainSteps, Activate, Retire
  <2> QED BY <2>1, <2>2, <2>3, <2>4, <2>5, <2>6, <2>7, <2>8
<1>2. TypeOK'
  BY <1>1 DEF LocalTypes, StoreTypes, TypeOK
<1>3. \A q \in Caller : CallerInv(q)'
  BY <1>1, OthersKept
<1>4. OneBuilder'
  BY OneBuilderStep
<1>5. ActiveReleaseLoads'
  <2>1. CASE SwitchPointer(p)
    BY <2>1, SwitchPointerStep
  <2>2. CASE UNCHANGED pointer
    <3>1. pointer # None => pointer.release \in Release
      BY DEF Inv, TypeOK, Pointer
    <3> QED BY <2>2, <3>1, LoadsStays DEF Inv, ActiveReleaseLoads
  <2> QED BY <1>1, <2>1, <2>2
<1> QED BY <1>1, <1>2, <1>3, <1>4, <1>5 DEF Inv

LEMMA InvStep == Inv /\ [Next]_vars => Inv'
<1> SUFFICES ASSUME Inv, [Next]_vars PROVE Inv'
  OBVIOUS
<1>1. CASE UNCHANGED vars
  BY <1>1 DEF vars, store, local, Inv, TypeOK, CallerInv, Commanded, Built, Stands, Loads,
              OneBuilder, Whole, Sealed, ActiveReleaseLoads, ServiceIsNeverRefused
<1>2. CASE \E p \in Caller : CallerStep(p)
  BY <1>2, CallerStepInv
<1> QED BY <1>1, <1>2 DEF Next, CallerStep

-----------------------------------------------------------------------------
(* Theorems *)

\* Whatever is killed and whoever runs beside whom: the pointer names a release that loads,
\* only qualified content is published, and a service that found a pointer is not refused.
THEOREM ReleaseSafety ==
    Spec => [](TypeOK /\ ActiveReleaseLoads /\ OnlyQualifiedIsPublished /\ ServiceIsNeverRefused)
<1>1. Inv => TypeOK /\ ActiveReleaseLoads /\ OnlyQualifiedIsPublished /\ ServiceIsNeverRefused
  BY DEF Inv, Whole, OnlyQualifiedIsPublished
<1> QED BY <1>1, InvInit, InvStep, PTL DEF Spec

\* A published release and a retained bundle never change.
THEOREM PublishedNeverChanges == Spec => PublishedIsImmutable
<1>1. ASSUME Inv, [Next]_vars
      PROVE  [/\ \A r \in Release : Sealed(r) =>
                     files'[r] = files[r] /\ index'[r] = index[r] /\ bound'[r] = bound[r]
              /\ \A b \in Bundles : retained[b] # None => retained'[b] = retained[b]]_vars
  BY <1>1, SealedStays, StoreStays DEF Inv, Next, CallerStep
<1> QED BY <1>1, InvInit, InvStep, PTL DEF Spec, PublishedIsImmutable

\* The releases implement the register: a caller publishes a release by its release.json,
\* activates one by the pointer, and every other step of it is invisible.
THEOREM ReleasesImplementRegister == Spec => ImplementsRegister
<1> DEFINE Published == [r \in Release |-> IF Sealed(r) THEN index[r] ELSE None]
<1>1. Init => Register!Init
  BY DEF Init, Register!Init, Sealed
<1>2. ASSUME Inv, [Next]_vars PROVE [Register!Next]_(Register!vars)
  <2>1. CASE UNCHANGED vars
    BY <2>1 DEF vars, store, Register!vars, Sealed
  <2>2. ASSUME NEW p \in Caller, CallerStep(p) PROVE [Register!Next]_(Register!vars)
    <3>1. CallerInv(p) /\ TypeOK /\ Whole
      BY <1>2 DEF Inv
    <3>2. CASE WriteRelease(p) /\ pc[p] = "release"
      <4>1. /\ release[p] \in Release /\ ~Sealed(release[p]) /\ index[release[p]] \in Good
        BY <3>1, <3>2, Names DEF CallerInv, Commanded, Built, Building, Writing, Sealed
      <4>2. /\ files' = [files EXCEPT ![release[p]] = files[release[p]] \cup {"release"}]
            /\ index' = index /\ UNCHANGED pointer
        BY <3>1, <3>2 DEF WriteRelease, At, R, TypeOK
      <4>3. Published' = [Published EXCEPT ![release[p]] = index[release[p]]]
        BY <3>1, <4>1, <4>2 DEF Sealed, TypeOK
      <4>4. PICK r \in Release, c \in Good : r = release[p] /\ c = index[release[p]]
        BY <4>1
      <4>5. Published[r] = None
        BY <4>1, <4>4
      <4>6. Register!Publish(r, c)
        BY <4>2, <4>3, <4>4, <4>5 DEF Register!Publish
      <4> QED BY <4>6 DEF Register!Next
    <3>3. CASE SwitchPointer(p)
      <4>1. /\ release[p] \in Release /\ Sealed(release[p]) /\ note[p] = index[release[p]]
            /\ index[release[p]] # None
        BY <3>1, <3>3, ReleasesAssumption
           DEF SwitchPointer, At, CallerInv, Commanded, Stands, Loads, Whole, Sealed, File
      <4>2. pointer' = [release |-> release[p], content |-> note[p]] /\ UNCHANGED Published
        BY <3>3 DEF SwitchPointer, R, Sealed
      <4>3. PICK r \in Release : r = release[p]
        BY <4>1
      <4>4. Register!Activate(r)
        BY <4>1, <4>2, <4>3 DEF Register!Activate
      <4> QED BY <4>4 DEF Register!Next
    <3>4. CASE ~(WriteRelease(p) /\ pc[p] = "release") /\ ~SwitchPointer(p)
      <4>1. UNCHANGED pointer
        BY <1>2, <2>2, <3>4, BeginStep, ReadingStep
           DEF CallerStep, Build, QualifySteps, RetainSteps, Activate, Retire, MakeCandidate,
               FillCandidate, MakeRelease, WriteRelease, MakeRejected, DescribeRejected,
               PromoteBundle, MakeRetired, DescribeRetired, store
      <4>2. ASSUME NEW r \in Release PROVE Sealed(r)' = Sealed(r) /\ (Sealed(r) => index'[r] = index[r])
        <5>1. CASE Sealed(r)
          BY <1>2, <2>2, <5>1, SealedStays DEF Sealed
        <5>2. CASE ~Sealed(r)
          <6>1. CASE MakeRelease(p)
            BY <3>1, <5>2, <6>1 DEF MakeRelease, Sealed, TypeOK
          <6>2. CASE WriteRelease(p)
            BY <3>1, <3>4, <5>2, <6>2 DEF WriteRelease, Sealed, TypeOK
          <6>3. CASE ~MakeRelease(p) /\ ~WriteRelease(p)
            BY <1>2, <2>2, <5>2, <6>3, BeginStep, ReadingStep
               DEF CallerStep, Build, QualifySteps, RetainSteps, Activate, Retire, MakeCandidate,
                   FillCandidate, MakeRejected, DescribeRejected, PromoteBundle, SwitchPointer,
                   MakeRetired, DescribeRetired, store, Sealed
          <6> QED BY <6>1, <6>2, <6>3
        <5> QED BY <5>1, <5>2
      <4>3. Published' = Published
        BY <4>2
      <4> QED BY <4>1, <4>3 DEF Register!vars
    <3> QED BY <3>2, <3>3, <3>4
  <2> QED BY <1>2, <2>1, <2>2 DEF Next, CallerStep
<1> QED BY <1>1, <1>2, InvInit, InvStep, PTL DEF Spec, ImplementsRegister, Register!Spec
=============================================================================
