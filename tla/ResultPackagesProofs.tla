------------------------ MODULE ResultPackagesProofs ------------------------
(***************************************************************************)
(* Proofs about ResultPackages for every number of builders, versions,     *)
(* projectors and activations.  That answers last needs that all requests  *)
(* ask for one and the same output version; that a set which was begun is  *)
(* pursued does not.                                                       *)
(***************************************************************************)
EXTENDS ResultPackages, FiniteSetTheorems, TLAPS

Steps == Over \cup {"look", "f3", "write f3", "project", "read", "free", "promote", "rename"}
Projecting == {"project", "read", "free", "promote", "rename"}

Full(v, p) == \A q \in Parts : file[v][q] = p

\* What a builder has found out or done by the step it is at.
BuilderInv(b, w, v, p) ==
    /\ pc[b] = "look" => want[b] = w
    /\ pc[b] \in {"f3", "write f3"} \cup Projecting => want[b] = v
    /\ pc[b] \in {"f3", "write f3"} => v = w
    /\ pc[b] \in Projecting => f3
    /\ pc[b] \in Projecting \ {"project"} => using[b] = p
    /\ pc[b] \notin {"promote", "rename"} \cup Over => part[b] = 1
    /\ pc[b] = "idle" => part[b] = 1 /\ late[b] = FALSE
    /\ pc[b] \in {"promote", "rename"} =>
           \A k \in 1..3 : k < part[b] => file[v][Part[k]] = p
    /\ late[b] => answers # {} /\ pc[b] \in {"look", "project", "read"} \cup (Over \ {"failed"})

\* All files are of one version and one projector: the ones asked for, or a whole set that
\* an earlier code has made.
Settled(w, v, p) ==
    /\ v \in Version /\ p \in Projector
    /\ \A u \in Version \ {v} : \A q \in Parts : file[u][q] = None
    /\ \A q \in Parts : file[v][q] \in {None, p}
    /\ (v = w /\ p = Current) \/ (Full(v, p) /\ f3)
    /\ answers \subseteq {<<v, p>>}
    /\ answers # {} => Full(v, p) /\ f3
    /\ \A b \in Builder : BuilderInv(b, w, v, p)

Inv(w) == TypeOK /\ \E v \in Version, p \in Projector : Settled(w, v, p)

LEMMA PartFacts ==
    /\ Part[1] = "result" /\ Part[2] = "audit" /\ Part[3] = "markdown"
    /\ \A k \in 1..3 : Part[k] \in Parts
    /\ Parts # {}
    /\ \A q \in Parts : q = Part[1] \/ q = Part[2] \/ q = Part[3]
BY DEF Part, Parts

\* What the directory shows.
LEMMA DiskFacts ==
    ASSUME NEW w, NEW v \in Version, NEW p \in Projector, Settled(w, v, p)
    PROVE  /\ p # None
           /\ \A u \in Version \ {v} : Present(u) = {}
           /\ Present(v) = Parts <=> Full(v, p)
           /\ Complete \subseteq {v} /\ (Full(v, p) => Complete = {v} /\ Partial = {})
           /\ Complete = {} => v = w
<1>1. p # None
  BY ResultPackagesAssumption
<1>2. \A u \in Version \ {v} : Present(u) = {}
  BY DEF Settled, Present
<1>3. Present(v) = Parts <=> Full(v, p)
  BY <1>1 DEF Settled, Present, Full
<1>4. Parts # {}
  BY DEF Parts
<1>5. Complete \subseteq {v} /\ (Full(v, p) => Complete = {v} /\ Partial = {})
  BY <1>2, <1>3, <1>4 DEF Complete, Partial
<1>6. Complete = {} => v = w
  BY <1>5 DEF Settled
<1> QED BY <1>1, <1>2, <1>3, <1>5, <1>6

LEMMA InvInit ==
    ASSUME NEW w, Wanted = {w}, Init
    PROVE  Inv(w)
<1>1. w \in Version /\ Current \in Projector
  BY ResultPackagesAssumption
<1>2. TypeOK
  <2>1. file \in [Version -> [Parts -> Projector \cup {None}]] /\ f3 \in BOOLEAN
    BY DEF Init, Outputs
  <2>2. matches \in BOOLEAN /\ activations \in 0..MaxActivations /\ answers = {}
    BY ResultPackagesAssumption DEF Init
  <2>3. /\ pc \in [Builder -> Over] /\ want \in [Builder -> Version \cup {None}]
        /\ using \in [Builder -> Projector \cup {None}] /\ part \in [Builder -> 1..3]
        /\ late \in [Builder -> BOOLEAN]
    BY DEF Init, Over
  <2> QED BY <2>1, <2>2, <2>3 DEF TypeOK
<1>3. CASE file = [v \in Version |-> [p \in Parts |-> None]]
  <2>1. Settled(w, w, Current)
    BY <1>1, <1>3 DEF Init, Settled, BuilderInv, Projecting, Over
  <2> QED BY <1>1, <1>2, <2>1 DEF Inv
<1>4. CASE f3 = TRUE /\ \E v \in Version, p \in Projector : file = Outputs(v, p)
  <2>1. PICK v \in Version, p \in Projector : file = Outputs(v, p)
    BY <1>4
  <2>2. Settled(w, v, p)
    BY <1>4, <2>1 DEF Init, Settled, BuilderInv, Projecting, Over, Outputs, Full
  <2> QED BY <1>2, <2>2 DEF Inv
<1> QED BY <1>3, <1>4 DEF Init

-----------------------------------------------------------------------------
(* A step of one builder *)

\* A builder changes its own variables only, and files are only added.
LEMMA BuilderStays ==
    ASSUME TypeOK, NEW w, NEW v \in Version, NEW p \in Projector, NEW b \in Builder,
           Begin(b) \/ Build(b) \/ IoError(b) \/ Kill(b), Settled(w, v, p),
           \A q \in Parts : file[v][q] = p => file'[v][q] = p
    PROVE  /\ \A c \in Builder \ {b} : BuilderInv(c, w, v, p)'
           /\ f3 => f3'
           /\ answers \subseteq answers'
<1>1. \A c \in Builder \ {b} : /\ pc'[c] = pc[c] /\ want'[c] = want[c] /\ using'[c] = using[c]
                               /\ part'[c] = part[c] /\ late'[c] = late[c]
  <2>1. \A c \in Builder \ {b} : pc'[c] = pc[c]
    BY DEF TypeOK, Begin, Build, IoError, Kill, Look, RebuildF3, WriteF3, Project, ReadOutputs,
           CheckCollision, CheckAbsent, Rename, Go, Answer
  <2>2. \A c \in Builder \ {b} : want'[c] = want[c] /\ using'[c] = using[c]
    BY DEF TypeOK, Begin, Build, IoError, Kill, Look, RebuildF3, WriteF3, Project, ReadOutputs,
           CheckCollision, CheckAbsent, Rename, Answer
  <2>3. \A c \in Builder \ {b} : part'[c] = part[c] /\ late'[c] = late[c]
    BY DEF TypeOK, Begin, Build, IoError, Kill, Look, RebuildF3, WriteF3, Project, ReadOutputs,
           CheckCollision, CheckAbsent, Rename, Answer
  <2> QED BY <2>1, <2>2, <2>3
<1>2. answers \subseteq answers'
  BY DEF Begin, Build, IoError, Kill, Look, RebuildF3, WriteF3, Project, ReadOutputs,
         CheckCollision, CheckAbsent, Rename, Go, Answer
<1>3. f3 => f3'
  BY DEF Begin, Build, IoError, Kill, Look, RebuildF3, WriteF3, Project, ReadOutputs,
         CheckCollision, CheckAbsent, Rename, disk
<1>4. ASSUME NEW c \in Builder \ {b} PROVE BuilderInv(c, w, v, p)'
  <2>1. BuilderInv(c, w, v, p)
    BY DEF Settled
  <2> QED BY <1>1, <1>2, <1>3, <2>1, PartFacts DEF BuilderInv
<1> QED BY <1>2, <1>3, <1>4

\* Begin, and the steps that write no output file.
LEMMA QuietBuild ==
    ASSUME NEW w, Wanted = {w}, NEW v \in Version, NEW p \in Projector, TypeOK,
           Settled(w, v, p), NEW b \in Builder,
           Begin(b) \/ Look(b) \/ RebuildF3(b) \/ WriteF3(b) \/ Project(b) \/ ReadOutputs(b)
           \/ CheckCollision(b) \/ CheckAbsent(b) \/ IoError(b) \/ Kill(b)
    PROVE  TypeOK' /\ Settled(w, v, p)'
<1>1. BuilderInv(b, w, v, p) /\ w \in Version /\ Current \in Projector
  BY ResultPackagesAssumption DEF Settled
<1>2. UNCHANGED file
  BY DEF Begin, Look, RebuildF3, WriteF3, Project, ReadOutputs, CheckCollision, CheckAbsent,
         IoError, Kill, disk
<1>3. \A c \in Builder \ {b} : BuilderInv(c, w, v, p)'
  BY <1>2, BuilderStays DEF Build
<1>4. f3 => f3'
  BY <1>2, BuilderStays DEF Build
<1>5. ASSUME TypeOK', answers' \subseteq {<<v, p>>}, answers' # {} => Full(v, p) /\ f3,
             BuilderInv(b, w, v, p)'
      PROVE  TypeOK' /\ Settled(w, v, p)'
  BY <1>2, <1>3, <1>4, <1>5 DEF Settled, Full
<1>6. CASE Begin(b)
  <2>1. /\ pc[b] = "idle" /\ pc' = [pc EXCEPT ![b] = "look"] /\ want' = [want EXCEPT ![b] = w]
        /\ late' = [late EXCEPT ![b] = answers # {}]
        /\ UNCHANGED <<file, f3, matches, activations, using, part, answers>>
    BY <1>6 DEF Begin, Go, disk
  <2>2. TypeOK'
    BY <1>1, <2>1 DEF TypeOK
  <2>3. BuilderInv(b, w, v, p)'
    BY <1>1, <2>1 DEF BuilderInv, TypeOK, Projecting, Over
  <2> QED BY <1>5, <2>1, <2>2, <2>3 DEF Settled
<1>7. CASE Look(b)
  <2>1. /\ pc[b] = "look" /\ want[b] = w
        /\ UNCHANGED <<file, f3, matches, activations, using, part, late, answers>>
    BY <1>1, <1>7 DEF Look, disk, BuilderInv
  <2>2. Complete \subseteq {v} /\ (Complete = {} => v = w)
        /\ (Full(v, p) => Complete = {v} /\ Partial = {})
    BY DiskFacts
  <2>3. Cardinality({v}) = 1
    BY FS_Singleton
  <2>4. \/ Go(b, "failed") /\ UNCHANGED want /\ ~(Full(v, p) /\ f3)
        \/ Go(b, "f3") /\ UNCHANGED want /\ v = w /\ ~Full(v, p)
        \/ Go(b, "project") /\ f3 /\ want' = [want EXCEPT ![b] = v]
        \/ Go(b, "failed") /\ ~f3 /\ want' = [want EXCEPT ![b] = v]
    <3>1. CASE Partial # {} \/ Cardinality(Complete) > 1
      BY <1>7, <2>2, <2>3, <3>1 DEF Look
    <3>2. CASE ~(Partial # {} \/ Cardinality(Complete) > 1) /\ Complete = {}
      BY <1>7, <2>2, <3>2 DEF Look
    <3>3. CASE ~(Partial # {} \/ Cardinality(Complete) > 1) /\ Complete # {}
      BY <1>7, <2>2, <3>3 DEF Look
    <3> QED BY <3>1, <3>2, <3>3
  <2>5. TypeOK'
    <3>1. UNCHANGED want \/ want' = [want EXCEPT ![b] = v]
      BY <2>4
    <3>2. want' \in [Builder -> Version \cup {None}]
      BY <1>1, <3>1 DEF TypeOK
    <3>3. \E step \in {"failed", "f3", "project"} : pc' = [pc EXCEPT ![b] = step]
      BY <2>4 DEF Go
    <3> QED BY <1>1, <2>1, <3>2, <3>3 DEF TypeOK, Over
  <2>6. late[b] => Full(v, p) /\ f3
    BY <1>1 DEF BuilderInv, Settled
  <2>7. pc'[b] \in {"failed", "f3", "project"} /\ part[b] = 1
    BY <1>1, <2>1, <2>4 DEF Go, TypeOK, BuilderInv, Over
  <2>8. /\ pc'[b] = "f3" => v = w /\ want'[b] = v /\ ~Full(v, p)
        /\ pc'[b] = "project" => f3 /\ want'[b] = v
        /\ pc'[b] = "failed" => ~(Full(v, p) /\ f3)
    BY <2>1, <2>4 DEF Go, TypeOK
  <2>9. BuilderInv(b, w, v, p)'
    BY <1>1, <2>1, <2>6, <2>7, <2>8 DEF BuilderInv, Projecting, Over
  <2> QED BY <1>5, <2>1, <2>5, <2>9 DEF Settled
<1>8. CASE RebuildF3(b)
  <2>1. /\ pc[b] = "f3" /\ pc'[b] \in {"failed", "project", "write f3"}
        /\ pc'[b] = "project" => f3 /\ UNCHANGED <<want, using, part, late, answers, f3>>
        /\ pc' \in [Builder -> Steps] /\ UNCHANGED <<disk, want, using, part, late, answers>>
    BY <1>8 DEF RebuildF3, Go, TypeOK, Steps, Over, disk
  <2>2. TypeOK' /\ UNCHANGED f3
    BY <2>1 DEF TypeOK, disk, Steps
  <2>3. BuilderInv(b, w, v, p)'
    BY <1>1, <2>1, <2>2 DEF BuilderInv, Projecting, Over
  <2> QED BY <1>5, <2>1, <2>2, <2>3 DEF Settled
<1>9. CASE WriteF3(b)
  <2>1. /\ pc[b] = "write f3" /\ pc'[b] \in {"failed", "project"} /\ f3' = TRUE
        /\ pc' \in [Builder -> Steps]
        /\ UNCHANGED <<file, matches, activations, want, using, part, late, answers>>
    BY <1>9 DEF WriteF3, Go, TypeOK, Steps, Over
  <2>2. TypeOK'
    BY <2>1 DEF TypeOK, Steps
  <2>3. BuilderInv(b, w, v, p)'
    BY <1>1, <2>1 DEF BuilderInv, Projecting, Over
  <2> QED BY <1>5, <2>1, <2>2, <2>3 DEF Settled
<1>10. CASE Project(b)
  <2>1. /\ pc[b] = "project" /\ want[b] = v /\ pc' = [pc EXCEPT ![b] = "read"]
        /\ using' = [using EXCEPT ![b] = IF file[want[b]]["audit"] = None THEN Current
                                         ELSE file[want[b]]["audit"]]
        /\ UNCHANGED <<file, f3, matches, activations, want, part, late, answers>>
    BY <1>1, <1>10 DEF Project, Go, BuilderInv, Projecting, disk
  <2>2. file[v]["audit"] \in {None, p} /\ (file[v]["audit"] = None => p = Current)
    BY DiskFacts DEF Settled, Parts, Full
  <2>3. using'[b] = p /\ pc'[b] = "read"
    BY <2>1, <2>2 DEF TypeOK
  <2>4. TypeOK'
    BY <1>1, <2>1, <2>2 DEF TypeOK
  <2>5. BuilderInv(b, w, v, p)'
    BY <1>1, <2>1, <2>3 DEF BuilderInv, Projecting, Over
  <2> QED BY <1>5, <2>1, <2>4, <2>5 DEF Settled
<1>11. CASE ReadOutputs(b)
  <2>1. /\ pc[b] = "read" /\ want[b] = v /\ using[b] = p /\ f3
        /\ UNCHANGED <<file, f3, matches, activations, want, using, part, late>>
    BY <1>1, <1>11 DEF ReadOutputs, BuilderInv, Projecting, disk
  <2>2. \/ Present(v) = {} /\ (Go(b, "free") \/ Go(b, "failed")) /\ UNCHANGED answers
        \/ Full(v, p) /\ Answer(b)
        \/ ~Full(v, p) /\ Go(b, "failed") /\ UNCHANGED answers
    BY <1>11, <2>1 DEF ReadOutputs, Full
  <2>3. /\ pc' \in [Builder -> Steps] /\ pc'[b] \in {"free", "failed", "answered"}
        /\ pc'[b] \in {"free", "failed"} => ~Full(v, p)
        /\ answers' = answers \/ (answers' = answers \cup {<<v, p>>} /\ Full(v, p))
    <3>1. Present(v) = {} => ~Full(v, p)
      BY DiskFacts, PartFacts
    <3> QED BY <2>1, <2>2, <3>1 DEF Go, Answer, TypeOK, Steps, Over
  <2>4. TypeOK'
    <3>1. <<v, p>> \in Version \X Projector
      OBVIOUS
    <3>2. answers' \subseteq Version \X Projector
      BY <2>3, <3>1 DEF TypeOK
    <3> QED BY <2>1, <2>3, <3>2 DEF TypeOK, Steps
  <2>5. late[b] => Full(v, p)
    BY <1>1 DEF BuilderInv, Settled
  <2>6. BuilderInv(b, w, v, p)'
    BY <1>1, <2>1, <2>3, <2>5 DEF BuilderInv, Projecting, Over
  <2> QED BY <1>5, <2>1, <2>3, <2>4, <2>6 DEF Settled
<1>12. CASE CheckCollision(b) \/ CheckAbsent(b) \/ IoError(b) \/ Kill(b)
  <2>1. /\ pc' \in [Builder -> Steps]
        /\ \/ pc[b] = "free" /\ pc'[b] \in {"promote", "failed"}
           \/ pc[b] = "promote" /\ pc'[b] \in {"rename", "failed"}
           \/ pc[b] # "idle" /\ pc'[b] \in {"broken", "killed"}
        /\ UNCHANGED <<disk, want, using, part, late, answers>>
    BY <1>12 DEF CheckCollision, CheckAbsent, IoError, Kill, Go, TypeOK, Steps, Over
  <2>2. TypeOK' /\ UNCHANGED f3
    BY <2>1 DEF TypeOK, disk, Steps
  <2>3. UNCHANGED <<want, using, part, late, answers, f3>> /\ \A q \in Parts : file'[v][q] = file[v][q]
    BY <1>2, <2>1, <2>2
  <2>4. ASSUME pc[b] = "free", pc'[b] \in {"promote", "failed"} PROVE BuilderInv(b, w, v, p)'
    <3>1. part[b] = 1 /\ ~late[b] /\ want[b] = v /\ using[b] = p /\ f3
      BY <1>1, <2>4 DEF BuilderInv, Projecting, Over
    <3>2. \A k \in 1..3 : ~(k < part[b])
      BY <3>1
    <3> QED BY <2>3, <2>4, <3>1, <3>2 DEF BuilderInv, Projecting, Over
  <2>5. ASSUME pc[b] = "promote", pc'[b] \in {"rename", "failed"} PROVE BuilderInv(b, w, v, p)'
    BY <1>1, <2>3, <2>5, PartFacts DEF BuilderInv, Projecting, Over
  <2>6. ASSUME pc[b] # "idle", pc'[b] \in {"broken", "killed"} PROVE BuilderInv(b, w, v, p)'
    BY <1>1, <2>3, <2>6 DEF BuilderInv, Projecting, Over
  <2>7. BuilderInv(b, w, v, p)'
    BY <2>1, <2>4, <2>5, <2>6
  <2> QED BY <1>5, <2>1, <2>2, <2>7 DEF Settled
<1> QED BY <1>6, <1>7, <1>8, <1>9, <1>10, <1>11, <1>12

\* A rename adds a file of the one kind, and the last one makes the set whole.
LEMMA RenameStep ==
    ASSUME NEW w, Wanted = {w}, NEW v \in Version, NEW p \in Projector, TypeOK,
           Settled(w, v, p), NEW b \in Builder, Rename(b)
    PROVE  TypeOK' /\ Settled(w, v, p)'
<1> DEFINE q == Part[part[b]]
<1>1. BuilderInv(b, w, v, p)
  BY DEF Settled
<1>2. /\ pc[b] = "rename" /\ want[b] = v /\ using[b] = p /\ f3 /\ part[b] \in 1..3
      /\ ~late[b] /\ \A k \in 1..3 : k < part[b] => file[v][Part[k]] = p
      /\ UNCHANGED <<f3, matches, activations, want, using, late>>
  BY <1>1 DEF Rename, BuilderInv, Projecting, TypeOK, Over
<1>3. file' = [file EXCEPT ![v] = [file[v] EXCEPT ![q] = p]] /\ q \in Parts
  BY <1>2, PartFacts DEF Rename
<1>4. /\ file' \in [Version -> [Parts -> Projector \cup {None}]]
      /\ file'[v] = [file[v] EXCEPT ![q] = p]
      /\ \A u \in Version \ {v} : file'[u] = file[u]
  <2>1. [file[v] EXCEPT ![q] = p] \in [Parts -> Projector \cup {None}]
    BY <1>3 DEF TypeOK
  <2> QED BY <1>3, <2>1 DEF TypeOK
<1>5. \A r \in Parts : file'[v][r] = IF r = q THEN p ELSE file[v][r]
  BY <1>3, <1>4 DEF TypeOK
<1>6. /\ \A u \in Version \ {v} : \A r \in Parts : file'[u][r] = None
      /\ \A r \in Parts : file'[v][r] \in {None, p}
      /\ Full(v, p) => Full(v, p)'
  BY <1>4, <1>5 DEF Settled, Full
<1>7. \A c \in Builder \ {b} : BuilderInv(c, w, v, p)'
  <2>1. \A r \in Parts : file[v][r] = p => file'[v][r] = p
    BY <1>5
  <2> QED BY <2>1, BuilderStays DEF Build
<1>8. CASE part[b] = 3 /\ Answer(b) /\ UNCHANGED part
  <2>1. Full(v, p)'
    BY <1>2, <1>5, <1>8, PartFacts DEF Full
  <2>2. pc' \in [Builder -> Steps] /\ pc'[b] = "answered" /\ answers' = answers \cup {<<v, p>>}
    BY <1>2, <1>8 DEF Answer, Go, TypeOK, Steps, Over
  <2>3. TypeOK'
    <3>1. <<v, p>> \in Version \X Projector
      OBVIOUS
    <3>2. answers' \subseteq Version \X Projector
      BY <2>2, <3>1 DEF TypeOK
    <3> QED BY <1>2, <1>4, <1>8, <2>2, <3>2 DEF TypeOK, Steps
  <2>4. BuilderInv(b, w, v, p)'
    BY <1>2, <2>2 DEF BuilderInv, Projecting, Over
  <2> QED BY <1>2, <1>6, <1>7, <2>1, <2>2, <2>3, <2>4 DEF Settled
<1>9. CASE /\ part[b] # 3 /\ Go(b, "promote") /\ part' = [part EXCEPT ![b] = @ + 1]
           /\ UNCHANGED answers
  <2>1. pc' \in [Builder -> Steps] /\ pc'[b] = "promote"
    BY <1>9 DEF Go, TypeOK, Steps
  <2>2. part' \in [Builder -> 1..3] /\ part'[b] = part[b] + 1
    <3>1. part[b] + 1 \in 1..3
      BY <1>2, <1>9
    <3> QED BY <1>9, <3>1 DEF TypeOK
  <2>3. TypeOK'
    BY <1>2, <1>4, <1>9, <2>1, <2>2 DEF TypeOK, Steps
  <2>4. \A k \in 1..3 : k < part'[b] => file'[v][Part[k]] = p
    <3>1. \A k \in 1..3 : k < part'[b] => k < part[b] \/ k = part[b]
      BY <1>2, <2>2
    <3> QED BY <1>2, <1>5, <3>1, PartFacts
  <2>5. BuilderInv(b, w, v, p)'
    BY <1>2, <2>1, <2>4 DEF BuilderInv, Projecting, Over
  <2> QED BY <1>2, <1>6, <1>7, <1>9, <2>3, <2>5 DEF Settled
<1> QED BY <1>8, <1>9 DEF Rename

LEMMA InvNext ==
    ASSUME NEW w, Wanted = {w}, Inv(w), [Next]_vars
    PROVE  Inv(w)'
<1>1. PICK v \in Version, p \in Projector : Settled(w, v, p) /\ TypeOK
  BY DEF Inv
<1>2. ASSUME NEW b \in Builder, Begin(b) \/ Build(b) \/ IoError(b) \/ Kill(b)
      PROVE  TypeOK' /\ Settled(w, v, p)'
  BY <1>1, <1>2, QuietBuild, RenameStep DEF Build
<1>3. ASSUME Activate \/ UNCHANGED vars PROVE TypeOK' /\ Settled(w, v, p)'
  <2>1. /\ UNCHANGED <<file, f3, pc, want, using, part, late, answers>>
        /\ matches' \in BOOLEAN /\ activations' \in 0..MaxActivations
    <3>1. CASE Activate
      <4>1. /\ activations < MaxActivations /\ activations' = activations + 1
            /\ matches' \in BOOLEAN
            /\ UNCHANGED <<file, f3, pc, want, using, part, late, answers>>
        BY <3>1 DEF Activate
      <4>2. activations' \in 0..MaxActivations
        <5>1. activations \in 0..MaxActivations /\ MaxActivations \in Nat
          BY <1>1, ResultPackagesAssumption DEF TypeOK
        <5> QED BY <4>1, <5>1
      <4> QED BY <4>1, <4>2
    <3>2. CASE UNCHANGED vars
      BY <1>1, <3>2 DEF vars, disk, TypeOK
    <3> QED BY <1>3, <3>1, <3>2
  <2>2. TypeOK'
    BY <1>1, <2>1 DEF TypeOK
  <2>3. Settled(w, v, p)'
    BY <1>1, <2>1 DEF Settled, BuilderInv, Full
  <2> QED BY <2>2, <2>3
<1>4. TypeOK' /\ Settled(w, v, p)'
  BY <1>2, <1>3 DEF Next
<1> QED BY <1>1, <1>4 DEF Inv

LEMMA InvMeans ==
    ASSUME NEW w, Inv(w)
    PROVE  TypeOK /\ AnswerIsOnDisk /\ AnswersLast
<1>1. PICK v \in Version, p \in Projector : Settled(w, v, p) /\ TypeOK
  BY DEF Inv
<1>2. AnswerIsOnDisk
  <2>1. SUFFICES ASSUME NEW a \in answers
                 PROVE  /\ \A q \in Parts : file[a[1]][q] = a[2]
                        /\ \A u \in Version \ {a[1]} : Present(u) = {}
    BY DEF AnswerIsOnDisk
  <2>2. a = <<v, p>> /\ Full(v, p)
    BY <1>1, <2>1 DEF Settled
  <2> QED BY <1>1, <2>2, DiskFacts DEF Full
<1>3. AnswersLast
  BY <1>1 DEF AnswersLast, Settled, BuilderInv, Over
<1> QED BY <1>1, <1>2, <1>3

-----------------------------------------------------------------------------
(* Theorems *)

\* Whatever builders race, fail or are killed, and whichever release becomes active: what
\* was answered is what the package holds, and no later request for it fails.
THEOREM AnswersAreKept ==
    ASSUME NEW w, Wanted = {w}
    PROVE  Spec => [](TypeOK /\ AnswerIsOnDisk /\ AnswersLast)
<1>1. Init => Inv(w)
  BY InvInit
<1>2. Inv(w) /\ [Next]_vars => Inv(w)'
  BY InvNext
<1>3. Inv(w) => TypeOK /\ AnswerIsOnDisk /\ AnswersLast
  BY InvMeans
<1> QED BY <1>1, <1>2, <1>3, PTL DEF Spec

-----------------------------------------------------------------------------
(***************************************************************************)
(* A set that was begun stays in somebody's hands, for any number of       *)
(* versions that are asked for.  Outputs are promoted in one order         *)
(* (InOrder) and never removed, so who finds its next output there has     *)
(* lost it to a builder that is further on.                                *)
(***************************************************************************)

\* What the argument needs of the types.
Kept ==
    /\ file \in [Version -> [Parts -> Projector \cup {None}]]
    /\ pc \in [Builder -> Steps] /\ part \in [Builder -> 1..3]
    /\ want \in [Builder -> Version \cup {None}] /\ using \in [Builder -> Projector \cup {None}]

\* Every builder has a version and, later, a projector, and its promoted outputs are there.
Equipped(b) ==
    /\ pc[b] \notin Over => want[b] \in Version
    /\ pc[b] \in {"read", "free", "promote", "rename"} => using[b] \in Projector
    /\ pc[b] \notin {"promote", "rename"} \cup (Over \ {"idle"}) => part[b] = 1
    /\ pc[b] \in {"promote", "rename"} =>
           \A k \in 1..3 : k < part[b] => file[want[b]][Part[k]] # None

InOrder ==
    \A v \in Version : \A j, k \in 1..3 :
        j < k /\ file[v][Part[k]] # None => file[v][Part[j]] # None

PursuitInv == Kept /\ (\A b \in Builder : Equipped(b)) /\ InOrder /\ BegunIsPursued

\* A package that was just finalized, or one with a whole set of outputs.
LEMMA PursuitInit == Init => PursuitInv
<1> SUFFICES ASSUME Init PROVE PursuitInv
  OBVIOUS
<1>1. None \notin Version \cup Projector /\ MaxActivations \in Nat
  BY ResultPackagesAssumption
<1>2. \/ \A v \in Version, q \in Parts : file[v][q] = None
      \/ \E u \in Version, p \in Projector :
            \A v \in Version, q \in Parts : file[v][q] = IF v = u THEN p ELSE None
  BY DEF Init, Outputs
<1>3. file \in [Version -> [Parts -> Projector \cup {None}]] /\ f3 \in BOOLEAN
  BY DEF Init, Outputs
<1>4. Kept
  BY <1>1, <1>3 DEF Init, Kept, Steps, Over
<1>5. \A b \in Builder : Equipped(b)
  BY DEF Init, Equipped, Over
<1>6. InOrder
  BY <1>1, <1>2, PartFacts DEF InOrder
<1>7. Partial = {}
  BY <1>1, <1>2, PartFacts DEF Partial, Present
<1> QED BY <1>4, <1>5, <1>6, <1>7 DEF PursuitInv, BegunIsPursued

\* Any step that writes no output: nobody who would complete a set gives it up.
LEMMA QuietPursuit ==
    ASSUME PursuitInv, NEW b \in Builder,
           Begin(b) \/ Look(b) \/ RebuildF3(b) \/ WriteF3(b) \/ Project(b) \/ ReadOutputs(b)
           \/ CheckCollision(b) \/ CheckAbsent(b) \/ IoError(b) \/ Kill(b)
    PROVE  PursuitInv'
<1>1. Kept /\ Equipped(b) /\ UNCHANGED <<file, part>>
  BY DEF PursuitInv, Begin, Look, RebuildF3, WriteF3, Project, ReadOutputs, CheckCollision,
         CheckAbsent, IoError, Kill, disk
<1>2. \A c \in Builder \ {b} : /\ pc'[c] = pc[c] /\ want'[c] = want[c] /\ using'[c] = using[c]
  BY <1>1 DEF Kept, Begin, Look, RebuildF3, WriteF3, Project, ReadOutputs, CheckCollision,
         CheckAbsent, IoError, Kill, Go, Answer
<1>3. Kept' /\ Equipped(b)'
  <2>1. ASSUME pc' \in [Builder -> Steps], pc[b] \notin Over, UNCHANGED <<want, using>>,
               \/ pc'[b] \in Over \ {"idle"}
               \/ pc[b] \notin {"promote", "rename"} /\ pc'[b] \in {"f3", "write f3", "project"}
               \/ pc[b] \in {"read", "free"} /\ pc'[b] \in {"free", "promote"}
               \/ pc[b] = "promote" /\ pc'[b] = "rename"
        PROVE  Kept' /\ Equipped(b)'
    <3>1. Kept'
      BY <1>1, <2>1 DEF Kept
    <3>2. /\ want'[b] \in Version /\ part'[b] = part[b] /\ file' = file
          /\ pc[b] \in {"read", "free", "promote", "rename"} => using'[b] \in Projector
          /\ pc[b] \notin {"promote", "rename"} => part'[b] = 1
      BY <1>1, <2>1 DEF Equipped
    <3>3. CASE pc'[b] \in Over \ {"idle"}
      BY <3>1, <3>3 DEF Equipped, Over
    <3>4. CASE pc[b] \notin {"promote", "rename"} /\ pc'[b] \in {"f3", "write f3", "project"}
      BY <3>1, <3>2, <3>4 DEF Equipped, Over
    <3>5. CASE pc[b] \in {"read", "free"} /\ pc'[b] \in {"free", "promote"}
      <4>1. \A k \in 1..3 : ~(k < part'[b])
        BY <3>2, <3>5
      <4> QED BY <3>1, <3>2, <3>5, <4>1 DEF Equipped, Over
    <3>6. CASE pc[b] = "promote" /\ pc'[b] = "rename"
      <4>1. \A k \in 1..3 : k < part'[b] => file'[want'[b]][Part[k]] # None
        BY <1>1, <2>1, <3>2, <3>6 DEF Equipped
      <4> QED BY <3>1, <3>2, <3>6, <4>1 DEF Equipped, Over
    <3> QED BY <2>1, <3>1, <3>3, <3>4, <3>5, <3>6
  <2>2. CASE Begin(b)
    <3>1. PICK v \in Wanted : want' = [want EXCEPT ![b] = v]
      BY <2>2 DEF Begin
    <3>2. v \in Version
      BY ResultPackagesAssumption
    <3>3. pc[b] = "idle" /\ pc' = [pc EXCEPT ![b] = "look"] /\ UNCHANGED using
      BY <2>2 DEF Begin, Go
    <3>4. Kept' /\ pc'[b] = "look" /\ want'[b] \in Version
      BY <1>1, <3>1, <3>2, <3>3 DEF Kept, Steps
    <3> QED BY <1>1, <3>3, <3>4 DEF Equipped, Over
  <2>3. CASE Look(b)
    <3>1. /\ pc[b] = "look" /\ UNCHANGED using
          /\ \E step \in {"failed", "f3", "project"} : pc' = [pc EXCEPT ![b] = step]
          /\ \/ UNCHANGED want
             \/ \E v \in Version : want' = [want EXCEPT ![b] = v]
      BY <2>3 DEF Look, Go, Complete
    <3>2. pc' \in [Builder -> Steps] /\ pc'[b] \in {"failed", "f3", "project"}
      <4>1. PICK step \in {"failed", "f3", "project"} : pc' = [pc EXCEPT ![b] = step]
        BY <3>1
      <4>2. step \in Steps /\ pc \in [Builder -> Steps]
        BY <1>1 DEF Kept, Steps, Over
      <4> QED BY <4>1, <4>2
    <3>3. want' \in [Builder -> Version \cup {None}] /\ want'[b] \in Version
      <4>1. want[b] \in Version /\ want \in [Builder -> Version \cup {None}]
        BY <1>1, <3>1 DEF Kept, Equipped, Over
      <4>2. CASE UNCHANGED want
        BY <4>1, <4>2
      <4>3. CASE \E v \in Version : want' = [want EXCEPT ![b] = v]
        BY <4>1, <4>3
      <4> QED BY <3>1, <4>2, <4>3
    <3>4. Kept' /\ part'[b] = 1
      BY <1>1, <3>1, <3>2, <3>3 DEF Kept, Equipped, Over
    <3> QED BY <3>2, <3>3, <3>4 DEF Equipped, Over
  <2>4. CASE RebuildF3(b) \/ WriteF3(b)
    <3>1. /\ pc[b] \in {"f3", "write f3"} /\ UNCHANGED <<want, using>>
          /\ \E step \in {"failed", "project", "write f3"} : pc' = [pc EXCEPT ![b] = step]
      BY <2>4 DEF RebuildF3, WriteF3, Go
    <3>2. pc' \in [Builder -> Steps] /\ pc'[b] \in {"failed", "project", "write f3"}
      BY <1>1, <3>1 DEF Kept, Steps, Over
    <3> QED BY <2>1, <3>1, <3>2 DEF Over
  <2>5. CASE Project(b)
    <3>1. pc[b] = "project" /\ pc' = [pc EXCEPT ![b] = "read"] /\ UNCHANGED want
      BY <2>5 DEF Project, Go
    <3>2. want[b] \in Version
      BY <1>1, <3>1 DEF Equipped, Over
    <3>3. file[want[b]]["audit"] \in Projector \cup {None} /\ Current \in Projector
      BY <1>1, <3>2, ResultPackagesAssumption DEF Kept, Parts
    <3>4. PICK q \in Projector : using' = [using EXCEPT ![b] = q]
      BY <2>5, <3>3 DEF Project
    <3>5. Kept' /\ pc'[b] = "read" /\ using'[b] \in Projector
      BY <1>1, <3>1, <3>4 DEF Kept, Steps
    <3> QED BY <1>1, <3>1, <3>2, <3>5 DEF Equipped, Over
  <2>6. CASE ReadOutputs(b) \/ CheckCollision(b)
    <3>1. /\ pc[b] \in {"read", "free"} /\ UNCHANGED <<want, using>>
          /\ \E step \in {"failed", "answered", "free", "promote"} : pc' = [pc EXCEPT ![b] = step]
      BY <2>6 DEF ReadOutputs, CheckCollision, Go, Answer
    <3>2. pc' \in [Builder -> Steps] /\ pc'[b] \in {"failed", "answered", "free", "promote"}
      BY <1>1, <3>1 DEF Kept, Steps, Over
    <3> QED BY <2>1, <3>1, <3>2 DEF Over
  <2>7. CASE CheckAbsent(b) \/ IoError(b) \/ Kill(b)
    <3>1. /\ pc[b] \notin Over /\ UNCHANGED <<want, using>>
          /\ \E step \in {"failed", "rename", "broken", "killed"} :
                 pc' = [pc EXCEPT ![b] = step] /\ (step = "rename" => pc[b] = "promote")
      BY <2>7 DEF CheckAbsent, IoError, Kill, Go, Over
    <3>2. /\ pc' \in [Builder -> Steps] /\ pc'[b] \in {"failed", "rename", "broken", "killed"}
          /\ pc'[b] = "rename" => pc[b] = "promote"
      BY <1>1, <3>1 DEF Kept, Steps, Over
    <3> QED BY <2>1, <3>1, <3>2 DEF Over
  <2> QED BY <2>2, <2>3, <2>4, <2>5, <2>6, <2>7
<1>4. \A c \in Builder : Equipped(c)'
  BY <1>1, <1>2, <1>3 DEF PursuitInv, Equipped
<1>5. InOrder' /\ Partial' = Partial
  BY <1>1 DEF PursuitInv, InOrder, Partial, Present
<1>6. BegunIsPursued'
  <2> SUFFICES ASSUME NEW v \in Partial
               PROVE  \E c \in Builder : pc'[c] \in {"killed", "broken"} \/ Completes(c, v)'
    BY <1>5 DEF BegunIsPursued
  <2>1. PICK c \in Builder : pc[c] \in {"killed", "broken"} \/ Completes(c, v)
    BY DEF PursuitInv, BegunIsPursued
  <2>2. CASE c # b
    BY <1>1, <1>2, <2>1, <2>2 DEF Completes
  <2>3. CASE c = b
    <3>1. pc[b] \notin {"killed", "broken"}
      BY DEF Begin, Look, RebuildF3, WriteF3, Project, ReadOutputs, CheckCollision,
             CheckAbsent, IoError, Kill, Over
    <3>2. Completes(b, v)
      BY <2>1, <2>3, <3>1
    <3>3. CheckAbsent(b) \/ IoError(b) \/ Kill(b)
      BY <3>2 DEF Completes, Begin, Look, RebuildF3, WriteF3, Project, ReadOutputs, CheckCollision
    <3>4. CASE CheckAbsent(b)
      BY <1>1, <3>2, <3>4 DEF Completes, CheckAbsent, Go, Kept
    <3>5. CASE IoError(b) \/ Kill(b)
      BY <1>1, <3>5 DEF IoError, Kill, Go, Kept
    <3> QED BY <3>3, <3>4, <3>5
  <2> QED BY <2>2, <2>3
<1> QED BY <1>3, <1>4, <1>5, <1>6 DEF PursuitInv

\* A rename: either the renamer goes on to a missing output, or the output had been there.
LEMMA RenamePursuit ==
    ASSUME PursuitInv, NEW b \in Builder, Rename(b)
    PROVE  PursuitInv'
<1>1. /\ Kept /\ pc[b] = "rename" /\ want[b] \in Version /\ using[b] \in Projector
      /\ part[b] \in 1..3 /\ None \notin Projector
      /\ \A k \in 1..3 : k < part[b] => file[want[b]][Part[k]] # None
  BY ResultPackagesAssumption DEF PursuitInv, Equipped, Rename, Kept, Over
<1>2. /\ file' = [file EXCEPT ![want[b]][Part[part[b]]] = using[b]]
      /\ UNCHANGED <<want, using>>
      /\ \A c \in Builder \ {b} : pc'[c] = pc[c] /\ part'[c] = part[c]
      /\ part[b] = 3 => pc'[b] = "answered"
      /\ part[b] # 3 => pc'[b] = "promote" /\ part'[b] = part[b] + 1
      /\ pc' \in [Builder -> Steps] /\ part' \in [Builder -> 1..3]
  <2>1. CASE part[b] = 3
    <3>1. pc' = [pc EXCEPT ![b] = "answered"] /\ part' = part
      BY <2>1 DEF Rename, Go, Answer
    <3> QED BY <1>1, <2>1, <3>1 DEF Rename, Kept, Steps, Over
  <2>2. CASE part[b] # 3
    <3>1. pc' = [pc EXCEPT ![b] = "promote"] /\ part' = [part EXCEPT ![b] = part[b] + 1]
      BY <2>2 DEF Rename, Go
    <3>2. part[b] + 1 \in 1..3
      BY <1>1, <2>2
    <3> QED BY <1>1, <2>2, <3>1, <3>2 DEF Rename, Kept, Steps
  <2> QED BY <2>1, <2>2
<1>3. /\ \A v \in Version, q \in Parts :
            file'[v][q] = IF v = want[b] /\ q = Part[part[b]] THEN using[b] ELSE file[v][q]
      /\ file' \in [Version -> [Parts -> Projector \cup {None}]]
  BY <1>1, <1>2, PartFacts DEF Kept
<1>4. \A v \in Version, q \in Parts :
          file'[v][q] = None <=> file[v][q] = None /\ ~(v = want[b] /\ q = Part[part[b]])
  BY <1>1, <1>3
<1>5. Kept'
  BY <1>1, <1>2, <1>3 DEF Kept
<1>6. ASSUME NEW c \in Builder PROVE Equipped(c)'
  <2>1. CASE c = b
    BY <1>1, <1>2, <1>4, <2>1, PartFacts DEF Equipped, Over
  <2>2. CASE c # b
    BY <1>2, <1>4, <2>2, PartFacts DEF PursuitInv, Equipped, Over
  <2> QED BY <2>1, <2>2
<1>7. InOrder'
  <2> SUFFICES ASSUME NEW v \in Version, NEW j \in 1..3, NEW k \in 1..3, j < k, file'[v][Part[k]] # None
               PROVE  file'[v][Part[j]] # None
    BY DEF InOrder
  <2>1. CASE file[v][Part[k]] # None
    BY <1>4, <2>1, PartFacts DEF PursuitInv, InOrder
  <2>2. CASE file[v][Part[k]] = None
    <3>1. v = want[b] /\ Part[k] = Part[part[b]]
      BY <1>4, <2>2, PartFacts
    <3>2. k = part[b]
      BY <1>1, <3>1, PartFacts
    <3> QED BY <1>1, <1>4, <3>1, <3>2, PartFacts
  <2> QED BY <2>1, <2>2
<1>8. BegunIsPursued'
  <2> SUFFICES ASSUME NEW v \in Partial'
               PROVE  \E c \in Builder : pc'[c] \in {"killed", "broken"} \/ Completes(c, v)'
    BY DEF BegunIsPursued
  <2>1. v \in Version
    BY DEF Partial
  <2>2. CASE v = want[b] /\ file[v][Part[part[b]]] = None
    <3>1. part[b] # 3
      <4> SUFFICES ASSUME part[b] = 3 PROVE FALSE
        OBVIOUS
      <4>1. \A q \in Parts : file'[v][q] # None
        BY <1>1, <1>4, <2>2, PartFacts
      <4> QED BY <4>1 DEF Partial, Present
    <3>2. file[v][Part[part[b] + 1]] = None
      BY <1>1, <2>1, <2>2, <3>1 DEF PursuitInv, InOrder
    <3>3. file'[v][Part[part[b] + 1]] = None
      BY <1>1, <1>4, <2>1, <3>1, <3>2, PartFacts
    <3> QED BY <1>2, <2>2, <3>1, <3>3 DEF Completes
  <2>3. CASE ~(v = want[b] /\ file[v][Part[part[b]]] = None)
    <3>1. \A q \in Parts : file'[v][q] = None <=> file[v][q] = None
      BY <1>4, <2>1, <2>3
    <3>2. v \in Partial
      BY <2>1, <3>1 DEF Partial, Present
    <3>3. PICK c \in Builder : pc[c] \in {"killed", "broken"} \/ Completes(c, v)
      BY <3>2 DEF PursuitInv, BegunIsPursued
    <3>4. c # b
      BY <1>1, <2>3, <3>3 DEF Completes
    <3>5. part[c] \in 1..3
      BY <1>1 DEF Kept
    <3> QED BY <1>2, <3>1, <3>3, <3>4, <3>5, PartFacts DEF Completes
  <2> QED BY <2>2, <2>3
<1> QED BY <1>5, <1>6, <1>7, <1>8 DEF PursuitInv

\* Whatever builders race, for whichever versions: no set that was begun is given up by
\* all of them unless one is killed or cannot write.
THEOREM SetsArePursued == Spec => []BegunIsPursued
<1>1. PursuitInv /\ [Next]_vars => PursuitInv'
  <2> SUFFICES ASSUME PursuitInv, [Next]_vars PROVE PursuitInv'
    OBVIOUS
  <2>1. ASSUME NEW b \in Builder, Begin(b) \/ Build(b) \/ IoError(b) \/ Kill(b) PROVE PursuitInv'
    BY <2>1, QuietPursuit, RenamePursuit DEF Build
  <2>2. CASE Activate
    BY <2>2 DEF Activate, PursuitInv, Kept, Equipped, InOrder, BegunIsPursued, Completes, Partial, Present
  <2>3. CASE UNCHANGED vars
    BY <2>3 DEF vars, disk, PursuitInv, Kept, Equipped, InOrder, BegunIsPursued, Completes, Partial, Present
  <2> QED BY <2>1, <2>2, <2>3 DEF Next
<1>2. PursuitInv => BegunIsPursued
  BY DEF PursuitInv
<1> QED BY <1>1, <1>2, PursuitInit, PTL DEF Spec
=============================================================================
