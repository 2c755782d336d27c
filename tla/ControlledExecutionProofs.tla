---------------------- MODULE ControlledExecutionProofs ----------------------
(***************************************************************************)
(* Proofs about ControlledExecution for every set of processes, every      *)
(* batch order, every clock and every number of crashes: types, single use *)
(* and the agreement of finalizers that overlap; for one finalizer at a    *)
(* time the write-ahead order and the refinement of SingleUseTicket.       *)
(***************************************************************************)
EXTENDS ControlledExecution, TLAPS

\* A process that finalizes holds the receipt it finalizes with.
Entered == \A p \in Procs : pc[p] \in Finalizing => content[p] \in Content

\* The control part of the invariant, which Halt and Goto change.
ControlType ==
    /\ pc \in [Procs -> Labels]
    /\ fd \in [Procs -> {"none", "tmp", "final", "gone"}]
    /\ file \in [Procs -> Kinds]
    /\ content \in [Procs -> Content \cup {None}]
    /\ owner \in [Procs -> Procs \cup {None}]
    /\ journal \in [Procs -> JournalStates]
    /\ seen \in [Procs -> File]
    /\ Entered

\* The rest of it.
DataType ==
    /\ disk \in [Kinds -> File]
    /\ staged \in [Kinds -> File]
    /\ invoked \in [Ops -> Nat]
    /\ crashes \in 0 .. MaxCrashes
    /\ stamp \in [Procs -> Times \cup {None}]
    /\ batch \in [Procs -> 1 .. Len(Batches) + 1]
    /\ results \in [Procs -> [Ops -> {"none", "succeeded", "failed"}]]
    /\ extra \in [Procs -> BOOLEAN]

TypeInv == ControlType /\ DataType

\* The strengthened invariant implies type correctness.
LEMMA TypeInvImpliesTypeOK == TypeInv => TypeOK
BY DEF TypeInv, ControlType, DataType, TypeOK

-----------------------------------------------------------------------------
(* The helpers of the actions return values of their types. *)

\* A blank file of a legal state is a file.
LEMMA BlankType ==
    ASSUME NEW state \in FileStates
    PROVE  Blank(state) \in File
BY DEF Blank, File

\* The aggregation yields one of the three statuses.
LEMMA OverallStatusType ==
    ASSUME NEW p
    PROVE  OverallStatus(p) \in Statuses
BY DEF OverallStatus, Statuses

\* Every status has a terminal claim state.
LEMMA ClaimStateType ==
    ASSUME NEW status \in Statuses
    PROVE  STATUS_TO_CLAIM_STATE[status] \in Terminal
BY DEF Statuses, STATUS_TO_CLAIM_STATE, Terminal

\* The constant files are files, and Torn is not Absent.
LEMMA ConstantFiles ==
    /\ Absent \in File
    /\ Torn \in File
    /\ Torn # Absent
<1>1. "absent" \in FileStates /\ "torn" \in FileStates
  BY DEF FileStates
<1>2. Absent \in File /\ Torn \in File
  BY <1>1, BlankType DEF Absent, Torn
<1>3. Absent.state = "absent" /\ Torn.state = "torn"
  BY DEF Absent, Torn, Blank
<1> QED BY <1>2, <1>3

\* A claim record is a file and is not Absent.
LEMMA ClaimedType ==
    ASSUME TypeInv, NEW p \in Procs
    PROVE  Claimed(p) \in File /\ Claimed(p) # Absent
<1>1. "claimed" \in FileStates
  BY DEF FileStates
<1>2. Blank("claimed") \in File
  BY <1>1, BlankType
<1>3. stamp[p] \in Times \cup {None}
  BY DEF TypeInv, ControlType, DataType
<1>4. Claimed(p) \in File
  BY <1>2, <1>3 DEF Claimed, File
<1>5. Claimed(p).state = "claimed" /\ Absent.state = "absent"
  BY DEF Claimed, Blank, Absent
<1> QED BY <1>4, <1>5

\* A journal record is a file.
LEMMA JournalRecordType ==
    ASSUME TypeInv, NEW p \in Procs
    PROVE  JournalRecord(p) \in File
<1>1. journal[p] \in FileStates
  BY DEF TypeInv, ControlType, JournalStates, FileStates
<1>2. Blank(journal[p]) \in File
  BY <1>1, BlankType
<1>3. owner[p] \in Procs \cup {None} /\ content[p] \in Content \cup {None}
  BY DEF TypeInv, ControlType, DataType
<1> QED BY <1>2, <1>3 DEF JournalRecord, File

\* What a finalizer writes into a temporary file is a file, and a claim it writes
\* is terminal.
LEMMA DraftType ==
    ASSUME TypeInv, NEW p \in Procs, pc[p] \in Finalizing
    PROVE  /\ Draft(p) \in File
           /\ file[p] = "claim" => Draft(p).state \in Terminal
<1>1. content[p] \in Content
  BY DEF TypeInv, ControlType, Entered
<1>2. content[p].status \in Statuses
  BY <1>1 DEF Content
<1>3. STATUS_TO_CLAIM_STATE[content[p].status] \in Terminal
  BY <1>2, ClaimStateType
<1>4. seen[p] \in File
  BY DEF TypeInv, ControlType
<1>5. CASE file[p] = "claim"
  <2>1. Draft(p) = [seen[p] EXCEPT !.state = STATUS_TO_CLAIM_STATE[content[p].status],
                                   !.content = content[p]]
    BY <1>5 DEF Draft
  <2>2. Terminal \subseteq FileStates
    BY DEF FileStates
  <2> QED BY <1>1, <1>3, <1>4, <2>1, <2>2 DEF File
<1>6. CASE file[p] = "journal"
  <2>1. Draft(p) = JournalRecord(p)
    BY <1>6 DEF Draft
  <2> QED BY <1>6, <2>1, JournalRecordType
<1>7. CASE file[p] \notin {"claim", "journal"}
  <2>1. Draft(p) = [Blank("written") EXCEPT !.content = content[p]]
    BY <1>7 DEF Draft
  <2>2. "written" \in FileStates
    BY DEF FileStates
  <2>3. Blank("written") \in File
    BY <2>2, BlankType
  <2> QED BY <1>1, <1>7, <2>1, <2>3 DEF File
<1> QED BY <1>5, <1>6, <1>7

-----------------------------------------------------------------------------
(* Type correctness *)

\* The initial state is well typed.
LEMMA TypeInit == Init => TypeInv
<1> SUFFICES ASSUME Init PROVE TypeInv
  OBVIOUS
<1>1. Entered
  BY DEF Init, Entered, Finalizing
<1>2. ControlType
  BY <1>1, ConstantFiles DEF Init, ControlType, Labels, JournalStates, Kinds
<1>3. Len(Batches) \in Nat
  BY BatchesAssumption
<1>4. DataType
  BY <1>3, ConstantFiles, BoundAssumption DEF Init, DataType
<1> QED BY <1>2, <1>4 DEF TypeInv

\* A process that raises or is killed (Halt) leaves the types intact.
LEMMA HaltType ==
    ASSUME ControlType, NEW p \in Procs, Halt(p)
    PROVE  ControlType'
BY DEF ControlType, Halt, Goto, Entered, Finalizing, Labels

\* Entering the transaction with a legal receipt and owner.
LEMMA EnterType ==
    ASSUME ControlType, NEW p \in Procs, NEW what \in Content,
           NEW who \in Procs \cup {None}, Enter(p, what, who)
    PROVE  ControlType'
BY DEF ControlType, Enter, Goto, Entered, Finalizing, Labels, JournalStates

\* A change of label outside the transaction, or inside it by a process that
\* has already entered.
LEMMA GotoType ==
    ASSUME ControlType, NEW p \in Procs, NEW label \in Labels, Goto(p, label),
           label \in Finalizing => pc[p] \in Finalizing,
           UNCHANGED finalizing
    PROVE  ControlType'
BY DEF ControlType, Goto, Entered, finalizing

\* The actions of the child before the transaction.
LEMMA ExecuteType ==
    ASSUME TypeInv, NEW p \in Procs, Execute(p)
    PROVE  TypeInv'
<1> USE DEF TypeInv
<1>1. ControlType /\ DataType
  OBVIOUS
<1>2. CASE Load(p)
  <2>1. ControlType'
    <3>1. "evaluate" \in Labels /\ "evaluate" \notin Finalizing
      BY DEF Labels, Finalizing
    <3> QED BY <1>1, <1>2, <3>1, GotoType, HaltType DEF Load
  <2>2. DataType'
    BY <1>1, <1>2 DEF Load, DataType, storage, executing
  <2> QED BY <2>1, <2>2
<1>3. CASE Evaluate(p)
  <2>1. ControlType'
    <3>1. "claim" \in Labels /\ "claim" \notin Finalizing
      BY DEF Labels, Finalizing
    <3> QED BY <1>1, <1>3, <3>1, GotoType, HaltType DEF Evaluate
  <2>2. DataType'
    BY <1>1, <1>3 DEF Evaluate, DataType, storage
  <2> QED BY <2>1, <2>2
<1>4. CASE OpenClaim(p)
  <2>1. ControlType'
    <3>1. "writeClaim" \in Labels /\ "writeClaim" \notin Finalizing
      BY DEF Labels, Finalizing
    <3> QED BY <1>1, <1>4, <3>1, GotoType, HaltType DEF OpenClaim
  <2>2. DataType'
    BY <1>1, <1>4, ConstantFiles DEF OpenClaim, DataType, executing
  <2> QED BY <2>1, <2>2
<1>5. CASE WriteClaim(p)
  <2>1. ControlType'
    <3>1. "syncClaim" \in Labels /\ "syncClaim" \notin Finalizing
      BY DEF Labels, Finalizing
    <3> QED BY <1>1, <1>5, <3>1, GotoType DEF WriteClaim
  <2>2. Claimed(p) \in File
    BY ClaimedType
  <2>3. DataType'
    BY <1>1, <1>5, <2>2 DEF WriteClaim, DataType, executing
  <2> QED BY <2>1, <2>3
<1>8. CASE ConfirmClaim(p)
  <2>1. ControlType'
    <3>1. "dispatch" \in Labels /\ "dispatch" \notin Finalizing
      BY DEF Labels, Finalizing
    <3> QED BY <1>1, <1>8, <3>1, GotoType DEF ConfirmClaim
  <2>2. DataType'
    BY <1>1, <1>8 DEF ConfirmClaim, DataType, storage, executing
  <2> QED BY <2>1, <2>2
<1>6. CASE DispatchBatch(p)
  <2> DEFINE ops == Batches[batch[p]]
  <2>1. ControlType'
    BY <1>1, <1>6, HaltType DEF DispatchBatch, ControlType, finalizing, Entered
  <2>2. batch[p] + 1 \in 1 .. Len(Batches) + 1
    <3>1. Len(Batches) \in Nat
      BY BatchesAssumption
    <3>2. batch[p] \in 1 .. Len(Batches)
      BY <1>6 DEF DispatchBatch
    <3> QED BY <3>1, <3>2
  <2>3. invoked' \in [Ops -> Nat]
    <3>1. \/ UNCHANGED invoked
          \/ invoked' = [o \in Ops |-> IF o \in ops THEN invoked[o] + 1 ELSE invoked[o]]
      BY <1>6 DEF DispatchBatch
    <3>2. invoked \in [Ops -> Nat]
      BY <1>1 DEF DataType
    <3> HIDE DEF ops
    <3> QED BY <3>1, <3>2
  <2>4. results' \in [Procs -> [Ops -> {"none", "succeeded", "failed"}]]
    <3>1. CASE UNCHANGED results
      BY <1>1, <3>1 DEF DataType
    <3>2. CASE results' # results
      <4>1. PICK answer \in [ops -> {"succeeded", "failed"}] :
              results' = [results EXCEPT ![p] =
                 [o \in Ops |-> IF o \in ops THEN answer[o] ELSE results[p][o]]]
        BY <1>6, <3>2, Zenon DEF DispatchBatch
      <4>2. results[p] \in [Ops -> {"none", "succeeded", "failed"}]
        BY <1>1 DEF DataType
      <4>3. [o \in Ops |-> IF o \in ops THEN answer[o] ELSE results[p][o]]
              \in [Ops -> {"none", "succeeded", "failed"}]
        BY <4>2
      <4> HIDE DEF ops
      <4> QED BY <1>1, <4>1, <4>3 DEF DataType
    <3> QED BY <3>1, <3>2
  <2>5. extra' \in [Procs -> BOOLEAN]
    <3>1. \/ \E b \in BOOLEAN : extra' = [extra EXCEPT ![p] = @ \/ b]
          \/ UNCHANGED extra
      BY <1>6, Zenon DEF DispatchBatch
    <3>2. \A b \in BOOLEAN : (extra[p] \/ b) \in BOOLEAN
      OBVIOUS
    <3> QED BY <1>1, <3>1, <3>2 DEF DataType
  <2>7. batch' \in [Procs -> 1 .. Len(Batches) + 1]
    <3>1. batch' = [batch EXCEPT ![p] = @ + 1] \/ UNCHANGED batch
      BY <1>6, Zenon DEF DispatchBatch
    <3> QED BY <1>1, <2>2, <3>1 DEF DataType
  <2>6. DataType'
    BY <1>1, <1>6, <2>3, <2>4, <2>5, <2>7 DEF DispatchBatch, DataType, storage
  <2> QED BY <2>1, <2>6
<1>7. CASE Conclude(p)
  <2>1. \A now \in Times : [status |-> OverallStatus(p), at |-> now] \in Content
    BY OverallStatusType DEF Content
  <2>2. ControlType'
    BY <1>1, <1>7, <2>1, EnterType, HaltType DEF Conclude
  <2>3. DataType'
    BY <1>1, <1>7 DEF Conclude, DataType, storage, executing
  <2> QED BY <2>2, <2>3
<1> QED BY <1>2, <1>3, <1>4, <1>5, <1>6, <1>7, <1>8 DEF Execute

\* The steps of the finalization transaction.
LEMMA FinalizeType ==
    ASSUME TypeInv, NEW p \in Procs, Finalize(p)
    PROVE  TypeInv'
<1> USE DEF TypeInv
<1>1. ControlType /\ DataType
  OBVIOUS
<1>2. CASE Acquire(p)
  <2>1. {"open", "cas", "verify", "writeJournal", "acquire"} \subseteq Labels \cap Finalizing
    BY DEF Labels, Finalizing
  <2>2. disk["journal"] \in File
    BY <1>1 DEF DataType, Kinds
  <2>3. disk["journal"].by \in Procs \cup {None}
    BY <2>2 DEF File
  <2>6. DataType'
    BY <1>1, <1>2, ConstantFiles DEF Acquire, DataType, executing
  <2>7. ControlType'
    <3>1. CASE /\ Goto(p, "open")
               /\ file' = [file EXCEPT ![p] = "receipt"]
               /\ UNCHANGED <<disk, fd, content, owner, journal, seen>>
      BY <1>1, <1>2, <2>1, <3>1 DEF Acquire, ControlType, Goto, Entered, Kinds
    <3>2. CASE /\ disk["journal"].state \in {"artifacts_committed", "claim_committed"}
               /\ owner' = [owner EXCEPT ![p] = disk["journal"].by]
               /\ journal' = [journal EXCEPT ![p] = disk["journal"].state]
               /\ Goto(p, IF disk["journal"].state = "claim_committed" THEN "verify" ELSE "cas")
               /\ UNCHANGED <<disk, file, fd, content, seen>>
      BY <1>1, <1>2, <2>1, <2>3, <3>2
      DEF Acquire, ControlType, Goto, Entered, JournalStates
    <3>3. CASE /\ Goto(p, "writeJournal")
               /\ file' = [file EXCEPT ![p] = "journal"]
               /\ fd' = [fd EXCEPT ![p] = "final"]
               /\ UNCHANGED <<content, owner, journal, seen>>
      BY <1>1, <1>2, <2>1, <3>3 DEF Acquire, ControlType, Goto, Entered, Kinds
    <3>4. CASE Halt(p)
      BY <1>1, <3>4, HaltType
    <3> QED BY <1>2, <3>1, <3>2, <3>3, <3>4, Zenon DEF Acquire
  <2> QED BY <2>6, <2>7
<1>3. CASE WriteJournal(p)
  <2>1. JournalRecord(p) \in File
    BY JournalRecordType
  <2>2. ControlType'
    BY <1>1, <1>3 DEF WriteJournal, ControlType, Goto, Entered, Finalizing, Labels,
                      finalizing
  <2>3. DataType'
    BY <1>1, <1>3, <2>1 DEF WriteJournal, DataType, executing
  <2> QED BY <2>2, <2>3
<1>9. CASE ConfirmJournal(p)
  <2>1. ControlType'
    BY <1>1, <1>9, HaltType
    DEF ConfirmJournal, ControlType, Goto, Entered, Finalizing, Labels, Kinds
  <2>2. DataType'
    BY <1>1, <1>9 DEF ConfirmJournal, DataType, storage, executing
  <2> QED BY <2>1, <2>2
<1>4. CASE Open(p)
  <2>1. ControlType'
    BY <1>1, <1>4 DEF Open, ControlType, Goto, Entered, Finalizing, Labels
  <2>2. DataType'
    BY <1>1, <1>4, ConstantFiles DEF Open, DataType, executing
  <2> QED BY <2>1, <2>2
<1>5. CASE Fill(p)
  <2>1. pc[p] \in Finalizing
    BY <1>5 DEF Fill, Finalizing
  <2>2. Draft(p) \in File
    BY <2>1, DraftType
  <2>3. DataType'
    BY <1>1, <1>5, <2>2 DEF Fill, DataType, executing
  <2>4. ControlType'
    <3>1. CASE Halt(p)
      BY <1>1, <3>1, HaltType
    <3>2. CASE ~ Halt(p)
      <4>1. /\ fd' = [fd EXCEPT ![p] = "none"]
            /\ file' = [file EXCEPT ![p] = CASE file[p] = "receipt" -> "bundle"
                                             [] file[p] = "bundle" -> "receipt"
                                             [] OTHER -> file[p]]
            /\ Goto(p, IF file[p] = "receipt" THEN "open" ELSE "promote")
            /\ UNCHANGED <<content, owner, journal, seen>>
        BY <1>5, <3>2, Zenon DEF Fill
      <4>2. (CASE file[p] = "receipt" -> "bundle"
               [] file[p] = "bundle" -> "receipt"
               [] OTHER -> file[p]) \in Kinds
        BY <1>1 DEF ControlType, Kinds
      <4> QED BY <1>1, <2>1, <4>1, <4>2 DEF ControlType, Goto, Entered, Finalizing, Labels
    <3> QED BY <3>1, <3>2
  <2> QED BY <2>3, <2>4
<1>6. CASE Promote(p)
  <2> DEFINE kind == file[p]
  <2>1. pc[p] \in Finalizing
    BY <1>6 DEF Promote, Finalizing
  <2>2. DataType'
    <3>1. kind \in Kinds
      BY <1>1 DEF ControlType
    <3>2. \/ /\ disk' = [disk EXCEPT ![kind] = staged[kind]]
             /\ staged' = [staged EXCEPT ![kind] = Absent]
          \/ UNCHANGED <<disk, staged>>
      BY <1>6, Zenon DEF Promote, storage
    <3>3. disk' \in [Kinds -> File] /\ staged' \in [Kinds -> File]
      BY <1>1, <3>1, <3>2, ConstantFiles DEF DataType
    <3>4. UNCHANGED <<executing, crashes>>
      BY <1>6 DEF Promote
    <3> QED BY <1>1, <3>3, <3>4 DEF DataType, executing
  <2>3. ControlType'
    <3>1. CASE Halt(p)
      BY <1>1, <3>1, HaltType
    <3>2. CASE ~ Halt(p)
      <4>1. /\ fd' = FollowInode(kind)
            /\ file' = [file EXCEPT ![p] = IF kind = "receipt" THEN "bundle" ELSE "journal"]
            /\ journal' = [journal EXCEPT ![p] = CASE kind = "bundle" -> "artifacts_committed"
                                                   [] kind = "claim" -> "claim_committed"
                                                   [] OTHER -> journal[p]]
            /\ Goto(p, CASE kind = "receipt" -> "promote"
                         [] kind \in {"bundle", "claim"} -> "open"
                         [] kind = "journal" /\ journal[p] = "artifacts_committed" -> "cas"
                         [] OTHER -> "verify")
            /\ UNCHANGED <<content, owner, seen>>
        BY <1>6, <3>2, Zenon DEF Promote
      <4>2. fd' \in [Procs -> {"none", "tmp", "final", "gone"}]
        BY <1>1, <4>1 DEF FollowInode, ControlType
      <4>3. journal' \in [Procs -> JournalStates]
        <5>1. (CASE kind = "bundle" -> "artifacts_committed"
                 [] kind = "claim" -> "claim_committed"
                 [] OTHER -> journal[p]) \in JournalStates
          BY <1>1 DEF ControlType, JournalStates
        <5> QED BY <1>1, <4>1, <5>1 DEF ControlType
      <4>4. pc' \in [Procs -> Labels] /\ Entered'
        <5>1. (CASE kind = "receipt" -> "promote"
                 [] kind \in {"bundle", "claim"} -> "open"
                 [] kind = "journal" /\ journal[p] = "artifacts_committed" -> "cas"
                 [] OTHER -> "verify") \in Labels
          BY DEF Labels, Finalizing
        <5> QED BY <1>1, <2>1, <4>1, <5>1 DEF ControlType, Goto, Entered
      <4>5. file' \in [Procs -> Kinds]
        BY <1>1, <4>1 DEF ControlType, Kinds
      <4> QED BY <1>1, <4>1, <4>2, <4>3, <4>4, <4>5 DEF ControlType
    <3> QED BY <3>1, <3>2
  <2> QED BY <2>2, <2>3
<1>7. CASE CasGuard(p)
  <2>1. disk["claim"] \in File
    BY <1>1 DEF DataType, Kinds
  <2>2. ControlType'
    BY <1>1, <1>7, <2>1, HaltType
    DEF CasGuard, ControlType, Goto, Entered, Finalizing, Labels, Kinds, JournalStates
  <2>3. DataType'
    BY <1>1, <1>7 DEF CasGuard, DataType, storage, executing
  <2> QED BY <2>2, <2>3
<1>8. CASE Verify(p)
  <2>1. "done" \in Labels /\ "done" \notin Finalizing
    BY DEF Labels, Finalizing
  <2>2. ControlType'
    BY <1>1, <1>8, <2>1, GotoType, HaltType DEF Verify
  <2>3. DataType'
    BY <1>1, <1>8 DEF Verify, DataType, storage, executing
  <2> QED BY <2>2, <2>3
<1> QED BY <1>2, <1>3, <1>4, <1>5, <1>6, <1>7, <1>8, <1>9 DEF Finalize

\* Every step keeps the types.
LEMMA TypeStep == TypeInv /\ [Next]_vars => TypeInv'
<1> SUFFICES ASSUME TypeInv, [Next]_vars PROVE TypeInv'
  OBVIOUS
<1> USE DEF TypeInv
<1>1. ControlType /\ DataType
  OBVIOUS
<1>2. ASSUME NEW p \in Executors, Execute(p) PROVE TypeInv'
  BY <1>2, ExecuteType DEF Procs
<1>3. ASSUME NEW p \in Procs, Finalize(p) PROVE TypeInv'
  BY <1>3, FinalizeType
<1>4. ASSUME NEW p \in Repeaters, Repeat(p) PROVE TypeInv'
  <2>1. p \in Procs
    BY DEF Procs
  <2>2. PICK c \in Executors, now \in Times :
          Enter(p, [status |-> OverallStatus(c), at |-> now], p)
    BY <1>4 DEF Repeat
  <2>3. [status |-> OverallStatus(c), at |-> now] \in Content
    BY OverallStatusType DEF Content
  <2>4. ControlType'
    BY <1>1, <2>1, <2>2, <2>3, EnterType
  <2>5. DataType'
    BY <1>1, <1>4 DEF Repeat, DataType, storage, executing
  <2> QED BY <2>4, <2>5
<1>5. ASSUME NEW p \in Recoverers, NEW what \in Content, Recover(p, what) PROVE TypeInv'
  <2>1. p \in Procs
    BY DEF Procs
  <2>2. disk["journal"].by \in Procs \cup {None}
    BY <1>1 DEF DataType, Kinds, File
  <2>3. ControlType'
    BY <1>1, <1>5, <2>1, <2>2, EnterType DEF Recover
  <2>4. DataType'
    BY <1>1, <1>5 DEF Recover, DataType, storage, executing
  <2> QED BY <2>3, <2>4
<1>6. ASSUME NEW p \in Procs, FailExclusive(p) PROVE TypeInv'
  <2>1. ControlType'
    <3>1. CASE Halt(p)
      BY <1>1, <3>1, HaltType
    <3>2. CASE Goto(p, "unlinkClaim") /\ UNCHANGED finalizing
      <4>1. "unlinkClaim" \in Labels /\ "unlinkClaim" \notin Finalizing
        BY DEF Labels, Finalizing
      <4> QED BY <1>1, <3>2, <4>1, GotoType
    <3>3. CASE /\ Goto(p, "unlinkJournal")
               /\ pc[p] \in {"writeJournal", "syncJournal"}
               /\ UNCHANGED finalizing
      <4>1. "unlinkJournal" \in Labels /\ pc[p] \in Finalizing
        BY <3>3 DEF Labels, Finalizing
      <4> QED BY <1>1, <3>3, <4>1, GotoType
    <3> QED BY <1>6, <3>1, <3>2, <3>3 DEF FailExclusive
  <2>2. crashes' \in 0 .. MaxCrashes
    BY <1>1, <1>6, BoundAssumption DEF FailExclusive, DataType
  <2>3. DataType'
    BY <1>1, <1>6, <2>2 DEF FailExclusive, DataType, storage, executing
  <2> QED BY <2>1, <2>3
<1>9. ASSUME NEW p \in Procs, Unlink(p) PROVE TypeInv'
  <2>1. PICK kind \in {"claim", "journal"} :
          /\ disk' = [disk EXCEPT ![kind] = Absent]
          /\ fd' = [q \in Procs |->
                CASE q = p -> "none"
                  [] q # p /\ file[q] = kind /\ fd[q] = "final" -> "gone"
                  [] OTHER -> fd[q]]
    BY <1>9 DEF Unlink
  <2>2. fd' \in [Procs -> {"none", "tmp", "final", "gone"}]
    BY <1>1, <2>1 DEF ControlType
  <2>3. pc' \in [Procs -> Labels] /\ Entered'
    BY <1>1, <1>9 DEF Unlink, Goto, ControlType, Entered, Labels, Finalizing
  <2>4. ControlType'
    BY <1>1, <1>9, <2>2, <2>3 DEF Unlink, ControlType
  <2>5. disk' \in [Kinds -> File]
    BY <1>1, <2>1, ConstantFiles DEF DataType
  <2>6. DataType'
    BY <1>1, <1>9, <2>5 DEF Unlink, DataType, executing
  <2> QED BY <2>4, <2>6
<1>7. ASSUME NEW p \in Procs, Crash(p) PROVE TypeInv'
  <2>1. ControlType'
    BY <1>1, <1>7, HaltType DEF Crash
  <2>2. DataType'
    BY <1>1, <1>7, BoundAssumption DEF Crash, DataType, executing, storage
  <2> QED BY <2>1, <2>2
<1>8. ASSUME UNCHANGED vars PROVE TypeInv'
  BY <1>1, <1>8
  DEF vars, storage, executing, finalizing, ControlType, DataType, Entered
<1> QED BY <1>2, <1>3, <1>4, <1>5, <1>6, <1>7, <1>8, <1>9 DEF Next

\* The directory and the memory of every process keep their types, for every set of
\* processes and operations and however the writers of a file overlap.
THEOREM TypeCorrect == Spec => []TypeOK
<1>1. Spec => []TypeInv
  BY TypeInit, TypeStep, PTL DEF Spec
<1> QED BY <1>1, TypeInvImpliesTypeOK, PTL

-----------------------------------------------------------------------------
(***************************************************************************)
(* Single use.  The strengthening follows the claim file through its early *)
(* life: while it is absent, not confirmed by its child, or held by a child *)
(* with batches left, nobody finalizes, so only that child can touch it,   *)
(* and it may still take back only what it did not use.  That is why       *)
(* the guard of OpenClaim and the order claim, dispatch, finalize are      *)
(* enough, however the finalizers overlap later.                           *)
(***************************************************************************)

Confirming == {"writeClaim", "syncClaim", "unlinkClaim"}
Claiming == Confirming \cup {"dispatch"}

Dispatching(p) == pc[p] = "dispatch" /\ batch[p] <= Len(Batches)

Early ==
    \/ disk["claim"] = Absent
    \/ \E p \in Procs : pc[p] \in Confirming \/ Dispatching(p)

OneClaimant ==
    /\ \A p, q \in Procs : pc[p] \in Claiming /\ pc[q] \in Claiming => p = q
    /\ \A p \in Procs : pc[p] \in Claiming => disk["claim"] # Absent

ClaimHeld ==
    /\ \A p \in Procs : pc[p] = "writeClaim" => disk["claim"] = Torn
    /\ \A p \in Procs : pc[p] = "unlinkClaim" => disk["claim"] \in {Torn, Claimed(p)}
    /\ \A p \in Procs : pc[p] = "syncClaim" \/ Dispatching(p) => disk["claim"] = Claimed(p)

\* A child that has not confirmed its claim has its whole dispatch before it.
Undispatched ==
    \A c \in Executors : pc[c] \in {"idle", "evaluate", "claim"} \cup Confirming => batch[c] = 1

Unexpired ==
    \A p \in Procs : pc[p] \in {"claim"} \cup Claiming =>
        p \in Executors /\ stamp[p] \in Times /\ stamp[p] < ExpiresAt

FinalizedLater ==
    Early => disk["journal"] = Absent /\ \A p \in Procs : pc[p] \notin Finalizing

Unused ==
    /\ \A o \in Ops : invoked[o] # 0 =>
            disk["claim"] # Absent /\ \A p \in Procs : pc[p] \notin Confirming
    /\ \A p \in Procs : pc[p] = "dispatch" =>
            \A i \in batch[p] .. Len(Batches) : \A o \in Batches[i] : invoked[o] = 0

SingleUse ==
    /\ OneClaimant
    /\ ClaimHeld
    /\ Undispatched
    /\ Unexpired
    /\ FinalizedLater
    /\ Unused
    /\ AtMostOneInvocation

\* Before any child starts, no claim exists and nothing was invoked.
LEMMA SingleUseInit == Init => SingleUse
<1> SUFFICES ASSUME Init PROVE SingleUse
  OBVIOUS
<1>1. \A p \in Procs : pc[p] = "idle"
  BY DEF Init
<1>2. OneClaimant /\ ClaimHeld /\ Unexpired
  BY <1>1 DEF OneClaimant, ClaimHeld, Unexpired, Claiming, Confirming, Dispatching
<1>3. FinalizedLater
  BY <1>1 DEF Init, FinalizedLater, Finalizing, Kinds
<1>4. Unused /\ AtMostOneInvocation
  BY <1>1 DEF Init, Unused, AtMostOneInvocation
<1>5. Undispatched
  BY DEF Init, Undispatched, Procs
<1> QED BY <1>2, <1>3, <1>4, <1>5 DEF SingleUse

\* A step of one process that leaves the files and the dispatch alone and does not
\* bring the process closer to a claim or into the transaction.
LEMMA Withdraw ==
    ASSUME TypeInv, SingleUse, NEW p \in Procs, NEW label \in Labels, Goto(p, label),
           label \notin {"claim"} \cup Claiming \cup Finalizing,
           p \in Executors /\ label \in {"idle", "evaluate"} => batch[p] = 1,
           UNCHANGED <<disk, invoked, stamp, batch>>
    PROVE  SingleUse'
<1>1. \A q \in Procs : pc'[q] = pc[q] \/ pc'[q] \notin {"claim"} \cup Claiming \cup Finalizing
  BY DEF TypeInv, ControlType, Goto
<1>2. Early' => Early
  BY <1>1 DEF Early, Dispatching, Claiming
<1>3. OneClaimant'
  BY <1>1 DEF SingleUse, OneClaimant
<1>4. ClaimHeld'
  BY <1>1 DEF SingleUse, ClaimHeld, Dispatching, Claiming, Confirming, Claimed
<1>5. Unexpired'
  BY <1>1 DEF SingleUse, Unexpired
<1>6. FinalizedLater'
  BY <1>1, <1>2 DEF SingleUse, FinalizedLater
<1>7. Unused' /\ AtMostOneInvocation'
  BY <1>1 DEF SingleUse, Unused, AtMostOneInvocation, Claiming
<1>8. Undispatched'
  <2>1. pc' = [pc EXCEPT ![p] = label] /\ pc \in [Procs -> Labels]
    BY DEF TypeInv, ControlType, Goto
  <2> QED BY <2>1 DEF SingleUse, Undispatched, Claiming, Procs
<1> QED BY <1>3, <1>4, <1>5, <1>6, <1>7, <1>8 DEF SingleUse

\* A process that raises or is killed withdraws from the ticket.
LEMMA HaltWithdraws ==
    ASSUME TypeInv, SingleUse, NEW p \in Procs, Halt(p),
           UNCHANGED <<disk, invoked, stamp, batch>>
    PROVE  SingleUse'
<1>1. PICK label \in {"idle", "stopped"} :
        Goto(p, label) /\ (p \notin Recoverers => label = "stopped")
  BY DEF Halt
<1>2. label \in Labels /\ label \notin {"claim"} \cup Claiming \cup Finalizing
  BY DEF Labels, Claiming, Confirming, Finalizing
<1>3. p \in Executors => label \notin {"idle", "evaluate"}
  BY <1>1, ProcsAssumption
<1> QED BY <1>1, <1>2, <1>3, Withdraw

\* A process that finalizes or enters the transaction once the dispatch is over: the
\* claim stays and no child can claim or dispatch any more.
LEMMA LateStep ==
    ASSUME TypeInv, SingleUse, ~ Early, NEW p \in Procs, NEW label \in Labels,
           Goto(p, label), label \notin {"claim", "evaluate"} \cup Claiming,
           p \in Executors => label # "idle",
           disk'["claim"] # Absent, UNCHANGED <<invoked, stamp, batch>>
    PROVE  SingleUse'
<1>0. pc' = [pc EXCEPT ![p] = label] /\ pc \in [Procs -> Labels]
  BY DEF TypeInv, ControlType, Goto
<1>1. \A q \in Procs : pc'[q] = pc[q] \/ pc'[q] \notin {"claim"} \cup Claiming
  BY <1>0
<1>2. \A q \in Procs : pc'[q] \notin Confirming /\ ~ Dispatching(q)'
  BY <1>1 DEF Early, Dispatching, Claiming
<1>3. ~ Early'
  BY <1>2 DEF Early
<1>4. OneClaimant'
  BY <1>1 DEF SingleUse, OneClaimant
<1>5. ClaimHeld'
  BY <1>2 DEF ClaimHeld, Confirming
<1>6. Unexpired'
  BY <1>1 DEF SingleUse, Unexpired
<1>7. FinalizedLater'
  BY <1>3 DEF FinalizedLater
<1>8. Unused' /\ AtMostOneInvocation'
  BY <1>1, <1>2 DEF SingleUse, Unused, AtMostOneInvocation, Claiming
<1>9. Undispatched'
  BY <1>0 DEF SingleUse, Undispatched, Claiming, Procs
<1> QED BY <1>4, <1>5, <1>6, <1>7, <1>8, <1>9 DEF SingleUse

\* A finalizer changes the claim file only by writing or promoting a claim.
LEMMA FinalizeKeepsClaim ==
    ASSUME TypeInv, SingleUse, NEW p \in Procs, Finalize(p)
    PROVE  ~ Early /\ disk'["claim"] # Absent /\ UNCHANGED <<invoked, stamp, batch>>
<1>1. pc[p] \in Finalizing
  BY DEF Finalize, Finalizing, Acquire, WriteJournal, ConfirmJournal, Open, Fill, Promote,
         CasGuard, Verify
<1>2. ~ Early
  BY <1>1 DEF SingleUse, FinalizedLater
<1>3. disk["claim"] # Absent
  BY <1>2 DEF Early
<1>4. UNCHANGED <<invoked, stamp, batch>>
  BY DEF Finalize, Acquire, WriteJournal, ConfirmJournal, Open, Fill, Promote, CasGuard,
         Verify, executing
<1>5. disk \in [Kinds -> File] /\ file[p] \in Kinds /\ "claim" \in Kinds
  BY DEF TypeInv, ControlType, DataType, Kinds
<1>6. disk'["claim"] # Absent
  <2>1. CASE Acquire(p) \/ WriteJournal(p)
    BY <1>3, <1>5, <2>1 DEF Acquire, WriteJournal
  <2>2. CASE ConfirmJournal(p) \/ Open(p) \/ CasGuard(p) \/ Verify(p)
    BY <1>3, <2>2 DEF ConfirmJournal, Open, CasGuard, Verify, storage
  <2>3. CASE Fill(p)
    <3>1. file[p] = "claim" => Draft(p) # Absent
      <4>1. "absent" \notin Terminal /\ Absent.state = "absent"
        BY DEF Terminal, Absent, Blank
      <4> QED BY <1>1, <4>1, DraftType
    <3>2. disk' = disk \/ disk' = [disk EXCEPT ![file[p]] = Draft(p)]
      BY <2>3, Zenon DEF Fill
    <3> QED BY <1>3, <1>5, <3>1, <3>2
  <2>4. CASE Promote(p)
    <3>1. \/ disk' = disk
          \/ disk' = [disk EXCEPT ![file[p]] = staged[file[p]]] /\ staged[file[p]] # Absent
      BY <2>4, Zenon DEF Promote, storage
    <3> QED BY <1>3, <1>5, <3>1
  <2> QED BY <2>1, <2>2, <2>3, <2>4 DEF Finalize
<1> QED BY <1>2, <1>4, <1>6

\* A step of the finalization transaction (receipt.py) invokes nothing and cannot
\* bring the claim file back to its early life.
LEMMA FinalizeSingleUse ==
    ASSUME TypeInv, SingleUse, NEW p \in Procs, Finalize(p)
    PROVE  SingleUse'
<1>1. \/ Halt(p)
      \/ \E label \in Finalizing \cup {"done"} : Goto(p, label)
  BY DEF Finalize, Finalizing, Acquire, WriteJournal, ConfirmJournal, Open, Fill, Promote,
         CasGuard, Verify
<1>3. Halt(p) => Goto(p, "stopped") \/ (p \in Recoverers /\ Goto(p, "idle"))
  BY DEF Halt
<1>2. PICK label \in Labels : /\ Goto(p, label)
                              /\ label \notin {"claim", "evaluate"} \cup Claiming
                              /\ p \in Executors => label # "idle"
  BY <1>1, <1>3, ProcsAssumption DEF Labels, Finalizing, Claiming, Confirming
<1> QED BY <1>2, FinalizeKeepsClaim, LateStep

\* Entering the transaction: the claim is there, and confirmed.
LEMMA EnterSingleUse ==
    ASSUME TypeInv, SingleUse, NEW p \in Procs, NEW what, NEW who, Enter(p, what, who),
           \A q \in Procs : pc[q] \notin Confirming /\ ~ Dispatching(q),
           UNCHANGED <<disk, invoked, stamp, batch>>
    PROVE  SingleUse'
<1>1. disk["claim"] # Absent
  BY DEF Enter, ClaimReadable, Absent, Blank, Terminal
<1>2. ~ Early
  BY <1>1 DEF Early
<1>3. Goto(p, "acquire") /\ "acquire" \in Labels
        /\ "acquire" \notin {"claim", "evaluate", "idle"} \cup Claiming
  BY DEF Enter, Labels, Claiming, Confirming, Finalizing
<1> QED BY <1>1, <1>2, <1>3, LateStep

\* The claim file appears empty: nothing was invoked yet and nobody else claims.
LEMMA OpenClaimSingleUse ==
    ASSUME TypeInv, SingleUse, NEW p \in Executors, OpenClaim(p)
    PROVE  SingleUse'
<1>1. p \in Procs
  BY DEF Procs
<1>2. CASE Halt(p) /\ UNCHANGED disk
  BY <1>1, <1>2, HaltWithdraws DEF OpenClaim, executing
<1>3. CASE /\ disk["claim"] = Absent
           /\ disk' = [disk EXCEPT !["claim"] = Torn]
           /\ Goto(p, "writeClaim")
  <2>1. disk'["claim"] = Torn /\ disk'["journal"] = disk["journal"]
    BY <1>3 DEF TypeInv, DataType, Kinds
  <2>2. pc' = [pc EXCEPT ![p] = "writeClaim"] /\ pc \in [Procs -> Labels]
    BY <1>3 DEF Goto, TypeInv, ControlType
  <2>3. UNCHANGED <<invoked, stamp, batch>>
    BY DEF OpenClaim, executing
  <2>4. \A q \in Procs : pc[q] \notin Claiming
    BY <1>3 DEF SingleUse, OneClaimant
  <2>5. OneClaimant'
    BY <2>1, <2>2, <2>4, ConstantFiles DEF OneClaimant, Claiming, Confirming
  <2>6. ClaimHeld'
    BY <2>1, <2>2, <2>4 DEF ClaimHeld, Dispatching, Claiming, Confirming
  <2>7. Unexpired'
    BY <1>1, <2>2, <2>3 DEF SingleUse, Unexpired, Claiming, Confirming, OpenClaim
  <2>8. FinalizedLater'
    BY <1>3, <2>1, <2>2 DEF SingleUse, FinalizedLater, Early, Finalizing
  <2>9. \A o \in Ops : invoked[o] = 0
    BY <1>3 DEF SingleUse, Unused
  <2>10. Unused'
    BY <2>2, <2>3, <2>4, <2>9 DEF Unused, Claiming, Confirming
  <2>11. AtMostOneInvocation'
    BY <2>3 DEF SingleUse, AtMostOneInvocation
  <2>12. Undispatched'
    BY <1>1, <2>2, <2>3 DEF SingleUse, Undispatched, OpenClaim, Procs
  <2> QED BY <2>5, <2>6, <2>7, <2>8, <2>10, <2>11, <2>12 DEF SingleUse
<1> QED BY <1>2, <1>3 DEF OpenClaim

\* A child writes its claim, confirms it, or fails to and is about to remove it.
LEMMA ClaimStep ==
    ASSUME TypeInv, SingleUse, NEW p \in Procs, pc[p] \in Confirming,
           NEW label \in {"syncClaim", "unlinkClaim", "dispatch"}, Goto(p, label),
           disk'["journal"] = disk["journal"],
           disk'["claim"] = Claimed(p) \/ (label = "unlinkClaim" /\ disk'["claim"] = Torn),
           UNCHANGED <<invoked, stamp, batch>>
    PROVE  SingleUse'
<1>1. pc' = [pc EXCEPT ![p] = label] /\ pc \in [Procs -> Labels]
  BY DEF Goto, TypeInv, ControlType
<1>2. \A q \in Procs \ {p} : pc[q] \notin Claiming
  BY DEF SingleUse, OneClaimant, Claiming
<1>3. OneClaimant'
  BY <1>1, <1>2, ClaimedType, ConstantFiles DEF OneClaimant, Claiming, Confirming
<1>4. ClaimHeld'
  <2>1. Claimed(p)' = Claimed(p)
    BY DEF Claimed
  <2> QED BY <1>1, <1>2, <2>1 DEF ClaimHeld, Dispatching, Claiming, Confirming
<1>5. Unexpired'
  BY <1>1 DEF SingleUse, Unexpired, Claiming
<1>6. Early
  BY DEF Early
<1>7. FinalizedLater'
  BY <1>1, <1>6 DEF SingleUse, FinalizedLater, Finalizing
<1>8. \A o \in Ops : invoked[o] = 0
  BY DEF SingleUse, Unused
<1>9. Unused'
  <2>1. \A i \in 1 .. Len(Batches) : Batches[i] \subseteq Ops
    BY BatchesAssumption
  <2>2. \A q \in Procs : batch[q] \in 1 .. Len(Batches) + 1
    BY DEF TypeInv, DataType
  <2>3. Len(Batches) \in Nat
    BY BatchesAssumption
  <2>4. \A q \in Procs : batch[q] .. Len(Batches) \subseteq 1 .. Len(Batches)
    BY <2>2, <2>3
  <2> QED BY <1>1, <1>8, <2>1, <2>4 DEF Unused
<1>10. AtMostOneInvocation'
  BY DEF SingleUse, AtMostOneInvocation
<1>11. Undispatched'
  BY <1>1 DEF SingleUse, Undispatched, Procs
<1> QED BY <1>3, <1>4, <1>5, <1>7, <1>9, <1>10, <1>11 DEF SingleUse

\* The claim is written and then confirmed.
LEMMA WriteClaimSingleUse ==
    ASSUME TypeInv, SingleUse, NEW p \in Executors, WriteClaim(p) \/ ConfirmClaim(p)
    PROVE  SingleUse'
<1>1. p \in Procs
  BY DEF Procs
<1>2. pc[p] \in Confirming
  BY DEF WriteClaim, ConfirmClaim, Confirming
<1>3. disk'["claim"] = Claimed(p) /\ disk'["journal"] = disk["journal"]
  BY <1>1 DEF WriteClaim, ConfirmClaim, TypeInv, DataType, Kinds, SingleUse, ClaimHeld,
              storage
<1>4. Goto(p, "syncClaim") \/ Goto(p, "dispatch")
  BY DEF WriteClaim, ConfirmClaim
<1>5. UNCHANGED <<invoked, stamp, batch>>
  BY DEF WriteClaim, ConfirmClaim, executing
<1> QED BY <1>1, <1>2, <1>3, <1>4, <1>5, ClaimStep

\* A batch is dispatched by the holder, and its operations were not invoked before.
LEMMA DispatchSingleUse ==
    ASSUME TypeInv, SingleUse, NEW p \in Executors, DispatchBatch(p)
    PROVE  SingleUse' /\ disk["claim"] = Claimed(p) /\ Dispatching(p)
<1> DEFINE ops == Batches[batch[p]]
<1>1. p \in Procs
  BY DEF Procs
<1>2. Len(Batches) \in Nat /\ batch[p] \in 1 .. Len(Batches)
  BY BatchesAssumption DEF DispatchBatch
<1>3. Dispatching(p) /\ disk["claim"] = Claimed(p)
  BY <1>1, <1>2 DEF DispatchBatch, Dispatching, SingleUse, ClaimHeld
<1>4. UNCHANGED <<disk, stamp>>
  BY DEF DispatchBatch, storage
<1>5. \/ invoked' = [o \in Ops |-> IF o \in ops THEN invoked[o] + 1 ELSE invoked[o]]
      \/ UNCHANGED invoked
  BY Zenon DEF DispatchBatch
<1>6. \A o \in ops : invoked[o] = 0
  BY <1>1, <1>2 DEF DispatchBatch, SingleUse, Unused
<1>7. pc \in [Procs -> Labels] /\ batch \in [Procs -> 1 .. Len(Batches) + 1]
        /\ invoked \in [Ops -> Nat]
  BY DEF TypeInv, ControlType, DataType
<1>8. \/ pc' = pc /\ batch' = [batch EXCEPT ![p] = batch[p] + 1]
      \/ pc'[p] \in {"idle", "stopped"} /\ batch' = batch
         /\ \A q \in Procs \ {p} : pc'[q] = pc[q]
  BY <1>1, <1>7 DEF DispatchBatch, Halt, Goto
<1>9. \A q \in Procs \ {p} : pc[q] \notin Claiming /\ pc'[q] = pc[q]
  BY <1>1, <1>3, <1>8 DEF SingleUse, OneClaimant, Claiming, Dispatching
<1>10. pc'[p] \in {"dispatch", "idle", "stopped"}
  BY <1>3, <1>8 DEF Dispatching
<1>11. OneClaimant'
  BY <1>1, <1>3, <1>4, <1>9, <1>10, ClaimedType DEF OneClaimant, Claiming, Confirming
<1>12. ClaimHeld'
  <2>1. Claimed(p)' = Claimed(p)
    BY <1>4 DEF Claimed
  <2> QED BY <1>3, <1>4, <1>9, <1>10, <2>1 DEF ClaimHeld, Dispatching, Claiming, Confirming
<1>13. Unexpired'
  BY <1>1, <1>3, <1>4, <1>9, <1>10
  DEF SingleUse, Unexpired, Claiming, Confirming, Dispatching
<1>17. Undispatched'
  <2>1. pc'[p] # "idle"
    BY <1>1, <1>3, <1>7, <1>8, ProcsAssumption DEF DispatchBatch, Halt, Goto, Dispatching
  <2>2. \A q \in Procs \ {p} : batch'[q] = batch[q]
    BY <1>7, <1>8
  <2> QED BY <1>9, <1>10, <2>1, <2>2 DEF SingleUse, Undispatched, Confirming, Procs
<1>14. FinalizedLater'
  <2>1. Early
    BY <1>1, <1>3 DEF Early
  <2> QED BY <1>4, <1>9, <1>10, <2>1 DEF SingleUse, FinalizedLater, Finalizing
<1>15. Unused'
  <2>1. disk'["claim"] # Absent
    BY <1>1, <1>3, <1>4, ClaimedType
  <2>2. \A q \in Procs : pc'[q] \notin Confirming
    BY <1>9, <1>10 DEF Claiming, Confirming
  <2>3. ASSUME pc'[p] = "dispatch", NEW i \in batch'[p] .. Len(Batches), NEW o \in Batches[i]
        PROVE  invoked'[o] = 0
    <3>1. batch'[p] = batch[p] + 1
      BY <1>1, <1>7, <1>8, <2>3
    <3>2. i \in 1 .. Len(Batches) /\ i # batch[p] /\ i \in batch[p] .. Len(Batches)
      BY <1>2, <3>1
    <3>3. o \in Ops /\ o \notin ops
      BY <1>2, <3>2, BatchesAssumption
    <3>4. invoked[o] = 0
      BY <1>1, <1>3, <3>2 DEF SingleUse, Unused, Dispatching
    <3> QED BY <1>5, <3>3, <3>4
  <2>4. \A q \in Procs : pc'[q] = "dispatch" => q = p
    BY <1>9 DEF Claiming
  <2> QED BY <2>1, <2>2, <2>3, <2>4 DEF Unused
<1>16. AtMostOneInvocation'
  <2> SUFFICES ASSUME NEW o \in Ops PROVE invoked'[o] <= 1
    BY DEF AtMostOneInvocation
  <2>1. CASE o \in ops
    BY <1>5, <1>6, <2>1
  <2>2. CASE o \notin ops
    BY <1>5, <2>2 DEF SingleUse, AtMostOneInvocation
  <2> QED BY <2>1, <2>2
<1> QED BY <1>3, <1>11, <1>12, <1>13, <1>14, <1>15, <1>16, <1>17 DEF SingleUse

\* Every step of an execute-once child keeps single use.
LEMMA ExecuteSingleUse ==
    ASSUME TypeInv, SingleUse, NEW p \in Executors, Execute(p)
    PROVE  SingleUse'
<1>1. p \in Procs
  BY DEF Procs
<1>2. CASE Load(p)
  <2>1. "evaluate" \in Labels /\ "evaluate" \notin {"claim"} \cup Claiming \cup Finalizing
    BY DEF Labels, Claiming, Confirming, Finalizing
  <2>2. UNCHANGED <<disk, invoked, stamp, batch>>
    BY <1>2 DEF Load, storage, executing
  <2>3. batch[p] = 1
    BY <1>2 DEF Load, SingleUse, Undispatched
  <2> QED BY <1>1, <1>2, <2>1, <2>2, <2>3, Withdraw, HaltWithdraws DEF Load
<1>3. CASE Evaluate(p)
  <2>1. UNCHANGED <<disk, invoked, batch>>
    BY <1>3 DEF Evaluate, storage
  <2>2. CASE Halt(p) /\ UNCHANGED stamp
    BY <1>1, <2>1, <2>2, HaltWithdraws
  <2>3. CASE Goto(p, "claim")
    <3>1. PICK now \in Times : now < ExpiresAt /\ stamp' = [stamp EXCEPT ![p] = now]
      <4>1. pc'[p] = "claim"
        BY <1>1, <2>3 DEF Goto, TypeInv, ControlType
      <4>2. ~ Halt(p)
        BY <1>1, <4>1 DEF Halt, Goto, TypeInv, ControlType
      <4> QED BY <1>3, <4>2 DEF Evaluate
    <3>2. pc' = [pc EXCEPT ![p] = "claim"] /\ pc \in [Procs -> Labels]
            /\ stamp \in [Procs -> Times \cup {None}] /\ pc[p] = "evaluate"
      BY <1>3, <2>3 DEF Evaluate, Goto, TypeInv, ControlType, DataType
    <3>3. \A q \in Procs : pc'[q] \in Claiming \cup Finalizing =>
                pc'[q] = pc[q] /\ stamp'[q] = stamp[q]
      BY <3>1, <3>2 DEF Claiming, Confirming, Finalizing
    <3>4. OneClaimant'
      BY <2>1, <3>3 DEF SingleUse, OneClaimant
    <3>5. ClaimHeld'
      BY <2>1, <3>3 DEF SingleUse, ClaimHeld, Claiming, Confirming, Dispatching, Claimed
    <3>6. Unexpired'
      BY <3>1, <3>2, <3>3 DEF SingleUse, Unexpired, Claiming
    <3>7. FinalizedLater'
      BY <2>1, <3>3 DEF SingleUse, FinalizedLater, Early, Dispatching, Claiming
    <3>8. Unused' /\ AtMostOneInvocation'
      BY <2>1, <3>3 DEF SingleUse, Unused, AtMostOneInvocation, Claiming
    <3>9. Undispatched'
      BY <2>1, <3>2 DEF SingleUse, Undispatched, Procs
    <3> QED BY <3>4, <3>5, <3>6, <3>7, <3>8, <3>9 DEF SingleUse
  <2> QED BY <1>3, <2>2, <2>3 DEF Evaluate
<1>4. CASE OpenClaim(p)
  BY <1>4, OpenClaimSingleUse
<1>5. CASE WriteClaim(p) \/ ConfirmClaim(p)
  BY <1>5, WriteClaimSingleUse
<1>6. CASE DispatchBatch(p)
  BY <1>6, DispatchSingleUse
<1>7. CASE Conclude(p)
  <2>1. UNCHANGED <<disk, invoked, stamp, batch>>
    BY <1>7 DEF Conclude, storage, executing
  <2>2. pc[p] = "dispatch" /\ batch[p] > Len(Batches)
    BY <1>7 DEF Conclude
  <2>3. \A q \in Procs : pc[q] \notin Confirming /\ ~ Dispatching(q)
    <3>1. Len(Batches) \in Nat /\ \A q \in Procs : batch[q] \in 1 .. Len(Batches) + 1
      BY BatchesAssumption DEF TypeInv, DataType
    <3> QED BY <1>1, <2>2, <3>1 DEF SingleUse, OneClaimant, Claiming, Confirming, Dispatching
  <2> QED BY <1>1, <1>7, <2>1, <2>3, EnterSingleUse, HaltWithdraws DEF Conclude
<1> QED BY <1>2, <1>3, <1>4, <1>5, <1>6, <1>7 DEF Execute

\* There is at least one batch.
LEMMA BatchesExist == Len(Batches) \in Nat \ {0}
<1>1. PICK o \in Ops : TRUE
  BY OpsAssumption
<1>2. PICK i \in 1 .. Len(Batches) : o \in Batches[i]
  BY <1>1, BatchesAssumption
<1> QED BY <1>2, BatchesAssumption

\* An exclusive creation fails.
LEMMA FailSingleUse ==
    ASSUME TypeInv, SingleUse, NEW p \in Procs, FailExclusive(p)
    PROVE  SingleUse'
<1>1. UNCHANGED <<disk, invoked, stamp, batch>>
  BY DEF FailExclusive, storage, executing
<1>2. CASE pc[p] \in {"writeClaim", "syncClaim"} /\ Goto(p, "unlinkClaim")
  <2>1. disk["claim"] \in {Torn, Claimed(p)} /\ pc[p] \in Confirming
    BY <1>2 DEF SingleUse, ClaimHeld, Confirming
  <2> QED BY <1>1, <1>2, <2>1, ClaimStep
<1>3. CASE pc[p] \in {"writeJournal", "syncJournal"} /\ Goto(p, "unlinkJournal")
  <2>1. "unlinkJournal" \in Labels
          /\ "unlinkJournal" \notin {"claim", "evaluate", "idle"} \cup Claiming
    BY DEF Labels, Claiming, Confirming, Finalizing
  <2>2. ~ Early
    BY <1>3 DEF SingleUse, FinalizedLater, Finalizing
  <2> QED BY <1>1, <1>3, <2>1, <2>2, LateStep DEF Early
<1>4. CASE Halt(p)
  BY <1>1, <1>4, HaltWithdraws
<1> QED BY <1>2, <1>3, <1>4 DEF FailExclusive

\* Removing a file that was created exclusively: nothing was invoked under a claim.
LEMMA UnlinkSingleUse ==
    ASSUME TypeInv, SingleUse, NEW p \in Procs, Unlink(p)
    PROVE  SingleUse'
<1>1. PICK label \in {"idle", "stopped"} :
        Goto(p, label) /\ (p \notin Recoverers => label = "stopped")
  BY DEF Unlink
<1>2. label \in Labels /\ label \notin {"claim", "evaluate"} \cup Claiming \cup Finalizing
  BY DEF Labels, Claiming, Confirming, Finalizing
<1>3. UNCHANGED <<invoked, stamp, batch>> /\ (p \in Executors => label # "idle")
  BY <1>1, ProcsAssumption DEF Unlink, executing
<1>4. CASE pc[p] = "unlinkClaim" /\ disk' = [disk EXCEPT !["claim"] = Absent]
  <2>1. \A q \in Procs : pc'[q] \notin Claiming
    BY <1>1, <1>2, <1>4
    DEF SingleUse, OneClaimant, Claiming, Confirming, Goto, TypeInv, ControlType
  <2>2. \A q \in Procs : pc'[q] = pc[q] \/ pc'[q] \notin {"claim"} \cup Claiming \cup Finalizing
    BY <1>1, <1>2 DEF Goto, TypeInv, ControlType
  <2>3. disk'["journal"] = disk["journal"]
    BY <1>4 DEF TypeInv, DataType, Kinds
  <2>4. OneClaimant' /\ ClaimHeld'
    BY <2>1 DEF OneClaimant, ClaimHeld, Dispatching, Claiming, Confirming
  <2>5. Unexpired'
    BY <1>3, <2>2 DEF SingleUse, Unexpired
  <2>6. FinalizedLater'
    <3>1. pc[p] \in Confirming
      BY <1>4 DEF Confirming
    <3> QED BY <2>2, <2>3, <3>1 DEF SingleUse, FinalizedLater, Early
  <2>7. \A o \in Ops : invoked[o] = 0
    BY <1>4 DEF SingleUse, Unused, Confirming
  <2>8. Unused' /\ AtMostOneInvocation'
    BY <1>3, <2>1, <2>7 DEF Unused, AtMostOneInvocation, Claiming
  <2>9. Undispatched'
    BY <1>1, <1>2, <1>3, <2>1
    DEF SingleUse, Undispatched, Claiming, Goto, TypeInv, ControlType, Procs
  <2> QED BY <2>4, <2>5, <2>6, <2>8, <2>9 DEF SingleUse
<1>5. CASE pc[p] = "unlinkJournal" /\ disk' = [disk EXCEPT !["journal"] = Absent]
  <2>1. ~ Early
    BY <1>5 DEF SingleUse, FinalizedLater, Finalizing
  <2>2. disk'["claim"] # Absent
    BY <1>5, <2>1 DEF Early, TypeInv, DataType, Kinds
  <2> QED BY <1>1, <1>2, <1>3, <2>1, <2>2, LateStep
<1> QED BY <1>4, <1>5 DEF Unlink

\* Every step of the system keeps single use.
LEMMA SingleUseStep == TypeInv /\ SingleUse /\ [Next]_vars => SingleUse'
<1> SUFFICES ASSUME TypeInv, SingleUse, [Next]_vars PROVE SingleUse'
  OBVIOUS
<1>1. ASSUME NEW p \in Executors, Execute(p) PROVE SingleUse'
  BY <1>1, ExecuteSingleUse
<1>2. ASSUME NEW p \in Procs, Finalize(p) PROVE SingleUse'
  BY <1>2, FinalizeSingleUse
<1>3. ASSUME NEW p \in Repeaters, Repeat(p) PROVE SingleUse'
  <2>1. p \in Procs
    BY DEF Procs
  <2>2. PICK c \in Executors, now \in Times :
          /\ disk["claim"].by = c
          /\ batch[c] > Len(Batches)
          /\ Enter(p, [status |-> OverallStatus(c), at |-> now], p)
    BY <1>3 DEF Repeat
  <2>3. \A q \in Procs : pc[q] \notin Confirming /\ ~ Dispatching(q)
    <3>1. \A q \in Procs : Claimed(q).by = q
      BY DEF Claimed, Blank
    <3>2. Len(Batches) \in Nat /\ \A q \in Procs : batch[q] \in 1 .. Len(Batches) + 1
      BY BatchesAssumption DEF TypeInv, DataType
    <3>3. \A q \in Procs : ~ Dispatching(q)
      BY <2>2, <3>1, <3>2 DEF SingleUse, ClaimHeld, Dispatching
    <3>4. ASSUME NEW q \in Procs, pc[q] \in Confirming PROVE FALSE
      <4>1. disk["claim"] # Torn
        BY <2>2 DEF Enter, ClaimReadable, Terminal, Torn, Blank
      <4>2. q = c
        BY <2>2, <3>1, <3>4, <4>1 DEF SingleUse, ClaimHeld, Confirming
      <4>3. batch[c] = 1
        BY <3>4, <4>2 DEF SingleUse, Undispatched
      <4> QED BY <2>2, <4>3, BatchesExist
    <3> QED BY <3>3, <3>4
  <2>4. UNCHANGED <<disk, invoked, stamp, batch>>
    BY <1>3 DEF Repeat, storage, executing
  <2> QED BY <2>1, <2>2, <2>3, <2>4, EnterSingleUse
<1>4. ASSUME NEW p \in Recoverers, NEW what \in Content, Recover(p, what) PROVE SingleUse'
  <2>1. p \in Procs
    BY DEF Procs
  <2>2. disk["journal"] # Absent
    BY <1>4 DEF Recover, Absent, Blank
  <2>3. \A q \in Procs : pc[q] \notin Confirming /\ ~ Dispatching(q)
    BY <2>2 DEF SingleUse, FinalizedLater, Early
  <2>4. UNCHANGED <<disk, invoked, stamp, batch>>
    BY <1>4 DEF Recover, storage, executing
  <2> QED BY <1>4, <2>1, <2>3, <2>4, EnterSingleUse DEF Recover
<1>5. ASSUME NEW p \in Procs, FailExclusive(p) \/ Unlink(p) PROVE SingleUse'
  BY <1>5, FailSingleUse, UnlinkSingleUse
<1>6. ASSUME NEW p \in Procs, Crash(p) PROVE SingleUse'
  BY <1>6, HaltWithdraws DEF Crash, storage, executing
<1>7. ASSUME UNCHANGED vars PROVE SingleUse'
  BY <1>7 DEF vars, storage, executing, finalizing, SingleUse, OneClaimant, ClaimHeld,
    Undispatched, Unexpired, FinalizedLater, Unused, AtMostOneInvocation, Early, Dispatching, Claimed
<1> QED BY <1>1, <1>2, <1>3, <1>4, <1>5, <1>6, <1>7 DEF Next

\* Single use, with the type invariant it rests on, holds in every reachable state.
LEMMA SingleUseAlways == Spec => [](TypeInv /\ SingleUse)
BY TypeInit, TypeStep, SingleUseInit, SingleUseStep, PTL DEF Spec

\* Single use for every number of children, callers and recoveries, every batch
\* order and every crash: an adapter of an approved operation is invoked at most once.
THEOREM SingleInvocation == Spec => []AtMostOneInvocation
<1>1. SingleUse => AtMostOneInvocation
  BY DEF SingleUse
<1> QED BY <1>1, SingleUseAlways, PTL

\* Every invocation happens under the published claim of the invoking child, which is
\* stamped before the authorization expires.
THEOREM ClaimedBeforeDispatch == Spec => DispatchUnderClaim
<1> DEFINE Under ==
      \E p \in Executors :
        /\ pc[p] = "dispatch"
        /\ disk["claim"].state = "claimed"
        /\ disk["claim"].by = p
        /\ disk["claim"].stamp < ExpiresAt
<1>1. ASSUME TypeInv, SingleUse, [Next]_vars PROVE invoked' # invoked => Under
  <2>1. ASSUME NEW p \in Executors, Execute(p), invoked' # invoked PROVE Under
    <3>1. DispatchBatch(p)
      BY <2>1 DEF Execute, Load, Evaluate, OpenClaim, WriteClaim, ConfirmClaim, Conclude,
                  executing
    <3>2. disk["claim"] = Claimed(p) /\ pc[p] = "dispatch"
      BY <1>1, <3>1, DispatchSingleUse DEF Dispatching
    <3>3. stamp[p] < ExpiresAt
      BY <1>1, <3>2 DEF SingleUse, Unexpired, Claiming, Procs
    <3>4. /\ Claimed(p).state = "claimed"
          /\ Claimed(p).by = p
          /\ Claimed(p).stamp = stamp[p]
      BY DEF Claimed, Blank
    <3> QED BY <3>2, <3>3, <3>4
  <2>2. ASSUME NEW p \in Procs, Finalize(p) PROVE UNCHANGED invoked
    BY <1>1, <2>2, FinalizeKeepsClaim
  <2>3. ASSUME NEW p \in Repeaters, Repeat(p) PROVE UNCHANGED invoked
    BY <2>3 DEF Repeat, executing
  <2>4. ASSUME NEW p \in Recoverers, NEW what \in Content, Recover(p, what)
        PROVE UNCHANGED invoked
    BY <2>4 DEF Recover, executing
  <2>5. ASSUME NEW p \in Procs, FailExclusive(p) \/ Unlink(p) \/ Crash(p)
        PROVE UNCHANGED invoked
    BY <2>5 DEF FailExclusive, Unlink, Crash, executing
  <2>6. ASSUME UNCHANGED vars PROVE UNCHANGED invoked
    BY <2>6 DEF vars, executing
  <2> QED BY <1>1, <2>1, <2>2, <2>3, <2>4, <2>5, <2>6 DEF Next
<1>2. TypeInv /\ SingleUse /\ [Next]_vars => [invoked' # invoked => Under]_vars
  BY <1>1
<1> QED BY <1>2, SingleUseAlways, PTL DEF Spec, DispatchUnderClaim

-----------------------------------------------------------------------------
(***************************************************************************)
(* Agreement of overlapping finalizers.  There is one receipt x and one    *)
(* holder h: whatever file of the transaction exists, in place or as a     *)
(* temporary file, is torn or names x, and who writes, writes x for h.     *)
(* The journal makes it so: it is created exclusively, while its creator   *)
(* may take it back nobody else is past it and no other file names a       *)
(* receipt, and afterwards only a process that holds the journalled        *)
(* receipt gets past it.  That nobody passes a journal that may be taken   *)
(* back is what Orderly is for.                                            *)
(***************************************************************************)

\* Already a file of the transaction: it names a receipt.
Settled(f) == f.state \notin {"absent", "torn", "claimed"}

\* The steps of the transaction once the journal is acquired, and all its steps.
Working == {"open", "fill", "promote", "cas", "verify"}
Creating == {"writeJournal", "syncJournal", "unlinkJournal"}
Transacting == Creating \cup Working

\* Where the creator of the journal may still take it back.
Revocable ==
    {"writeJournal", "unlinkJournal"} \cup IF SoloRecovery THEN {"syncJournal"} ELSE {}

\* The journal does not exist, or its creator may still take it back.
Unpublished ==
    disk["journal"] = Absent \/ \E p \in Procs : pc[p] \in Revocable

\* Until the journal is published there is no other file of the transaction.
Founding ==
    /\ \A p \in Procs : pc[p] \in Revocable =>
          \A q \in Procs : pc[q] \in Transacting => q = p
    /\ \A p \in Procs : pc[p] = "writeJournal" => disk["journal"] = Torn /\ fd[p] = "final"
    /\ \A p \in Procs : pc[p] = "unlinkJournal" => SoloRecovery \/ disk["journal"] = Torn
    /\ disk["journal"] = Absent => \A p \in Procs : pc[p] \notin Transacting
    /\ Unpublished => \A k \in Kinds : /\ k # "journal" => ~ Settled(disk[k])
                                       /\ ~ Settled(staged[k])

\* When recovery waits for the others, a journal that may be taken back bears the name
\* of its creator, who is no recovery, and only recoveries go by the name of another.
OwnersApart ==
    SoloRecovery => \A p \in Procs :
        /\ pc[p] \in {"acquire", "writeJournal"} =>
              journal[p] = "preparing" /\ (p \notin Recoverers => owner[p] = p)
        /\ p \in Recoverers => pc[p] \notin Creating /\ (pc[p] = "acquire" => ~ Unpublished)
        /\ pc[p] \in {"syncJournal", "unlinkJournal"} =>
              \/ disk["journal"] = Torn
              \/ disk["journal"].state = "preparing" /\ disk["journal"].by = p

JournalFirst == Founding /\ OwnersApart

\* A file of kind k that the transaction with receipt x under the claim of h writes.
Fits(k, f, x, h) ==
    \/ f = Torn
    \/ /\ Settled(f)
       /\ f.content = x
       /\ k = "claim" => /\ f.state = STATUS_TO_CLAIM_STATE[x.status]
                         /\ f.by = h
                         /\ f.stamp = stamp[h]

\* Files, published and temporary.
FilesFit(x, h) ==
    \A k \in Kinds :
        /\ disk[k] = Absent \/ Fits(k, disk[k], x, h) \/ (k = "claim" /\ disk[k] = Claimed(h))
        /\ staged[k] = Absent \/ Fits(k, staged[k], x, h)

\* Processes past the journal.
WritersAgree(x, h) ==
    \A p \in Procs :
        /\ pc[p] \in Transacting => content[p] = x
        /\ pc[p] \in {"open", "fill"} /\ file[p] = "claim" =>
              seen[p].by = h /\ seen[p].stamp = stamp[h]

\* Only h dispatches, and its dispatch is complete before anyone finalizes.
Holds(h) ==
    /\ \A p \in Procs : pc[p] = "dispatch" => p = h
    /\ h \in Executors => pc[h] \notin {"idle", "evaluate", "claim", "writeClaim"}
    /\ disk["claim"].state \notin {"absent", "torn"} => h \in Executors
    /\ disk["journal"] # Absent \/ (\E p \in Procs : pc[p] \in Finalizing) =>
          h \in Executors /\ batch[h] > Len(Batches)

\* A receipt that aggregates the answers h has and is not dated before the claim: the
\* journalled one, and the one of anybody who may still create the journal.
Honest(c, h) == c \in Content /\ c.status = OverallStatus(h) /\ stamp[h] <= c.at

Truthful(x, h) ==
    /\ disk["journal"] # Absent => Honest(x, h)
    /\ \A p \in Procs : pc[p] = "acquire" /\ Unpublished => Honest(content[p], h)

\* A batch is behind a child only when each of its operations was invoked and answered.
Accounted ==
    \A p \in Executors :
        /\ \A i \in 1 .. batch[p] - 1 : \A o \in Batches[i] : results[p][o] # "none"
        /\ \A o \in Ops : results[p][o] # "none" => invoked[o] # 0

Agree(x, h) == FilesFit(x, h) /\ WritersAgree(x, h) /\ Holds(h) /\ Truthful(x, h)

Agreement ==
    /\ JournalFirst
    /\ Accounted
    /\ \E x \in Content \cup {None}, h \in Executors \cup {None} : Agree(x, h)

\* How the places of a process in the transaction relate.
LEMMA Places ==
    /\ Revocable \subseteq Creating
    /\ Creating \subseteq Transacting /\ Working \subseteq Transacting
    /\ Transacting \cup {"acquire"} = Finalizing
    /\ Revocable \cap Working = {} /\ "acquire" \notin Transacting
    /\ {"writeJournal", "unlinkJournal"} \subseteq Revocable
    /\ SoloRecovery => Revocable = Creating
    /\ Finalizing \cap ({"idle", "evaluate", "claim", "dispatch", "done", "stopped"}
                          \cup Confirming) = {}
BY DEF Revocable, Creating, Transacting, Working, Finalizing, Confirming

\* Before any child starts there is no transaction.
LEMMA AgreementInit == Init => Agreement
<1> SUFFICES ASSUME Init PROVE Agreement
  OBVIOUS
<1>1. \A p \in Procs : pc[p] = "idle"
  BY DEF Init
<1>2. \A k \in Kinds : disk[k] = Absent /\ staged[k] = Absent
  BY DEF Init
<1>3. ~ Settled(Absent) /\ Absent.state = "absent"
  BY DEF Settled, Absent, Blank
<1>4. \A p \in Procs : pc[p] \notin Finalizing
  BY <1>1, Places
<1>5. JournalFirst
  <2>1. Founding
    BY <1>2, <1>3, <1>4, Places DEF Founding
  <2>2. OwnersApart
    BY <1>4, Places DEF OwnersApart, Creating
  <2> QED BY <2>1, <2>2 DEF JournalFirst
<1>6. Accounted
  <2>1. \A p \in Executors : batch[p] = 1 /\ \A o \in Ops : results[p][o] = "none"
    BY DEF Init, Procs
  <2> QED BY <2>1 DEF Accounted
<1>7. Agree(None, None)
  <2>1. None \notin Executors
    BY ProcsAssumption DEF Procs
  <2>2. disk["claim"] = Absent /\ disk["journal"] = Absent
    BY <1>2 DEF Kinds
  <2> QED BY <1>1, <1>2, <1>3, <2>1, <2>2
      DEF Agree, FilesFit, WritersAgree, Holds, Truthful, Transacting, Creating, Working,
          Finalizing
<1> QED BY <1>5, <1>6, <1>7 DEF Agreement

\* Without a holder there is no claim, and nobody finalizes.
LEMMA NoHolder ==
    ASSUME JournalFirst, NEW x, NEW h, Agree(x, h), h \notin Executors
    PROVE  /\ \A k \in Kinds : k # "journal" => ~ Settled(disk[k])
           /\ \A k \in Kinds : ~ Settled(staged[k])
           /\ disk["claim"].state \in {"absent", "torn"}
           /\ disk["journal"] = Absent
           /\ \A p \in Procs : pc[p] \notin Finalizing
BY DEF JournalFirst, Founding, Agree, Holds, Unpublished

\* A step that keeps the journal, by a process that does not join its creation: nobody
\* can suddenly take the journal back, and the owners stay apart.
LEMMA OwnersStay ==
    ASSUME TypeInv, JournalFirst, NEW p \in Procs, NEW label, Goto(p, label),
           label \notin {"acquire"} \cup Creating,
           \/ disk'["journal"] = disk["journal"]
           \/ disk'["journal"] # Absent /\ \A q \in Procs : pc[q] \notin Revocable,
           \A q \in Procs \ {p} : owner'[q] = owner[q] /\ journal'[q] = journal[q]
    PROVE  (Unpublished' => Unpublished) /\ OwnersApart'
<1>1. pc' = [pc EXCEPT ![p] = label] /\ pc \in [Procs -> Labels]
  BY DEF Goto, TypeInv, ControlType
<1>2. \A q \in Procs : pc'[q] = pc[q] \/ (q = p /\ pc'[q] = label)
  BY <1>1
<1>3. \A q \in Procs : pc'[q] \in {"acquire"} \cup Creating => q # p /\ pc'[q] = pc[q]
  BY <1>1, <1>2
<1>4. Unpublished' => Unpublished
  BY <1>3, Places DEF Unpublished, Revocable
<1>5. OwnersApart'
  <2> SUFFICES ASSUME SoloRecovery, NEW q \in Procs
               PROVE  /\ pc'[q] \in {"acquire", "writeJournal"} =>
                            journal'[q] = "preparing" /\ (q \notin Recoverers => owner'[q] = q)
                      /\ q \in Recoverers =>
                            pc'[q] \notin Creating /\ (pc'[q] = "acquire" => ~ Unpublished')
                      /\ pc'[q] \in {"syncJournal", "unlinkJournal"} =>
                            \/ disk'["journal"] = Torn
                            \/ disk'["journal"].state = "preparing" /\ disk'["journal"].by = q
    BY DEF OwnersApart, Creating
  <2>1. pc'[q] \in {"acquire", "writeJournal"} =>
            journal'[q] = "preparing" /\ (q \notin Recoverers => owner'[q] = q)
    BY <1>3 DEF JournalFirst, OwnersApart, Creating
  <2>2. q \in Recoverers => pc'[q] \notin Creating /\ (pc'[q] = "acquire" => ~ Unpublished')
    BY <1>3, <1>4 DEF JournalFirst, OwnersApart
  <2>3. ASSUME pc'[q] \in {"syncJournal", "unlinkJournal"}
        PROVE  \/ disk'["journal"] = Torn
               \/ disk'["journal"].state = "preparing" /\ disk'["journal"].by = q
    <3>1. pc[q] \in {"syncJournal", "unlinkJournal"} /\ pc[q] \in Revocable
      BY <1>3, <2>3, Places DEF Creating
    <3>2. disk'["journal"] = disk["journal"]
      BY <3>1
    <3> QED BY <3>1, <3>2 DEF JournalFirst, OwnersApart
  <2> QED BY <2>1, <2>2, <2>3
<1> QED BY <1>4, <1>5

\* Files that stay fit as long as the holder's stamp stays.
LEMMA FilesStay ==
    ASSUME JournalFirst, NEW x, NEW h, Agree(x, h), UNCHANGED <<disk, staged>>,
           h \in Executors => stamp'[h] = stamp[h]
    PROVE  FilesFit(x, h)'
<1>1. CASE h \in Executors
  <2>1. stamp'[h] = stamp[h] /\ Claimed(h)' = Claimed(h)
    BY <1>1 DEF Claimed
  <2>2. \A k, f : Fits(k, f, x, h)' <=> Fits(k, f, x, h)
    BY <2>1 DEF Fits
  <2> QED BY <2>1, <2>2 DEF Agree, FilesFit
<1>2. CASE h \notin Executors
  <2>1. \A k \in Kinds : disk[k] \in {Absent, Torn} /\ staged[k] \in {Absent, Torn}
    <3>1. Claimed(h).state = "claimed"
      BY DEF Claimed, Blank
    <3> QED BY <1>2, <3>1, NoHolder DEF Agree, FilesFit, Fits
  <2> QED BY <2>1 DEF FilesFit, Fits
<1> QED BY <1>1, <1>2

\* A process that works on its own before the transaction, or leaves it.
LEMMA AsideAgrees ==
    ASSUME TypeInv, JournalFirst, NEW x, NEW h, Agree(x, h),
           NEW p \in Procs, NEW label, Goto(p, label),
           label \notin Finalizing, label = "dispatch" => p = h,
           p = h => label \notin {"idle", "evaluate", "claim", "writeClaim"},
           UNCHANGED <<disk, staged, batch, results, file, content, owner, journal, seen>>,
           \A q \in Procs \ {p} : fd'[q] = fd[q],
           h \in Executors => stamp'[h] = stamp[h]
    PROVE  JournalFirst' /\ Agree(x, h)'
<1>1. pc' = [pc EXCEPT ![p] = label] /\ pc \in [Procs -> Labels]
  BY DEF Goto, TypeInv, ControlType
<1>2. \A q \in Procs : pc'[q] = pc[q] \/ (q = p /\ pc'[q] = label)
  BY <1>1
<1>3. \A q \in Procs : pc'[q] \in Finalizing => pc'[q] = pc[q] /\ q # p
  BY <1>1, <1>2
<1>4. label \notin {"acquire"} \cup Creating
  BY Places
<1>5. (Unpublished' => Unpublished) /\ OwnersApart'
  BY <1>4, OwnersStay
<1>6. Founding'
  <2>1. \A q \in Procs : pc'[q] \in Transacting => pc'[q] = pc[q] /\ q # p
    BY <1>3, Places
  <2>2. \A q \in Procs : pc'[q] \in Revocable => pc[q] \in Revocable
    BY <2>1, Places
  <2>3. \A q \in Procs : pc'[q] = "writeJournal" => pc[q] = "writeJournal" /\ fd'[q] = fd[q]
    BY <2>1 DEF Transacting, Creating
  <2>4. \A q \in Procs : pc'[q] = "unlinkJournal" => pc[q] = "unlinkJournal"
    BY <2>1 DEF Transacting, Creating
  <2>5. Transacting' = Transacting /\ Revocable' = Revocable
    BY DEF Transacting, Creating, Working, Revocable
  <2> QED BY <1>5, <2>1, <2>2, <2>3, <2>4, <2>5 DEF JournalFirst, Founding, Settled
<1>7. FilesFit(x, h)'
  BY FilesStay
<1>8. WritersAgree(x, h)'
  <2>1. ASSUME NEW q \in Procs, pc[q] \in Finalizing PROVE stamp'[h] = stamp[h]
    BY <2>1, NoHolder
  <2> QED BY <1>3, <2>1, Places DEF Agree, WritersAgree, Finalizing, Transacting, Creating, Working
<1>9. Holds(h)'
  <2>1. (\E q \in Procs : pc'[q] \in Finalizing)
          => \E q \in Procs : pc[q] \in Finalizing
    BY <1>3
  <2> QED BY <1>2, <2>1 DEF Agree, Holds, Procs, Finalizing
<1>10. Truthful(x, h)'
  <2>1. h \in Executors => (\A c : Honest(c, h)' <=> Honest(c, h))
    BY DEF Honest, OverallStatus
  <2>2. h \notin Executors => disk["journal"] = Absent /\ \A q \in Procs : pc[q] # "acquire"
    BY NoHolder DEF Finalizing
  <2>3. \A q \in Procs : pc'[q] = "acquire" => pc[q] = "acquire"
    BY <1>3 DEF Finalizing
  <2> QED BY <1>5, <2>1, <2>2, <2>3 DEF Agree, Truthful
<1> QED BY <1>5, <1>6, <1>7, <1>8, <1>9, <1>10 DEF Agree, JournalFirst

\* A process that raises or is killed.
LEMMA HaltAgrees ==
    ASSUME TypeInv, JournalFirst, NEW x, NEW h \in Executors \cup {None}, Agree(x, h),
           NEW p \in Procs, Halt(p), UNCHANGED <<disk, staged, stamp, batch, results>>
    PROVE  JournalFirst' /\ Agree(x, h)'
<1>1. PICK label \in {"idle", "stopped"} :
        Goto(p, label) /\ (p \notin Recoverers => label = "stopped")
  BY DEF Halt
<1>2. UNCHANGED <<file, content, owner, journal, seen>>
  BY DEF Halt
<1>3. p = h => p \notin Recoverers
  BY ProcsAssumption
<1>4. label \notin Finalizing /\ label # "dispatch"
  BY DEF Finalizing
<1>5. \A q \in Procs \ {p} : fd'[q] = fd[q]
  BY DEF Halt, TypeInv, ControlType
<1> QED BY <1>1, <1>2, <1>3, <1>4, <1>5, AsideAgrees

\* Entering the transaction with an honest receipt, or one that cannot be journalled.
LEMMA EnterAgrees ==
    ASSUME TypeInv, JournalFirst, NEW x, NEW h, Agree(x, h),
           NEW p \in Procs, NEW what, NEW who, Enter(p, what, who),
           pc[p] \notin Transacting, h \in Executors, batch[h] > Len(Batches),
           Unpublished => Honest(what, h),
           p \notin Recoverers => who = p, p \in Recoverers => ~ Unpublished,
           UNCHANGED <<disk, staged, stamp, batch, results>>
    PROVE  JournalFirst' /\ Agree(x, h)'
<1>1. /\ pc' = [pc EXCEPT ![p] = "acquire"] /\ pc \in [Procs -> Labels]
      /\ content' = [content EXCEPT ![p] = what] /\ content \in [Procs -> Content \cup {None}]
      /\ owner' = [owner EXCEPT ![p] = who] /\ owner \in [Procs -> Procs \cup {None}]
      /\ journal' = [journal EXCEPT ![p] = "preparing"] /\ journal \in [Procs -> JournalStates]
      /\ UNCHANGED <<file, fd, seen>>
  BY DEF Enter, Goto, TypeInv, ControlType
<1>2. \A q \in Procs : /\ pc'[q] = pc[q] \/ (q = p /\ pc'[q] = "acquire")
                       /\ q # p => content'[q] = content[q] /\ pc'[q] = pc[q]
                       /\ q # p => owner'[q] = owner[q] /\ journal'[q] = journal[q]
  BY <1>1
<1>3. content'[p] = what /\ pc'[p] = "acquire" /\ owner'[p] = who /\ journal'[p] = "preparing"
  BY <1>1
<1>4. \A q \in Procs : pc'[q] \in Transacting => q # p /\ pc'[q] = pc[q]
  BY <1>2, <1>3, Places
<1>5. Unpublished' => Unpublished
  BY <1>4, Places DEF Unpublished, Revocable
<1>6. Founding'
  <2>1. \A q \in Procs : pc'[q] \in Revocable => pc[q] \in Revocable
    BY <1>4, Places
  <2>2. \A q \in Procs : pc'[q] = "writeJournal" => pc[q] = "writeJournal"
    BY <1>2
  <2>3. \A q \in Procs : pc'[q] = "unlinkJournal" => pc[q] = "unlinkJournal"
    BY <1>2
  <2>4. Transacting' = Transacting /\ Revocable' = Revocable
    BY DEF Transacting, Creating, Working, Revocable
  <2> QED BY <1>1, <1>4, <1>5, <2>1, <2>2, <2>3, <2>4 DEF JournalFirst, Founding, Settled
<1>7. OwnersApart'
  <2> SUFFICES ASSUME SoloRecovery, NEW q \in Procs
               PROVE  /\ pc'[q] \in {"acquire", "writeJournal"} =>
                            journal'[q] = "preparing" /\ (q \notin Recoverers => owner'[q] = q)
                      /\ q \in Recoverers =>
                            pc'[q] \notin Creating /\ (pc'[q] = "acquire" => ~ Unpublished')
                      /\ pc'[q] \in {"syncJournal", "unlinkJournal"} =>
                            \/ disk'["journal"] = Torn
                            \/ disk'["journal"].state = "preparing" /\ disk'["journal"].by = q
    BY DEF OwnersApart, Creating
  <2>1. CASE q = p
    BY <1>3, <1>5, <2>1, Places DEF Creating
  <2>2. CASE q # p
    BY <1>2, <1>5, <2>2 DEF JournalFirst, OwnersApart
  <2> QED BY <2>1, <2>2
<1>8. FilesFit(x, h)'
  BY FilesStay
<1>9. WritersAgree(x, h)'
  BY <1>1, <1>2, <1>3, <1>4 DEF Agree, WritersAgree
<1>10. Holds(h)'
  BY <1>2, <1>3 DEF Agree, Holds, Procs
<1>11. Truthful(x, h)'
  <2>1. \A c : Honest(c, h)' <=> Honest(c, h)
    BY DEF Honest, OverallStatus
  <2> QED BY <1>2, <1>3, <1>5, <2>1 DEF Agree, Truthful
<1> QED BY <1>6, <1>7, <1>8, <1>9, <1>10, <1>11 DEF Agree, JournalFirst

\* Who works in the transaction found the journal published.
LEMMA WorkIsPublished ==
    ASSUME JournalFirst, NEW p \in Procs, pc[p] \in Working
    PROVE  ~ Unpublished
<1>1. pc[p] \in Transacting /\ pc[p] \notin Revocable
  BY Places
<1> QED BY <1>1 DEF JournalFirst, Founding, Unpublished

\* A step under a published journal: the files it leaves fit the transaction.
LEMMA WorkAgrees ==
    ASSUME TypeInv, JournalFirst, NEW x, NEW h, Agree(x, h), ~ Unpublished,
           NEW p \in Procs, pc[p] \in Finalizing, NEW label, Goto(p, label),
           label \in Working \cup {"stopped", "done", "idle"}, label = "idle" => p # h,
           label \in Working => content[p] = x,
           UNCHANGED <<stamp, batch, results, content>>,
           FilesFit(x, h)', disk'["journal"] # Absent,
           \A q \in Procs \ {p} : /\ file'[q] = file[q] /\ seen'[q] = seen[q]
                                  /\ owner'[q] = owner[q] /\ journal'[q] = journal[q],
           label \in {"open", "fill"} /\ file'[p] = "claim" =>
                seen'[p].by = h /\ seen'[p].stamp = stamp[h]
    PROVE  JournalFirst' /\ Agree(x, h)'
<1>1. pc' = [pc EXCEPT ![p] = label] /\ pc \in [Procs -> Labels]
  BY DEF Goto, TypeInv, ControlType
<1>2. \A q \in Procs : pc'[q] = pc[q] \/ (q = p /\ pc'[q] = label)
  BY <1>1
<1>3. label \notin {"acquire", "dispatch", "evaluate", "claim", "writeClaim"} \cup Creating
  BY Places DEF Working, Creating
<1>4. (Unpublished' => Unpublished) /\ OwnersApart'
  <2>1. \A q \in Procs : pc[q] \notin Revocable
    BY DEF Unpublished
  <2> QED BY <1>3, <2>1, OwnersStay
<1>5. ~ Unpublished'
  BY <1>4
<1>6. Founding'
  <2>1. \A q \in Procs : pc'[q] \notin Revocable
    BY <1>5 DEF Unpublished, Revocable
  <2>2. \A q \in Procs : pc'[q] \notin {"writeJournal", "unlinkJournal"}
    BY <2>1, Places
  <2>3. \A q \in Procs : pc'[q] \notin Revocable'
    BY <2>1 DEF Revocable
  <2> QED BY <1>5, <2>2, <2>3 DEF Founding
<1>7. WritersAgree(x, h)'
  <2>1. Transacting' = Transacting
    BY DEF Transacting, Creating, Working
  <2>2. pc'[p] = label /\ \A q \in Procs \ {p} : pc'[q] = pc[q]
    BY <1>1
  <2>3. label \in Transacting => label \in Working
    BY <1>3 DEF Transacting
  <2> QED BY <2>1, <2>2, <2>3 DEF Agree, WritersAgree
<1>8. Holds(h)'
  <2>1. h \in Executors /\ h \in Procs /\ batch[h] > Len(Batches)
    BY DEF Agree, Holds, Unpublished, Procs
  <2> QED BY <1>2, <1>3, <2>1 DEF Agree, Holds
<1>9. Truthful(x, h)'
  <2>1. \A c : Honest(c, h)' <=> Honest(c, h)
    BY DEF Honest, OverallStatus
  <2> QED BY <1>5, <2>1 DEF Agree, Truthful, Unpublished
<1> QED BY <1>4, <1>6, <1>7, <1>8, <1>9 DEF Agree, JournalFirst

\* Changing one published or temporary file to one that fits.
LEMMA PutFits ==
    ASSUME TypeInv, NEW x, NEW h, FilesFit(x, h), UNCHANGED stamp,
           disk' = disk \/ \E k \in Kinds : \E f :
                disk' = [disk EXCEPT ![k] = f] /\ (f = Absent \/ Fits(k, f, x, h)),
           staged' = staged \/ \E k \in Kinds : \E f :
                staged' = [staged EXCEPT ![k] = f] /\ (f = Absent \/ Fits(k, f, x, h))
    PROVE  FilesFit(x, h)'
<1>1. \A k, f : Fits(k, f, x, h)' <=> Fits(k, f, x, h)
  BY DEF Fits
<1>2. Claimed(h)' = Claimed(h)
  BY DEF Claimed
<1>3. disk \in [Kinds -> File] /\ staged \in [Kinds -> File]
  BY DEF TypeInv, DataType
<1>4. \A k \in Kinds : disk'[k] = disk[k] \/ disk'[k] = Absent \/ Fits(k, disk'[k], x, h)
  BY <1>3
<1>5. \A k \in Kinds : staged'[k] = staged[k] \/ staged'[k] = Absent \/ Fits(k, staged'[k], x, h)
  BY <1>3
<1> QED BY <1>1, <1>2, <1>4, <1>5 DEF FilesFit

\* A readable journal names the receipt of the transaction.
LEMMA JournalNames ==
    ASSUME NEW x, NEW h, Agree(x, h), disk["journal"].state \in JournalStates
    PROVE  disk["journal"] # Absent /\ disk["journal"] # Torn /\ disk["journal"].content = x
<1>1. Absent.state = "absent" /\ Torn.state = "torn"
  BY DEF Absent, Torn, Blank
<1>2. disk["journal"] # Absent /\ disk["journal"] # Torn
  BY <1>1 DEF JournalStates
<1>3. Fits("journal", disk["journal"], x, h)
  BY <1>2 DEF Agree, FilesFit, Kinds
<1> QED BY <1>2, <1>3 DEF Fits

\* A readable journal is published, unless recovery waits for the others and the
\* journal still bears the name of the creator who may take it back.
LEMMA ReadableJournal ==
    ASSUME JournalFirst, disk["journal"].state \in JournalStates
    PROVE  /\ Unpublished => SoloRecovery
           /\ \A q \in Procs : pc[q] \in Revocable =>
                /\ disk["journal"].state = "preparing" /\ disk["journal"].by = q
                /\ pc[q] \in {"syncJournal", "unlinkJournal"} /\ q \notin Recoverers
<1>1. Absent.state = "absent" /\ Torn.state = "torn"
  BY DEF Absent, Torn, Blank
<1>2. disk["journal"] # Absent /\ disk["journal"] # Torn
  BY <1>1 DEF JournalStates
<1>3. ASSUME NEW q \in Procs, pc[q] \in Revocable
      PROVE  /\ SoloRecovery
             /\ disk["journal"].state = "preparing" /\ disk["journal"].by = q
             /\ pc[q] \in {"syncJournal", "unlinkJournal"} /\ q \notin Recoverers
  <2>1. pc[q] # "writeJournal" /\ (pc[q] = "unlinkJournal" => SoloRecovery)
    BY <1>2 DEF JournalFirst, Founding
  <2>2. SoloRecovery /\ pc[q] \in {"syncJournal", "unlinkJournal"}
    BY <1>3, <2>1 DEF Revocable
  <2>3. pc[q] \in Creating
    BY <2>2 DEF Creating
  <2> QED BY <1>2, <2>2, <2>3 DEF JournalFirst, OwnersApart
<1> QED BY <1>2, <1>3 DEF Unpublished

\* The journal is created: its creator decides the receipt of the transaction.
LEMMA JournalCreated ==
    ASSUME TypeInv, JournalFirst, NEW x, NEW h \in Executors \cup {None}, Agree(x, h),
           NEW p \in Procs, pc[p] = "acquire", NEW y \in Content, y = content[p],
           disk["journal"] = Absent,
           disk' = [disk EXCEPT !["journal"] = Torn],
           file' = [file EXCEPT ![p] = "journal"],
           fd' = [fd EXCEPT ![p] = "final"],
           Goto(p, "writeJournal"),
           UNCHANGED <<staged, stamp, batch, results, content, owner, journal, seen>>
    PROVE  JournalFirst' /\ Agree(y, h)'
<1>1. /\ pc' = [pc EXCEPT ![p] = "writeJournal"] /\ pc \in [Procs -> Labels]
      /\ disk \in [Kinds -> File] /\ fd \in [Procs -> {"none", "tmp", "final", "gone"}]
  BY DEF Goto, TypeInv, ControlType, DataType
<1>2. \A q \in Procs : pc'[q] = pc[q] \/ (q = p /\ pc'[q] = "writeJournal")
  BY <1>1
<1>3. Unpublished /\ \A q \in Procs : pc[q] \notin Transacting
  BY DEF Unpublished, JournalFirst, Founding
<1>4. \A q \in Procs : pc'[q] \in Transacting => q = p
  BY <1>2, <1>3
<1>5. \A k \in Kinds : (k # "journal" => ~ Settled(disk[k])) /\ ~ Settled(staged[k])
  BY <1>3 DEF JournalFirst, Founding
<1>6. disk'["journal"] = Torn /\ \A k \in Kinds : k # "journal" => disk'[k] = disk[k]
  BY <1>1 DEF Kinds
<1>7. pc'[p] = "writeJournal" /\ fd'[p] = "final" /\ ~ Settled(Torn)
  BY <1>1 DEF Settled, Torn, Blank
<1>8. Transacting' = Transacting /\ Revocable' = Revocable
  BY DEF Transacting, Creating, Working, Revocable
<1>9. Founding'
  <2>1. \A q \in Procs : pc'[q] \in Revocable => q = p
    BY <1>4, Places
  <2>2. \A q \in Procs : pc'[q] = "writeJournal" => q = p
    BY <1>4 DEF Transacting, Creating
  <2>3. \A q \in Procs : pc'[q] # "unlinkJournal"
    BY <1>4, <1>7 DEF Transacting, Creating
  <2>4. disk'["journal"] # Absent
    BY <1>6, ConstantFiles
  <2> QED BY <1>4, <1>5, <1>6, <1>7, <1>8, <2>1, <2>2, <2>3, <2>4 DEF Founding, Settled
<1>10. OwnersApart'
  <2> SUFFICES ASSUME SoloRecovery, NEW q \in Procs
               PROVE  /\ pc'[q] \in {"acquire", "writeJournal"} =>
                            journal'[q] = "preparing" /\ (q \notin Recoverers => owner'[q] = q)
                      /\ q \in Recoverers =>
                            pc'[q] \notin Creating /\ (pc'[q] = "acquire" => ~ Unpublished')
                      /\ pc'[q] \in {"syncJournal", "unlinkJournal"} =>
                            \/ disk'["journal"] = Torn
                            \/ disk'["journal"].state = "preparing" /\ disk'["journal"].by = q
    BY DEF OwnersApart, Creating
  <2>1. p \notin Recoverers
    BY <1>3 DEF JournalFirst, OwnersApart
  <2>2. q \in Recoverers => pc[q] # "acquire"
    BY <1>3 DEF JournalFirst, OwnersApart
  <2>3. pc[q] = "acquire" => journal[q] = "preparing" /\ (q \notin Recoverers => owner[q] = q)
    BY DEF JournalFirst, OwnersApart
  <2>4. pc'[q] \in Creating => q = p
    BY <1>4, Places
  <2> QED BY <1>2, <1>7, <2>1, <2>2, <2>3, <2>4 DEF Creating
<1>11. FilesFit(y, h)'
  <2>1. Claimed(h)' = Claimed(h)
    BY DEF Claimed
  <2>2. \A k \in Kinds \ {"journal"} :
            disk[k] \in {Absent, Torn} \/ (k = "claim" /\ disk[k] = Claimed(h))
    BY <1>5 DEF Agree, FilesFit, Fits
  <2>3. \A k \in Kinds : staged[k] \in {Absent, Torn}
    BY <1>5 DEF Agree, FilesFit, Fits
  <2> QED BY <1>6, <2>1, <2>2, <2>3 DEF FilesFit, Fits
<1>12. WritersAgree(y, h)'
  <2>1. pc'[p] \notin {"open", "fill"}
    BY <1>7
  <2>2. \A q \in Procs : pc'[q] \in {"open", "fill"} => pc'[q] \in Transacting
    BY DEF Transacting, Working
  <2> QED BY <1>4, <1>8, <2>1, <2>2 DEF WritersAgree
<1>13. h \in Executors /\ h \in Procs /\ batch[h] > Len(Batches)
  BY DEF Agree, Holds, Procs, Finalizing
<1>14. Holds(h)'
  <2>1. disk'["claim"] = disk["claim"]
    BY <1>6 DEF Kinds
  <2> QED BY <1>2, <1>13, <2>1 DEF Agree, Holds
<1>15. Truthful(y, h)'
  <2>1. \A c : Honest(c, h)' <=> Honest(c, h)
    BY DEF Honest, OverallStatus
  <2>2. \A q \in Procs : pc'[q] = "acquire" => pc[q] = "acquire"
    BY <1>2
  <2> QED BY <1>3, <2>1, <2>2 DEF Agree, Truthful
<1> QED BY <1>9, <1>10, <1>11, <1>12, <1>14, <1>15 DEF Agree, JournalFirst

\* The journal is created, or found to be that of this receipt.
LEMMA AcquireAgrees ==
    ASSUME TypeInv, JournalFirst, NEW x \in Content \cup {None},
           NEW h \in Executors \cup {None}, Agree(x, h), NEW p \in Procs, Acquire(p)
    PROVE  JournalFirst' /\ \E y \in Content \cup {None} : Agree(y, h)'
<1> DEFINE found == disk["journal"]
<1>1. pc[p] = "acquire" /\ UNCHANGED <<staged, stamp, batch, results, invoked>>
  BY DEF Acquire, executing
<1>2. /\ pc \in [Procs -> Labels] /\ disk \in [Kinds -> File] /\ content[p] \in Content
      /\ file \in [Procs -> Kinds] /\ owner \in [Procs -> Procs \cup {None}]
      /\ journal \in [Procs -> JournalStates]
  BY <1>1 DEF TypeInv, ControlType, DataType, Entered, Finalizing
<1>3. CASE /\ found = Absent
           /\ disk' = [disk EXCEPT !["journal"] = Torn]
           /\ file' = [file EXCEPT ![p] = "journal"]
           /\ fd' = [fd EXCEPT ![p] = "final"]
           /\ Goto(p, "writeJournal")
           /\ UNCHANGED <<content, owner, journal, seen>>
  <2>1. PICK y \in Content : y = content[p]
    BY <1>2
  <2>2. JournalFirst' /\ Agree(y, h)'
    BY <1>1, <1>3, <2>1, JournalCreated
  <2> QED BY <2>2
<1>4. ASSUME found.state \in JournalStates, found.content = content[p],
             found.state = "preparing" => found.by = owner[p],
             NEW label \in {"open", "cas", "verify"}, Goto(p, label),
             \A q \in Procs \ {p} : /\ file'[q] = file[q]
                                    /\ owner'[q] = owner[q] /\ journal'[q] = journal[q],
             label = "open" => file'[p] = "receipt",
             UNCHANGED <<disk, content, seen>>
      PROVE  JournalFirst' /\ Agree(x, h)'
  <2>1. content[p] = x /\ found # Absent
    BY <1>4, JournalNames
  <2>2. ~ Unpublished
    <3> SUFFICES ASSUME Unpublished PROVE FALSE
      OBVIOUS
    <3>1. PICK q \in Procs : pc[q] \in Revocable
      BY <2>1 DEF Unpublished
    <3>2. /\ SoloRecovery /\ q \notin Recoverers
          /\ found.state = "preparing" /\ found.by = q
          /\ pc[q] \in {"syncJournal", "unlinkJournal"}
      BY <1>4, <3>1, ReadableJournal
    <3>3. owner[p] = q
      BY <1>4, <3>2
    <3>4. p \notin Recoverers /\ owner[p] = p
      BY <1>1, <3>2 DEF JournalFirst, OwnersApart
    <3> QED BY <1>1, <3>2, <3>3, <3>4
  <2>3. FilesFit(x, h)'
    BY <1>1, <1>4, FilesStay
  <2>4. label \in Working /\ pc[p] \in Finalizing
    BY <1>1 DEF Working, Finalizing
  <2>5. UNCHANGED <<stamp, batch, results, content>>
    BY <1>1, <1>4
  <2>6. label # "fill" /\ ~ (label = "open" /\ file'[p] = "claim")
    BY <1>4
  <2> QED BY <1>4, <2>1, <2>2, <2>3, <2>4, <2>5, <2>6, WorkAgrees
<1>5. CASE /\ found.content = content[p]
           /\ found.state = "preparing"
           /\ found.by = owner[p]
           /\ Goto(p, "open")
           /\ file' = [file EXCEPT ![p] = "receipt"]
           /\ UNCHANGED <<disk, fd, content, owner, journal, seen>>
  BY <1>2, <1>4, <1>5 DEF JournalStates
<1>6. CASE /\ found.content = content[p]
           /\ found.state \in {"artifacts_committed", "claim_committed"}
           /\ owner' = [owner EXCEPT ![p] = found.by]
           /\ journal' = [journal EXCEPT ![p] = found.state]
           /\ Goto(p, IF found.state = "claim_committed" THEN "verify" ELSE "cas")
           /\ UNCHANGED <<disk, file, fd, content, seen>>
  BY <1>2, <1>4, <1>6 DEF JournalStates
<1>7. CASE Halt(p) /\ UNCHANGED disk
  BY <1>1, <1>7, HaltAgrees
<1> QED BY <1>3, <1>5, <1>6, <1>7, Zenon DEF Acquire

\* A step of the creator of the journal on its way to a published journal.
LEMMA CreatorStep ==
    ASSUME TypeInv, JournalFirst, NEW x, NEW h \in Executors \cup {None}, Agree(x, h),
           NEW p \in Procs, pc[p] \in Creating, NEW label \in {"syncJournal", "unlinkJournal"},
           Goto(p, label),
           label \in Revocable => pc[p] \in Revocable,
           label = "unlinkJournal" => SoloRecovery \/ disk'["journal"] = Torn,
           UNCHANGED <<staged, stamp, batch, results, content, owner, journal, seen, fd>>,
           UNCHANGED file,
           disk' = disk \/ /\ disk' = [disk EXCEPT !["journal"] = JournalRecord(p)]
                           /\ pc[p] = "writeJournal"
    PROVE  JournalFirst' /\ Agree(x, h)'
<1>1. /\ pc' = [pc EXCEPT ![p] = label] /\ pc \in [Procs -> Labels]
      /\ disk \in [Kinds -> File] /\ journal \in [Procs -> JournalStates]
  BY DEF Goto, TypeInv, ControlType, DataType
<1>2. \A q \in Procs : pc'[q] = pc[q] \/ (q = p /\ pc'[q] = label)
  BY <1>1
<1>3. pc'[p] = label /\ pc[p] \in Transacting /\ label \in Transacting
  BY <1>1, Places DEF Creating, Transacting
<1>4. Transacting' = Transacting /\ Revocable' = Revocable
  BY DEF Transacting, Creating, Working, Revocable
<1>5. \A q \in Procs : /\ pc'[q] \in Transacting <=> pc[q] \in Transacting
                       /\ pc'[q] \in Revocable => pc[q] \in Revocable
  BY <1>2, <1>3
<1>6. /\ JournalRecord(p).state = journal[p] /\ JournalRecord(p).by = owner[p]
      /\ JournalRecord(p).content = content[p] /\ content[p] = x
  BY <1>3 DEF JournalRecord, Blank, Agree, WritersAgree
<1>7. Settled(JournalRecord(p)) /\ JournalRecord(p) # Absent
  BY <1>1, <1>6 DEF Settled, JournalStates, Absent, Blank
<1>8. disk["journal"] # Absent /\ disk'["journal"] # Absent
  BY <1>1, <1>3, <1>7 DEF JournalFirst, Founding, Kinds
<1>9. Unpublished' => Unpublished
  BY <1>4, <1>5, <1>8 DEF Unpublished
<1>10. \A k \in Kinds \ {"journal"} : disk'[k] = disk[k]
  BY <1>1
<1>11. disk'["journal"] # disk["journal"] =>
          disk'["journal"] = JournalRecord(p) /\ pc[p] = "writeJournal"
  BY <1>1 DEF Kinds
<1>12. Founding'
  <2>1. \A q \in Procs : pc'[q] \in Revocable =>
            \A r \in Procs : pc'[r] \in Transacting => r = q
    BY <1>5 DEF JournalFirst, Founding
  <2>2. ASSUME NEW q \in Procs, pc'[q] = "writeJournal"
        PROVE  disk'["journal"] = Torn /\ fd'[q] = "final"
    <3>1. q # p /\ pc[q] = "writeJournal"
      BY <1>2, <1>3, <2>2
    <3>2. pc[q] \in Revocable
      BY <3>1, Places
    <3> QED BY <1>3, <3>1, <3>2 DEF JournalFirst, Founding
  <2>3. ASSUME NEW q \in Procs, pc'[q] = "unlinkJournal"
        PROVE  SoloRecovery \/ disk'["journal"] = Torn
    <3>1. CASE q = p
      BY <1>3, <2>3, <3>1
    <3>2. CASE q # p
      <4>1. pc[q] = "unlinkJournal"
        BY <1>2, <2>3, <3>2
      <4>2. pc[q] \in Revocable
        BY <4>1, Places
      <4>3. q = p
        BY <1>3, <4>2 DEF JournalFirst, Founding
      <4> QED BY <3>2, <4>3
    <3> QED BY <3>1, <3>2
  <2>4. Unpublished' => \A k \in Kinds : /\ k # "journal" => ~ Settled(disk'[k])
                                         /\ ~ Settled(staged'[k])
    BY <1>9, <1>10 DEF JournalFirst, Founding
  <2> QED BY <1>4, <1>8, <2>1, <2>2, <2>3, <2>4 DEF Founding, Settled
<1>13. OwnersApart'
  <2> SUFFICES ASSUME SoloRecovery, NEW q \in Procs
               PROVE  /\ pc'[q] \in {"acquire", "writeJournal"} =>
                            journal'[q] = "preparing" /\ (q \notin Recoverers => owner'[q] = q)
                      /\ q \in Recoverers =>
                            pc'[q] \notin Creating /\ (pc'[q] = "acquire" => ~ Unpublished')
                      /\ pc'[q] \in {"syncJournal", "unlinkJournal"} =>
                            \/ disk'["journal"] = Torn
                            \/ disk'["journal"].state = "preparing" /\ disk'["journal"].by = q
    BY DEF OwnersApart, Creating
  <2>1. pc'[q] \in {"acquire", "writeJournal"} =>
            journal'[q] = "preparing" /\ (q \notin Recoverers => owner'[q] = q)
    BY <1>2 DEF JournalFirst, OwnersApart
  <2>2. p \notin Recoverers
    BY DEF JournalFirst, OwnersApart
  <2>3. q \in Recoverers => pc'[q] \notin Creating /\ (pc'[q] = "acquire" => ~ Unpublished')
    BY <1>2, <1>9, <2>2 DEF JournalFirst, OwnersApart
  <2>4. ASSUME pc'[q] \in {"syncJournal", "unlinkJournal"}
        PROVE  \/ disk'["journal"] = Torn
               \/ disk'["journal"].state = "preparing" /\ disk'["journal"].by = q
    <3>1. Revocable = Creating /\ pc'[q] \in Revocable
      BY <2>4, Places DEF Creating
    <3>2. q = p
      BY <1>3, <1>5, <3>1 DEF JournalFirst, Founding
    <3>3. CASE pc[p] = "writeJournal"
      <4>1. journal[p] = "preparing" /\ owner[p] = p /\ disk["journal"] = Torn
        BY <2>2, <3>3 DEF JournalFirst, OwnersApart, Founding
      <4> QED BY <1>6, <1>11, <3>2, <4>1
    <3>4. CASE pc[p] # "writeJournal"
      <4>1. pc[p] \in {"syncJournal", "unlinkJournal"} /\ disk'["journal"] = disk["journal"]
        BY <1>11, <3>4 DEF Creating
      <4> QED BY <3>2, <4>1 DEF JournalFirst, OwnersApart
    <3> QED BY <3>3, <3>4
  <2> QED BY <2>1, <2>3, <2>4
<1>14. FilesFit(x, h)'
  <2>1. "journal" \in Kinds /\ Fits("journal", JournalRecord(p), x, h)
    BY <1>6, <1>7 DEF Fits, Kinds
  <2> QED BY <2>1, PutFits DEF Agree
<1>15. WritersAgree(x, h)'
  <2>1. \A q \in Procs : pc'[q] \in {"open", "fill"} => pc[q] = pc'[q]
    BY <1>2
  <2> QED BY <1>4, <1>5, <2>1 DEF Agree, WritersAgree
<1>16. Holds(h)'
  <2>1. h \in Executors /\ h \in Procs /\ batch[h] > Len(Batches)
    BY <1>8 DEF Agree, Holds, Procs
  <2>2. disk'["claim"] = disk["claim"]
    BY <1>10 DEF Kinds
  <2> QED BY <1>2, <2>1, <2>2 DEF Agree, Holds
<1>17. Truthful(x, h)'
  <2>1. \A c : Honest(c, h)' <=> Honest(c, h)
    BY DEF Honest, OverallStatus
  <2>2. \A q \in Procs : pc'[q] = "acquire" => pc[q] = "acquire"
    BY <1>2
  <2> QED BY <1>8, <1>9, <2>1, <2>2 DEF Agree, Truthful
<1> QED BY <1>12, <1>13, <1>14, <1>15, <1>16, <1>17 DEF Agree, JournalFirst

\* The journal is written: everybody can read it, its creator has yet to sync it.
LEMMA WriteJournalAgrees ==
    ASSUME TypeInv, JournalFirst, NEW x, NEW h \in Executors \cup {None}, Agree(x, h),
           NEW p \in Procs, WriteJournal(p)
    PROVE  JournalFirst' /\ Agree(x, h)'
<1>1. /\ pc[p] = "writeJournal" /\ Goto(p, "syncJournal")
      /\ disk' = [disk EXCEPT !["journal"] = JournalRecord(p)]
      /\ UNCHANGED <<staged, stamp, batch, results, content, file, owner, journal, seen, fd>>
  BY DEF WriteJournal, executing, finalizing, JournalFirst, Founding
<1>2. pc[p] \in Creating /\ pc[p] \in Revocable
  BY <1>1, Places DEF Creating
<1> QED BY <1>1, <1>2, CreatorStep

\* The journal is on the disk to stay: the transaction is published.
LEMMA ConfirmJournalAgrees ==
    ASSUME TypeInv, JournalFirst, NEW x, NEW h \in Executors \cup {None}, Agree(x, h),
           NEW p \in Procs, ConfirmJournal(p)
    PROVE  JournalFirst' /\ Agree(x, h)'
<1>1. pc[p] = "syncJournal" /\ UNCHANGED <<disk, staged, stamp, batch, results>>
  BY DEF ConfirmJournal, storage, executing
<1>2. CASE Halt(p)
  BY <1>1, <1>2, HaltAgrees
<1>3. CASE /\ fd' = [fd EXCEPT ![p] = "none"]
           /\ file' = [file EXCEPT ![p] = "receipt"]
           /\ Goto(p, "open")
           /\ UNCHANGED <<content, owner, journal, seen>>
  <2>1. /\ pc' = [pc EXCEPT ![p] = "open"] /\ pc \in [Procs -> Labels]
        /\ file \in [Procs -> Kinds]
    BY <1>3 DEF Goto, TypeInv, ControlType
  <2>2. pc'[p] = "open" /\ file'[p] = "receipt" /\ \A q \in Procs \ {p} :
                              pc'[q] = pc[q] /\ file'[q] = file[q]
    BY <1>3, <2>1
  <2>3. pc[p] \in Transacting /\ "open" \in Transacting
    BY <1>1 DEF Transacting, Creating, Working
  <2>4. "open" \notin {"acquire"} \cup Creating
    BY DEF Creating
  <2>5. (Unpublished' => Unpublished) /\ OwnersApart'
    BY <1>1, <1>3, <2>4, OwnersStay
  <2>6. Transacting' = Transacting /\ Revocable' = Revocable
    BY DEF Transacting, Creating, Working, Revocable
  <2>7. \A q \in Procs : /\ pc'[q] \in Transacting <=> pc[q] \in Transacting
                         /\ pc'[q] \in Revocable => pc[q] \in Revocable
    BY <2>2, <2>3 DEF Revocable
  <2>8. Founding'
    <3>1. \A q \in Procs : pc'[q] = "writeJournal" =>
              /\ disk'["journal"] = Torn /\ fd'[q] = "final"
      <4> SUFFICES ASSUME NEW q \in Procs, pc'[q] = "writeJournal" PROVE FALSE
        OBVIOUS
      <4>1. pc[q] = "writeJournal" /\ q # p
        BY <2>2
      <4>2. pc[q] \in Revocable
        BY <4>1, Places
      <4> QED BY <2>3, <4>1, <4>2 DEF JournalFirst, Founding
    <3>2. \A q \in Procs : pc'[q] = "unlinkJournal" => pc[q] = "unlinkJournal"
      BY <2>2
    <3> QED BY <1>1, <2>5, <2>6, <2>7, <3>1, <3>2 DEF JournalFirst, Founding, Settled
  <2>9. FilesFit(x, h)'
    BY <1>1, FilesStay
  <2>10. WritersAgree(x, h)'
    BY <1>1, <1>3, <2>2, <2>6, <2>7 DEF Agree, WritersAgree
  <2>11. Holds(h)'
    <3>1. h \in Executors /\ h \in Procs /\ batch[h] > Len(Batches)
      BY <1>1 DEF Agree, Holds, Procs, Finalizing
    <3> QED BY <1>1, <2>2, <3>1 DEF Agree, Holds
  <2>12. Truthful(x, h)'
    <3>1. \A c : Honest(c, h)' <=> Honest(c, h)
      BY <1>1 DEF Honest, OverallStatus
    <3>2. \A q \in Procs : pc'[q] = "acquire" => pc[q] = "acquire"
      BY <2>2
    <3> QED BY <1>1, <1>3, <2>5, <3>1, <3>2 DEF Agree, Truthful
  <2> QED BY <2>5, <2>8, <2>9, <2>10, <2>11, <2>12 DEF Agree, JournalFirst
<1> QED BY <1>2, <1>3 DEF ConfirmJournal

\* What a finalizer writes is a file of the transaction.
LEMMA DraftFits ==
    ASSUME TypeInv, NEW x, NEW h, Agree(x, h), NEW p \in Procs, pc[p] = "fill"
    PROVE  Fits(file[p], Draft(p), x, h) /\ Settled(Draft(p))
<1>1. pc[p] \in Finalizing /\ content[p] = x
  BY DEF Finalizing, Agree, WritersAgree, Transacting, Working
<1>2. content[p] \in Content /\ journal[p] \in JournalStates
  BY <1>1 DEF TypeInv, ControlType, Entered
<1>3. CASE file[p] = "claim"
  <2>1. seen[p].by = h /\ seen[p].stamp = stamp[h] /\ seen[p] \in File
    BY <1>3 DEF Agree, WritersAgree, TypeInv, ControlType
  <2>2. Draft(p) = [seen[p] EXCEPT !.state = STATUS_TO_CLAIM_STATE[x.status], !.content = x]
    BY <1>1, <1>3 DEF Draft
  <2>3. /\ Draft(p).state = STATUS_TO_CLAIM_STATE[x.status]
        /\ Draft(p).content = x
        /\ Draft(p).by = h
        /\ Draft(p).stamp = stamp[h]
    BY <2>1, <2>2 DEF File
  <2>4. Draft(p).state \in Terminal
    BY <1>1, <1>3, DraftType
  <2> QED BY <2>3, <2>4 DEF Fits, Settled, Terminal
<1>4. CASE file[p] = "journal"
  <2>1. Draft(p).state = journal[p] /\ Draft(p).content = x
    BY <1>1, <1>4 DEF Draft, JournalRecord, Blank
  <2> QED BY <1>2, <1>4, <2>1 DEF Fits, Settled, JournalStates
<1>5. CASE file[p] \notin {"claim", "journal"}
  <2>1. Draft(p).state = "written" /\ Draft(p).content = x
    BY <1>1, <1>5 DEF Draft, Blank
  <2> QED BY <1>5, <2>1 DEF Fits, Settled
<1> QED BY <1>3, <1>4, <1>5

\* What holds of a process that works in the transaction before its step.
LEMMA Works ==
    ASSUME TypeInv, JournalFirst, NEW x, NEW h, Agree(x, h), NEW p \in Procs, pc[p] \in Working
    PROVE  /\ ~ Unpublished
           /\ disk["journal"] # Absent
           /\ pc[p] \in Finalizing
           /\ content[p] = x
           /\ disk \in [Kinds -> File] /\ file \in [Procs -> Kinds] /\ seen \in [Procs -> File]
           /\ owner \in [Procs -> Procs \cup {None}] /\ journal \in [Procs -> JournalStates]
BY WorkIsPublished, Places
DEF Unpublished, Agree, WritersAgree, TypeInv, ControlType, DataType

\* The temporary file is created.
LEMMA OpenAgrees ==
    ASSUME TypeInv, JournalFirst, NEW x, NEW h, Agree(x, h), NEW p \in Procs, Open(p)
    PROVE  JournalFirst' /\ Agree(x, h)'
<1>1. /\ pc[p] = "open" /\ Goto(p, "fill")
      /\ staged' = [staged EXCEPT ![file[p]] = Torn]
      /\ UNCHANGED <<disk, stamp, batch, results, content, file, owner, journal, seen>>
  BY DEF Open, executing
<1>2. pc[p] \in Working /\ "fill" \in Working
  BY <1>1 DEF Working
<1>3. FilesFit(x, h)'
  <2>1. file[p] \in Kinds /\ Fits(file[p], Torn, x, h)
    BY <1>2, Works DEF Fits
  <2> QED BY <1>1, <2>1, PutFits DEF Agree
<1>4. file'[p] = "claim" => seen'[p].by = h /\ seen'[p].stamp = stamp[h]
  BY <1>1 DEF Agree, WritersAgree
<1> QED BY <1>1, <1>2, <1>3, <1>4, Works, WorkAgrees

\* The temporary file is filled, wherever it is by now.
LEMMA FillAgrees ==
    ASSUME TypeInv, JournalFirst, NEW x, NEW h \in Executors \cup {None}, Agree(x, h),
           NEW p \in Procs, Fill(p)
    PROVE  JournalFirst' /\ Agree(x, h)'
<1>1. /\ pc[p] = "fill"
      /\ staged' = IF fd[p] = "tmp" THEN [staged EXCEPT ![file[p]] = Draft(p)] ELSE staged
      /\ disk' = IF fd[p] = "final" THEN [disk EXCEPT ![file[p]] = Draft(p)] ELSE disk
      /\ UNCHANGED <<stamp, batch, results>>
  BY DEF Fill, executing
<1>2. pc[p] \in Working
  BY <1>1 DEF Working
<1>3. Fits(file[p], Draft(p), x, h) /\ Settled(Draft(p)) /\ file[p] \in Kinds
  BY <1>1, <1>2, Works, DraftFits
<1>4. FilesFit(x, h)'
  BY <1>1, <1>3, PutFits DEF Agree
<1>5. disk'["journal"] # Absent
  <2>1. Draft(p) # Absent
    BY <1>3 DEF Settled, Absent, Blank
  <2> QED BY <1>1, <1>2, <2>1, Works DEF Kinds
<1>6. PICK label \in {"open", "promote", "stopped", "idle"} :
        /\ Goto(p, label)
        /\ label = "idle" => p \in Recoverers
        /\ UNCHANGED <<content, owner, journal, seen>>
        /\ \A q \in Procs \ {p} : file'[q] = file[q]
        /\ label = "open" => file'[p] = "bundle"
  <2>1. CASE Halt(p)
    BY <2>1 DEF Halt
  <2>2. CASE ~ Halt(p)
    BY <2>2, <1>2, Works DEF Fill
  <2> QED BY <2>1, <2>2
<1>7. ~ (label \in {"open", "fill"} /\ file'[p] = "claim")
  BY <1>6
<1>8. label = "idle" => p # h
  BY <1>6, ProcsAssumption
<1>9. label \in Working \cup {"stopped", "done", "idle"}
  BY DEF Working
<1> QED BY <1>1, <1>2, <1>4, <1>5, <1>6, <1>7, <1>8, <1>9, Works, WorkAgrees

\* A temporary file is published.
LEMMA PromoteAgrees ==
    ASSUME TypeInv, JournalFirst, NEW x, NEW h \in Executors \cup {None}, Agree(x, h),
           NEW p \in Procs, Promote(p)
    PROVE  JournalFirst' /\ Agree(x, h)'
<1>1. pc[p] = "promote" /\ UNCHANGED <<stamp, batch, results>>
  BY DEF Promote, executing
<1>2. pc[p] \in Working
  BY <1>1 DEF Working
<1>3. CASE staged[file[p]] = Absent /\ Halt(p) /\ UNCHANGED storage
  BY <1>1, <1>3, HaltAgrees DEF storage
<1>4. CASE staged[file[p]] # Absent
  <2>1. /\ disk' = [disk EXCEPT ![file[p]] = staged[file[p]]]
        /\ staged' = [staged EXCEPT ![file[p]] = Absent]
        /\ file' = [file EXCEPT ![p] = IF file[p] = "receipt" THEN "bundle" ELSE "journal"]
        /\ UNCHANGED <<content, owner, seen>>
    BY <1>4 DEF Promote
  <2>2. PICK label \in {"promote", "open", "cas", "verify"} : Goto(p, label)
    BY <1>4, Zenon DEF Promote
  <2>3. file[p] \in Kinds
    BY <1>2, Works
  <2>4. Fits(file[p], staged[file[p]], x, h)
    BY <1>4, <2>3 DEF Agree, FilesFit
  <2>5. FilesFit(x, h)'
    BY <1>1, <2>1, <2>3, <2>4, PutFits DEF Agree
  <2>6. disk'["journal"] # Absent
    BY <1>2, <1>4, <2>1, <2>3, Works DEF Kinds
  <2>7. file'[p] # "claim" /\ \A q \in Procs \ {p} : file'[q] = file[q] /\ seen'[q] = seen[q]
    BY <1>2, <2>1, Works
  <2>9. \A q \in Procs \ {p} : owner'[q] = owner[q] /\ journal'[q] = journal[q]
    <3>1. journal' = [journal EXCEPT ![p] = CASE file[p] = "bundle" -> "artifacts_committed"
                                              [] file[p] = "claim" -> "claim_committed"
                                              [] OTHER -> journal[p]]
      BY <1>4 DEF Promote
    <3> QED BY <1>2, <2>1, <3>1, Works
  <2>8. label \in Working
    BY DEF Working
  <2> QED BY <1>1, <1>2, <2>1, <2>2, <2>5, <2>6, <2>7, <2>8, <2>9, Works, WorkAgrees
<1> QED BY <1>3, <1>4, Zenon DEF Promote

\* A claim that is not settled yet is that of the holder.
LEMMA ClaimedByHolder ==
    ASSUME NEW x, NEW h, Agree(x, h), disk["claim"].state \notin {"absent", "torn"}
    PROVE  h \in Executors /\ disk["claim"].by = h /\ disk["claim"].stamp = stamp[h]
<1>1. Absent.state = "absent" /\ Torn.state = "torn"
  BY DEF Absent, Torn, Blank
<1>2. disk["claim"] = Claimed(h) \/ (Fits("claim", disk["claim"], x, h) /\ disk["claim"] # Torn)
  BY <1>1 DEF Agree, FilesFit, Kinds
<1>3. Claimed(h).by = h /\ Claimed(h).stamp = stamp[h]
  BY DEF Claimed, Blank
<1> QED BY <1>2, <1>3 DEF Fits, Agree, Holds

\* The terminal CAS guard reads the claim of the holder.
LEMMA CasGuardAgrees ==
    ASSUME TypeInv, JournalFirst, NEW x, NEW h \in Executors \cup {None}, Agree(x, h),
           NEW p \in Procs, CasGuard(p)
    PROVE  JournalFirst' /\ Agree(x, h)'
<1>1. pc[p] = "cas" /\ UNCHANGED <<disk, staged, stamp, batch, results>>
  BY DEF CasGuard, storage, executing
<1>2. pc[p] \in Working /\ "open" \in Working
  BY <1>1 DEF Working
<1>3. FilesFit(x, h)'
  BY <1>1, FilesStay
<1>4. CASE Halt(p)
  BY <1>1, <1>4, HaltAgrees
<1>5. CASE /\ disk["claim"].state = "claimed"
           /\ seen' = [seen EXCEPT ![p] = disk["claim"]]
           /\ file' = [file EXCEPT ![p] = "claim"]
           /\ Goto(p, "open")
           /\ UNCHANGED <<content, owner, journal>>
  <2>1. seen'[p].by = h /\ seen'[p].stamp = stamp[h]
    BY <1>2, <1>5, Works, ClaimedByHolder
  <2>2. \A q \in Procs \ {p} : file'[q] = file[q] /\ seen'[q] = seen[q]
    BY <1>2, <1>5, Works
  <2> QED BY <1>1, <1>2, <1>3, <1>5, <2>1, <2>2, Works, WorkAgrees
<1>6. CASE /\ journal' = [journal EXCEPT ![p] = "claim_committed"]
           /\ file' = [file EXCEPT ![p] = "journal"]
           /\ Goto(p, "open")
           /\ UNCHANGED <<content, owner, seen>>
  <2>1. /\ file'[p] # "claim"
        /\ \A q \in Procs \ {p} : /\ file'[q] = file[q] /\ seen'[q] = seen[q]
                                   /\ owner'[q] = owner[q] /\ journal'[q] = journal[q]
    BY <1>2, <1>6, Works
  <2> QED BY <1>1, <1>2, <1>3, <1>6, <2>1, Works, WorkAgrees
<1> QED BY <1>4, <1>5, <1>6, Zenon DEF CasGuard

\* The verification changes no file.
LEMMA VerifyAgrees ==
    ASSUME TypeInv, JournalFirst, NEW x, NEW h \in Executors \cup {None}, Agree(x, h),
           NEW p \in Procs, Verify(p)
    PROVE  JournalFirst' /\ Agree(x, h)'
<1>1. pc[p] = "verify" /\ UNCHANGED <<disk, staged, stamp, batch, results>>
  BY DEF Verify, storage, executing
<1>2. CASE Halt(p)
  BY <1>1, <1>2, HaltAgrees
<1>3. CASE Goto(p, "done") /\ UNCHANGED finalizing
  <2>1. UNCHANGED <<file, content, owner, journal, seen, fd>>
    BY <1>3 DEF finalizing
  <2>2. "done" \notin Finalizing
    BY DEF Finalizing
  <2> QED BY <1>1, <1>3, <2>1, <2>2, AsideAgrees
<1> QED BY <1>2, <1>3 DEF Verify

\* A step of the finalization keeps the agreement, however many finalizers there are.
LEMMA FinalizeAgrees ==
    ASSUME TypeInv, JournalFirst, NEW x \in Content \cup {None},
           NEW h \in Executors \cup {None}, Agree(x, h), NEW p \in Procs, Finalize(p)
    PROVE  JournalFirst' /\ \E y \in Content \cup {None} : Agree(y, h)'
BY AcquireAgrees, WriteJournalAgrees, ConfirmJournalAgrees, OpenAgrees, FillAgrees,
   PromoteAgrees, CasGuardAgrees, VerifyAgrees DEF Finalize

\* The claim is written: its writer is the holder from now on.
LEMMA WriteClaimAgrees ==
    ASSUME TypeInv, SingleUse, JournalFirst, NEW x, NEW h, Agree(x, h),
           NEW p \in Executors, WriteClaim(p)
    PROVE  JournalFirst' /\ Agree(x, p)'
<1>1. /\ pc[p] = "writeClaim" /\ Goto(p, "syncClaim")
      /\ pc' = [pc EXCEPT ![p] = "syncClaim"]
      /\ disk' = [disk EXCEPT !["claim"] = Claimed(p)]
      /\ UNCHANGED <<staged, stamp, batch, results, content, file, seen, fd, owner, journal>>
  BY DEF WriteClaim, Goto, executing, finalizing
<1>2. p \in Procs /\ pc \in [Procs -> Labels] /\ disk \in [Kinds -> File]
  BY DEF Procs, TypeInv, ControlType, DataType
<1>3. disk["journal"] = Absent /\ \A q \in Procs : pc[q] \notin Finalizing
  BY <1>1, <1>2 DEF SingleUse, FinalizedLater, Early, Confirming
<1>4. \A q \in Procs : pc'[q] \notin Finalizing
  BY <1>1, <1>2, <1>3 DEF Finalizing
<1>5. disk'["claim"] = Claimed(p) /\ disk'["journal"] = disk["journal"]
        /\ \A k \in Kinds : k = "claim" \/ disk'[k] = disk[k]
  BY <1>1, <1>2 DEF Kinds
<1>6. Claimed(p)' = Claimed(p)
  BY <1>1 DEF Claimed
<1>7. \A k \in Kinds : (k # "journal" => ~ Settled(disk[k])) /\ ~ Settled(staged[k])
  BY <1>3 DEF JournalFirst, Founding, Unpublished
<1>8. \A k \in Kinds : /\ k = "claim" \/ disk[k] \in {Absent, Torn}
                       /\ staged[k] \in {Absent, Torn}
  BY <1>3, <1>7 DEF Agree, FilesFit, Fits
<1>9. ~ Settled(Claimed(p))
  BY DEF Settled, Claimed, Blank
<1>10. JournalFirst'
  <2>1. \A q \in Procs : /\ pc'[q] \notin Transacting' /\ pc'[q] \notin Revocable'
                         /\ pc'[q] \notin {"writeJournal", "unlinkJournal"}
    <3>1. Transacting' = Transacting /\ Revocable' = Revocable
      BY DEF Transacting, Creating, Working, Revocable
    <3> QED BY <1>4, <3>1, Places
  <2>2. Founding'
    BY <1>1, <1>5, <1>7, <1>9, <2>1 DEF Founding, Settled
  <2>3. "syncClaim" \notin {"acquire"} \cup Creating
    BY DEF Creating
  <2>4. OwnersApart'
    BY <1>1, <1>2, <1>5, <2>3, OwnersStay
  <2> QED BY <2>2, <2>4 DEF JournalFirst
<1>11. FilesFit(x, p)'
  BY <1>1, <1>5, <1>6, <1>8 DEF FilesFit, Fits
<1>12. WritersAgree(x, p)'
  BY <1>4 DEF WritersAgree, Transacting, Creating, Working, Finalizing
<1>13. Holds(p)'
  <2>1. \A q \in Procs : pc[q] # "dispatch"
    BY <1>1, <1>2 DEF SingleUse, OneClaimant, Claiming, Confirming
  <2> QED BY <1>1, <1>2, <1>3, <1>4, <1>5, <2>1 DEF Holds
<1>14. Truthful(x, p)'
  BY <1>3, <1>4, <1>5 DEF Truthful, Finalizing
<1> QED BY <1>10, <1>11, <1>12, <1>13, <1>14 DEF Agree

\* The claim file is created, or given back by the child that created it.
LEMMA ClaimFileAgrees ==
    ASSUME TypeInv, JournalFirst, NEW x, NEW h, Agree(x, h),
           NEW p \in Procs, NEW label, Goto(p, label),
           label \notin {"dispatch"} \cup Finalizing,
           p = h => label \notin {"idle", "evaluate", "claim", "writeClaim"},
           ~ Settled(disk["claim"]),
           NEW f \in {Absent, Torn}, disk' = [disk EXCEPT !["claim"] = f],
           \A q \in Procs : pc[q] = "writeJournal" => fd'[q] = fd[q],
           UNCHANGED <<staged, stamp, batch, results, file, content, owner, journal, seen>>
    PROVE  JournalFirst' /\ Agree(x, h)'
<1>1. /\ pc' = [pc EXCEPT ![p] = label] /\ pc \in [Procs -> Labels]
      /\ disk \in [Kinds -> File]
  BY DEF Goto, TypeInv, ControlType, DataType
<1>2. \A q \in Procs : pc'[q] = pc[q] \/ (q = p /\ pc'[q] = label)
  BY <1>1
<1>3. \A q \in Procs : pc'[q] \in Finalizing => pc'[q] = pc[q] /\ q # p
  BY <1>1, <1>2
<1>4. disk'["claim"] = f /\ disk'["journal"] = disk["journal"]
        /\ \A k \in Kinds : k = "claim" \/ disk'[k] = disk[k]
  BY <1>1 DEF Kinds
<1>5. ~ Settled(f) /\ f.state \in {"absent", "torn"}
  BY DEF Settled, Absent, Torn, Blank
<1>6. (Unpublished' => Unpublished) /\ OwnersApart'
  <2>1. label \notin {"acquire"} \cup Creating
    BY Places
  <2> QED BY <1>4, <2>1, OwnersStay
<1>7. Founding'
  <2>1. \A q \in Procs : pc'[q] \in Transacting => pc'[q] = pc[q] /\ q # p
    BY <1>3, Places
  <2>2. \A q \in Procs : pc'[q] \in Revocable => pc[q] \in Revocable
    BY <2>1, Places
  <2>3. \A q \in Procs : pc'[q] = "writeJournal" => pc[q] = "writeJournal" /\ fd'[q] = fd[q]
    BY <2>1 DEF Transacting, Creating
  <2>4. \A q \in Procs : pc'[q] = "unlinkJournal" => pc[q] = "unlinkJournal"
    BY <2>1 DEF Transacting, Creating
  <2>5. Transacting' = Transacting /\ Revocable' = Revocable
    BY DEF Transacting, Creating, Working, Revocable
  <2> QED BY <1>4, <1>5, <1>6, <2>1, <2>2, <2>3, <2>4, <2>5 DEF JournalFirst, Founding, Settled
<1>8. FilesFit(x, h)'
  <2>1. "claim" \in Kinds /\ (f = Absent \/ Fits("claim", f, x, h))
    BY DEF Kinds, Fits
  <2> QED BY <2>1, PutFits DEF Agree
<1>9. WritersAgree(x, h)'
  BY <1>3, Places DEF Agree, WritersAgree, Finalizing, Transacting, Creating, Working
<1>10. Holds(h)'
  <2>1. (\E q \in Procs : pc'[q] \in Finalizing)
          => \E q \in Procs : pc[q] \in Finalizing
    BY <1>3
  <2> QED BY <1>2, <1>4, <1>5, <2>1 DEF Agree, Holds, Procs, Finalizing
<1>11. Truthful(x, h)'
  <2>1. \A c : Honest(c, h)' <=> Honest(c, h)
    BY DEF Honest, OverallStatus
  <2>2. \A q \in Procs : pc'[q] = "acquire" => pc[q] = "acquire"
    BY <1>3 DEF Finalizing
  <2> QED BY <1>4, <1>6, <2>1, <2>2 DEF Agree, Truthful
<1> QED BY <1>6, <1>7, <1>8, <1>9, <1>10, <1>11 DEF Agree, JournalFirst

\* The journal is given back by its creator: nothing else names a receipt yet.
LEMMA JournalGivenBack ==
    ASSUME TypeInv, JournalFirst, NEW x, NEW h \in Executors \cup {None}, Agree(x, h),
           NEW p \in Procs, pc[p] = "unlinkJournal",
           NEW label \in {"idle", "stopped"}, Goto(p, label), label = "idle" => p \in Recoverers,
           disk' = [disk EXCEPT !["journal"] = Absent],
           UNCHANGED <<staged, stamp, batch, results, file, content, owner, journal, seen>>
    PROVE  JournalFirst' /\ Agree(x, h)'
<1>1. /\ pc' = [pc EXCEPT ![p] = label] /\ pc \in [Procs -> Labels]
      /\ disk \in [Kinds -> File]
  BY DEF Goto, TypeInv, ControlType, DataType
<1>2. \A q \in Procs : pc'[q] = pc[q] \/ (q = p /\ pc'[q] = label)
  BY <1>1
<1>3. pc[p] \in Revocable /\ label \notin Finalizing
  BY Places DEF Finalizing
<1>4. \A q \in Procs : pc'[q] \notin Transacting
  <2>1. \A q \in Procs : pc[q] \in Transacting => q = p
    BY <1>3 DEF JournalFirst, Founding
  <2>2. pc'[p] = label
    BY <1>1
  <2> QED BY <1>2, <1>3, <2>1, <2>2, Places
<1>5. disk'["journal"] = Absent /\ disk'["claim"] = disk["claim"]
        /\ \A k \in Kinds : k # "journal" => disk'[k] = disk[k]
  BY <1>1 DEF Kinds
<1>6. Unpublished
  BY <1>3 DEF Unpublished
<1>7. Transacting' = Transacting /\ Revocable' = Revocable
  BY DEF Transacting, Creating, Working, Revocable
<1>8. Founding'
  <2>1. \A q \in Procs : /\ pc'[q] \notin Revocable
                         /\ pc'[q] \notin {"writeJournal", "unlinkJournal"}
    BY <1>4, Places
  <2>2. \A k \in Kinds : /\ k # "journal" => ~ Settled(disk'[k])
                         /\ ~ Settled(staged'[k])
    BY <1>5, <1>6 DEF JournalFirst, Founding
  <2> QED BY <1>4, <1>5, <1>7, <2>1, <2>2 DEF Founding, Settled
<1>9. OwnersApart'
  <2>1. \A q \in Procs : pc'[q] \notin Creating
    BY <1>4, Places
  <2>2. \A q \in Procs : pc'[q] = "acquire" => pc[q] = "acquire"
    BY <1>2
  <2>3. SoloRecovery => \A q \in Procs : pc[q] = "acquire" =>
            q \notin Recoverers /\ journal[q] = "preparing" /\ owner[q] = q
    BY <1>6 DEF JournalFirst, OwnersApart
  <2> QED BY <2>1, <2>2, <2>3 DEF OwnersApart, Creating
<1>10. FilesFit(x, h)'
  <2>1. "journal" \in Kinds
    BY DEF Kinds
  <2> QED BY <2>1, PutFits DEF Agree
<1>11. WritersAgree(x, h)'
  <2>1. \A q \in Procs : pc'[q] \notin {"open", "fill"}
    BY <1>4 DEF Transacting, Working
  <2> QED BY <1>4, <1>7, <2>1 DEF WritersAgree
<1>12. Holds(h)'
  <2>1. h \in Executors /\ h \in Procs /\ batch[h] > Len(Batches)
    BY DEF Agree, Holds, Procs, Finalizing
  <2>2. p = h => label # "idle"
    BY <2>1, ProcsAssumption
  <2> QED BY <1>2, <1>5, <2>1, <2>2 DEF Agree, Holds
<1>13. Truthful(x, h)'
  <2>1. \A c : Honest(c, h)' <=> Honest(c, h)
    BY DEF Honest, OverallStatus
  <2>2. \A q \in Procs : pc'[q] = "acquire" => pc[q] = "acquire"
    BY <1>2
  <2> QED BY <1>5, <1>6, <2>1, <2>2 DEF Agree, Truthful
<1> QED BY <1>8, <1>9, <1>10, <1>11, <1>12, <1>13 DEF Agree, JournalFirst

\* An exclusively created file could not be written, synced or checked.
LEMMA FailAgrees ==
    ASSUME TypeInv, JournalFirst, NEW x, NEW h \in Executors \cup {None},
           Agree(x, h), NEW p \in Procs, FailExclusive(p), Orderly
    PROVE  JournalFirst' /\ Agree(x, h)'
<1>1. UNCHANGED <<disk, staged, stamp, batch, results>>
  BY DEF FailExclusive, storage, executing
<1>2. CASE Halt(p)
  BY <1>1, <1>2, HaltAgrees
<1>3. CASE pc[p] \in {"writeClaim", "syncClaim"} /\ Goto(p, "unlinkClaim") /\ UNCHANGED finalizing
  <2>1. UNCHANGED <<file, content, owner, journal, seen, fd>>
    BY <1>3 DEF finalizing
  <2>2. "unlinkClaim" \notin Finalizing
    BY DEF Finalizing
  <2> QED BY <1>1, <1>3, <2>1, <2>2, AsideAgrees
<1>4. CASE /\ pc[p] \in {"writeJournal", "syncJournal"}
           /\ Goto(p, "unlinkJournal")
           /\ UNCHANGED finalizing
  <2>1. UNCHANGED <<file, content, owner, journal, seen, fd>>
    BY <1>4 DEF finalizing
  <2>2. pc[p] \in Creating
    BY <1>4 DEF Creating
  <2>3. pc[p] = "syncJournal" => SoloRecovery
    <3>1. pc'[p] = "unlinkJournal"
      BY <1>4 DEF Goto, TypeInv, ControlType
    <3> QED BY <3>1 DEF Orderly, Steady
  <2>4. pc[p] \in Revocable
    BY <1>4, <2>3 DEF Revocable
  <2>5. SoloRecovery \/ disk'["journal"] = Torn
    BY <1>1, <1>4, <2>3 DEF JournalFirst, Founding
  <2> QED BY <1>1, <1>4, <2>1, <2>2, <2>4, <2>5, CreatorStep
<1> QED BY <1>2, <1>3, <1>4 DEF FailExclusive

\* A child or a finalizer removes the file it created.
LEMMA UnlinkAgrees ==
    ASSUME TypeInv, SingleUse, JournalFirst, NEW x, NEW h \in Executors \cup {None},
           Agree(x, h), NEW p \in Procs, Unlink(p)
    PROVE  JournalFirst' /\ Agree(x, h)'
<1>1. PICK kind \in {"claim", "journal"} :
        /\ pc[p] = IF kind = "claim" THEN "unlinkClaim" ELSE "unlinkJournal"
        /\ disk' = [disk EXCEPT ![kind] = Absent]
  BY DEF Unlink
<1>2. UNCHANGED <<staged, stamp, batch, results, file, content, owner, journal, seen>>
  BY DEF Unlink, executing
<1>3. PICK label \in {"idle", "stopped"} : Goto(p, label) /\ (label = "idle" => p \in Recoverers)
  BY DEF Unlink
<1>4. CASE kind = "claim"
  <2>1. pc[p] = "unlinkClaim"
    BY <1>1, <1>4
  <2>2. disk["claim"] \in {Torn, Claimed(p)}
    BY <2>1 DEF SingleUse, ClaimHeld
  <2>3. ~ Settled(disk["claim"])
    <3>1. Torn.state = "torn" /\ Claimed(p).state = "claimed"
      BY DEF Torn, Claimed, Blank
    <3> QED BY <2>2, <3>1 DEF Settled
  <2>4. \A q \in Procs : pc[q] # "writeJournal"
    BY <2>1 DEF SingleUse, FinalizedLater, Early, Confirming, Finalizing
  <2>5. label \notin {"dispatch"} \cup Finalizing
    BY DEF Finalizing
  <2>6. p = h => label # "idle"
    BY <1>3, ProcsAssumption
  <2> QED BY <1>1, <1>2, <1>3, <1>4, <2>3, <2>4, <2>5, <2>6, ClaimFileAgrees
<1>5. CASE kind = "journal"
  BY <1>1, <1>2, <1>3, <1>5, JournalGivenBack
<1> QED BY <1>4, <1>5

\* The holder dispatches: nobody finalizes yet.
LEMMA DispatchAgrees ==
    ASSUME TypeInv, SingleUse, JournalFirst, NEW x, NEW h \in Executors \cup {None},
           Agree(x, h), NEW p \in Executors, DispatchBatch(p)
    PROVE  JournalFirst' /\ Agree(x, h)'
<1>1. p \in Procs /\ pc[p] = "dispatch" /\ UNCHANGED <<disk, staged, stamp>>
  BY DEF Procs, DispatchBatch, storage
<1>2. CASE Halt(p) /\ UNCHANGED <<batch, results>>
  BY <1>1, <1>2, HaltAgrees
<1>3. CASE UNCHANGED <<pc, finalizing>>
  <2>1. UNCHANGED <<file, content, seen>>
    BY <1>3 DEF finalizing
  <2>2. Dispatching(p)
    BY <1>1, BatchesAssumption DEF Dispatching, DispatchBatch
  <2>3. disk["journal"] = Absent /\ \A q \in Procs : pc[q] \notin Finalizing
    BY <1>1, <2>2 DEF SingleUse, FinalizedLater, Early
  <2>4. JournalFirst'
    <3>1. UNCHANGED <<fd, owner, journal, disk, staged, pc>>
      BY <1>1, <1>3 DEF finalizing
    <3> QED BY <3>1 DEF JournalFirst, Founding, OwnersApart, Unpublished, Settled, Revocable,
                        Creating, Transacting, Working
  <2>5. FilesFit(x, h)'
    BY <1>1, FilesStay
  <2>6. WritersAgree(x, h)'
    BY <1>3, <2>3 DEF WritersAgree, Transacting, Creating, Working, Finalizing
  <2>7. Holds(h)'
    BY <1>1, <1>3, <2>3 DEF Agree, Holds
  <2>8. Truthful(x, h)'
    BY <1>1, <1>3, <2>3 DEF Truthful, Finalizing
  <2> QED BY <2>4, <2>5, <2>6, <2>7, <2>8 DEF Agree
<1> QED BY <1>2, <1>3, Zenon DEF DispatchBatch

\* The holder concludes with the aggregation of its own answers.
LEMMA ConcludeAgrees ==
    ASSUME TypeInv, JournalFirst, NEW x, NEW h \in Executors \cup {None}, Agree(x, h),
           NEW p \in Executors, Conclude(p)
    PROVE  JournalFirst' /\ Agree(x, h)'
<1>1. /\ p \in Procs /\ pc[p] = "dispatch" /\ batch[p] > Len(Batches)
      /\ UNCHANGED <<disk, staged, stamp, batch, results>>
  BY DEF Procs, Conclude, storage, executing
<1>2. p = h
  BY <1>1 DEF Agree, Holds
<1>3. CASE Halt(p)
  BY <1>1, <1>3, HaltAgrees
<1>4. ASSUME NEW now \in Times, Enter(p, [status |-> OverallStatus(p), at |-> now], p)
      PROVE  JournalFirst' /\ Agree(x, h)'
  <2> DEFINE what == [status |-> OverallStatus(p), at |-> now]
  <2>1. what \in Content
    BY OverallStatusType DEF Content
  <2>2. stamp[h] <= now
    <3>1. disk["claim"].state \notin {"absent", "torn"} /\ now >= disk["claim"].stamp
      BY <1>4 DEF Enter, ClaimReadable, Terminal
    <3> QED BY <3>1, ClaimedByHolder
  <2>3. Honest(what, h)
    BY <1>2, <2>1, <2>2 DEF Honest
  <2>4. pc[p] \notin Transacting /\ p \notin Recoverers
    BY <1>1, ProcsAssumption DEF Transacting, Creating, Working
  <2> QED BY <1>1, <1>2, <1>4, <2>3, <2>4, EnterAgrees
<1> QED BY <1>3, <1>4 DEF Conclude

\* Every step of an execute-once child keeps the agreement.
LEMMA ExecuteAgrees ==
    ASSUME TypeInv, SingleUse, JournalFirst, NEW x, NEW h \in Executors \cup {None},
           Agree(x, h), NEW p \in Executors, Execute(p)
    PROVE  JournalFirst' /\ \E g \in Executors \cup {None} : Agree(x, g)'
<1>1. p \in Procs
  BY DEF Procs
<1>2. p = h => pc[p] \notin {"idle", "evaluate", "claim", "writeClaim"}
  BY DEF Agree, Holds
<1>3. {"evaluate", "claim", "writeClaim"} \cap ({"dispatch"} \cup Finalizing) = {}
        /\ "dispatch" \notin Finalizing
  BY DEF Finalizing
<1>4. CASE Load(p)
  <2>1. pc[p] = "idle" /\ UNCHANGED <<disk, staged, stamp, batch, results>>
    BY <1>4 DEF Load, storage, executing
  <2>2. CASE Goto(p, "evaluate") /\ UNCHANGED finalizing
    <3>1. UNCHANGED <<file, content, owner, journal, seen, fd>>
      BY <2>2 DEF finalizing
    <3>2. JournalFirst' /\ Agree(x, h)'
      BY <1>1, <1>2, <1>3, <2>1, <2>2, <3>1, AsideAgrees
    <3> QED BY <3>2
  <2>3. CASE Halt(p)
    BY <1>1, <2>1, <2>3, HaltAgrees
  <2> QED BY <1>4, <2>2, <2>3 DEF Load
<1>5. CASE Evaluate(p)
  <2>1. pc[p] = "evaluate" /\ UNCHANGED <<disk, staged, batch, results>>
    BY <1>5 DEF Evaluate, storage
  <2>2. ASSUME NEW now \in Times, stamp' = [stamp EXCEPT ![p] = now], Goto(p, "claim"),
               UNCHANGED finalizing
        PROVE  JournalFirst' /\ Agree(x, h)'
    <3>1. UNCHANGED <<file, content, owner, journal, seen, fd>>
      BY <2>2 DEF finalizing
    <3>2. h \in Executors => stamp'[h] = stamp[h]
      BY <1>2, <2>1, <2>2 DEF TypeInv, DataType, Procs
    <3> QED BY <1>1, <1>2, <1>3, <2>1, <2>2, <3>1, <3>2, AsideAgrees
  <2>3. CASE Halt(p) /\ UNCHANGED stamp
    BY <1>1, <2>1, <2>3, HaltAgrees
  <2> QED BY <1>5, <2>2, <2>3 DEF Evaluate
<1>6. CASE OpenClaim(p)
  <2>1. pc[p] = "claim" /\ UNCHANGED <<staged, stamp, batch, results>>
    BY <1>6 DEF OpenClaim, executing
  <2>2. CASE /\ disk["claim"] = Absent
             /\ disk' = [disk EXCEPT !["claim"] = Torn]
             /\ Goto(p, "writeClaim")
             /\ UNCHANGED finalizing
    <3>1. UNCHANGED <<file, content, owner, journal, seen, fd>>
      BY <2>2 DEF finalizing
    <3>2. ~ Settled(disk["claim"])
      BY <2>2 DEF Settled, Absent, Blank
    <3>3. JournalFirst' /\ Agree(x, h)'
      BY <1>1, <1>2, <1>3, <2>1, <2>2, <3>1, <3>2, ClaimFileAgrees
    <3> QED BY <3>3
  <2>3. CASE Halt(p) /\ UNCHANGED disk
    BY <1>1, <2>1, <2>3, HaltAgrees
  <2> QED BY <1>6, <2>2, <2>3 DEF OpenClaim
<1>7. CASE WriteClaim(p)
  BY <1>7, WriteClaimAgrees
<1>8. CASE ConfirmClaim(p)
  <2>1. /\ pc[p] = "syncClaim" /\ Goto(p, "dispatch")
        /\ UNCHANGED <<disk, staged, stamp, batch, results, file, content, owner, journal, seen,
                       fd>>
    BY <1>8 DEF ConfirmClaim, storage, executing, finalizing
  <2>2. disk["claim"] = Claimed(p)
    BY <1>1, <2>1 DEF SingleUse, ClaimHeld
  <2>3. disk["claim"].by = p /\ disk["claim"].state = "claimed"
    BY <2>2 DEF Claimed, Blank
  <2>4. p = h
    BY <2>3, ClaimedByHolder
  <2>5. JournalFirst' /\ Agree(x, h)'
    BY <1>1, <1>3, <2>1, <2>4, AsideAgrees
  <2> QED BY <2>5
<1>9. CASE DispatchBatch(p)
  BY <1>9, DispatchAgrees
<1>10. CASE Conclude(p)
  BY <1>10, ConcludeAgrees
<1> QED BY <1>4, <1>5, <1>6, <1>7, <1>8, <1>9, <1>10 DEF Execute

\* A further caller enters with the aggregation of the holder (Repeat), a recovery
\* with anything, but only over a published journal (Recover).
LEMMA CallersAgree ==
    ASSUME TypeInv, JournalFirst, NEW x, NEW h \in Executors \cup {None}, Agree(x, h),
           NEW p \in Procs, pc[p] = "idle",
           UNCHANGED <<disk, staged, stamp, batch, results>>,
           \/ \E c \in Executors, now \in Times :
                /\ p \in Repeaters
                /\ disk["claim"].by = c
                /\ batch[c] > Len(Batches)
                /\ Enter(p, [status |-> OverallStatus(c), at |-> now], p)
           \/ \E what \in Content :
                /\ p \in Recoverers
                /\ SoloRecovery => \A q \in Procs : pc[q] \notin Finalizing
                /\ disk["journal"].state \in {"preparing", "artifacts_committed"}
                /\ Enter(p, what, disk["journal"].by)
    PROVE  JournalFirst' /\ Agree(x, h)'
<1>1. pc[p] \notin Transacting
  BY DEF Transacting, Creating, Working
<1>2. ASSUME NEW c \in Executors, NEW now \in Times, p \in Repeaters, disk["claim"].by = c,
             batch[c] > Len(Batches), Enter(p, [status |-> OverallStatus(c), at |-> now], p)
      PROVE  JournalFirst' /\ Agree(x, h)'
  <2> DEFINE what == [status |-> OverallStatus(c), at |-> now]
  <2>1. disk["claim"].state \notin {"absent", "torn"} /\ now >= disk["claim"].stamp
    BY <1>2 DEF Enter, ClaimReadable, Terminal
  <2>2. h = c /\ stamp[h] <= now
    BY <1>2, <2>1, ClaimedByHolder
  <2>3. what \in Content
    BY OverallStatusType DEF Content
  <2>4. Honest(what, h)
    BY <2>2, <2>3 DEF Honest
  <2>5. p \notin Recoverers
    BY <1>2, ProcsAssumption
  <2> QED BY <1>1, <1>2, <2>2, <2>4, <2>5, EnterAgrees
<1>3. ASSUME NEW what \in Content, p \in Recoverers,
             SoloRecovery => \A q \in Procs : pc[q] \notin Finalizing,
             disk["journal"].state \in {"preparing", "artifacts_committed"},
             Enter(p, what, disk["journal"].by)
      PROVE  JournalFirst' /\ Agree(x, h)'
  <2>0. disk["journal"].state \in JournalStates
    BY <1>3 DEF JournalStates
  <2>1. ~ Unpublished
    <3> SUFFICES ASSUME Unpublished PROVE FALSE
      OBVIOUS
    <3>1. SoloRecovery /\ disk["journal"] # Absent
      BY <2>0, ReadableJournal, JournalNames
    <3>2. \A q \in Procs : pc[q] \notin Revocable
      BY <1>3, <3>1, Places
    <3> QED BY <3>1, <3>2 DEF Unpublished
  <2>2. h \in Executors /\ batch[h] > Len(Batches)
    BY <2>1 DEF Agree, Holds, Unpublished
  <2> QED BY <1>1, <1>3, <2>1, <2>2, EnterAgrees
<1> QED BY <1>2, <1>3

\* A result is recorded only for an operation that was invoked, and a batch is
\* behind the child only when every operation in it has a result.
LEMMA AccountedStep == TypeInv /\ Accounted /\ [Next]_vars => Accounted'
<1> SUFFICES ASSUME TypeInv, Accounted, [Next]_vars PROVE Accounted'
  OBVIOUS
<1>1. ASSUME UNCHANGED <<invoked, batch, results>> PROVE Accounted'
  BY <1>1 DEF Accounted
<1>2. ASSUME NEW p \in Executors, DispatchBatch(p) PROVE Accounted'
  <2> DEFINE ops == Batches[batch[p]]
  <2>1. /\ p \in Procs
        /\ Len(Batches) \in Nat
        /\ batch[p] \in 1 .. Len(Batches)
        /\ Batches \in Seq(SUBSET Ops)
    BY <1>2, BatchesAssumption DEF Procs, DispatchBatch
  <2>2. ops \subseteq Ops
    BY <2>1
  <2>3. /\ invoked \in [Ops -> Nat]
        /\ batch \in [Procs -> 1 .. Len(Batches) + 1]
        /\ results \in [Procs -> [Ops -> {"none", "succeeded", "failed"}]]
    BY DEF TypeInv, DataType
  <2>4. CASE UNCHANGED <<results, batch>>
    <3>1. \A o \in Ops : invoked[o] # 0 => invoked'[o] # 0
      <4>1. \/ invoked' = [o \in Ops |-> IF o \in ops THEN invoked[o] + 1 ELSE invoked[o]]
            \/ UNCHANGED invoked
        BY <1>2, Zenon DEF DispatchBatch
      <4> QED BY <2>3, <4>1
    <3> QED BY <2>4, <3>1 DEF Accounted
  <2>5. ASSUME NEW answer \in [ops -> {"succeeded", "failed"}],
               results' = [results EXCEPT ![p] =
                    [o \in Ops |-> IF o \in ops THEN answer[o] ELSE results[p][o]]],
               batch' = [batch EXCEPT ![p] = batch[p] + 1],
               invoked' = [o \in Ops |-> IF o \in ops THEN invoked[o] + 1 ELSE invoked[o]]
        PROVE  Accounted'
    <3>1. \A o \in ops : invoked'[o] # 0 /\ answer[o] # "none"
      BY <2>2, <2>3, <2>5
    <3>2. \A o \in Ops : invoked[o] # 0 => invoked'[o] # 0
      BY <2>3, <2>5
    <3>3. \A o \in Ops : results'[p][o] = IF o \in ops THEN answer[o] ELSE results[p][o]
      BY <2>1, <2>3, <2>5
    <3>4. batch'[p] = batch[p] + 1
      BY <2>1, <2>3, <2>5
    <3>5. \A q \in Executors \ {p} : results'[q] = results[q] /\ batch'[q] = batch[q]
      BY <2>3, <2>5 DEF Procs
    <3> HIDE DEF ops
    <3>6. \A o \in Ops : results'[p][o] # "none" => invoked'[o] # 0
      BY <3>1, <3>2, <3>3 DEF Accounted
    <3>7. ASSUME NEW i \in 1 .. batch'[p] - 1, NEW o \in Batches[i]
          PROVE  results'[p][o] # "none"
      <4>1. o \in Ops
        BY <2>1, <3>4, <3>7
      <4>2. CASE i = batch[p]
        <5>1. o \in ops
          BY <3>7, <4>2 DEF ops
        <5> QED BY <3>1, <3>3, <4>1, <5>1
      <4>3. CASE i # batch[p]
        <5>1. i \in 1 .. batch[p] - 1
          BY <2>1, <3>4, <3>7, <4>3
        <5>2. results[p][o] # "none"
          BY <3>7, <5>1 DEF Accounted
        <5> QED BY <3>1, <3>3, <4>1, <5>2
      <4> QED BY <4>2, <4>3
    <3>8. \A q \in Executors \ {p} :
            /\ \A i \in 1 .. batch'[q] - 1 : \A o \in Batches[i] : results'[q][o] # "none"
            /\ \A o \in Ops : results'[q][o] # "none" => invoked'[o] # 0
      BY <3>2, <3>5 DEF Accounted
    <3> QED BY <3>6, <3>7, <3>8 DEF Accounted
  <2> HIDE DEF ops
  <2>6. \/ UNCHANGED <<results, batch>>
        \/ \E answer \in [ops -> {"succeeded", "failed"}] :
             /\ results' = [results EXCEPT ![p] =
                    [o \in Ops |-> IF o \in ops THEN answer[o] ELSE results[p][o]]]
             /\ batch' = [batch EXCEPT ![p] = batch[p] + 1]
             /\ invoked' = [o \in Ops |-> IF o \in ops THEN invoked[o] + 1 ELSE invoked[o]]
    BY <1>2, Zenon DEF DispatchBatch, ops
  <2> QED BY <2>4, <2>5, <2>6, Zenon
<1>3. ASSUME NEW p \in Executors, Execute(p) PROVE Accounted'
  <2>1. CASE ~ DispatchBatch(p)
    BY <1>1, <1>3, <2>1
    DEF Execute, Load, Evaluate, OpenClaim, WriteClaim, ConfirmClaim, Conclude, executing
  <2> QED BY <1>2, <2>1
<1>4. ASSUME NEW p \in Procs, Finalize(p) PROVE Accounted'
  BY <1>1, <1>4 DEF Finalize, Acquire, WriteJournal, ConfirmJournal, Open, Fill, Promote,
                    CasGuard, Verify, executing
<1>5. ASSUME NEW p \in Repeaters, Repeat(p) PROVE Accounted'
  BY <1>1, <1>5 DEF Repeat, executing
<1>6. ASSUME NEW p \in Recoverers, NEW what \in Content, Recover(p, what) PROVE Accounted'
  BY <1>1, <1>6 DEF Recover, executing
<1>7. ASSUME NEW p \in Procs, FailExclusive(p) \/ Unlink(p) \/ Crash(p) PROVE Accounted'
  BY <1>1, <1>7 DEF FailExclusive, Unlink, Crash, executing
<1>8. CASE UNCHANGED vars
  BY <1>1, <1>8 DEF vars, executing
<1> QED BY <1>3, <1>4, <1>5, <1>6, <1>7, <1>8 DEF Next

\* Every step of the system keeps the agreement.
LEMMA AgreementStep ==
    TypeInv /\ SingleUse /\ Agreement /\ [Next /\ Orderly]_vars => Agreement'
<1> SUFFICES ASSUME TypeInv, SingleUse, Agreement, [Next /\ Orderly]_vars PROVE Agreement'
  OBVIOUS
<1>1. Accounted' /\ JournalFirst
  <2>1. [Next]_vars
    OBVIOUS
  <2> QED BY <2>1, AccountedStep DEF Agreement
<1>2. PICK x \in Content \cup {None}, h \in Executors \cup {None} : Agree(x, h)
  BY DEF Agreement
<1> DEFINE Agreed == JournalFirst' /\ \E y \in Content \cup {None}, g \in Executors \cup {None} :
                        Agree(y, g)'
<1>3. ASSUME NEW p \in Executors, Execute(p) PROVE Agreed
  BY <1>1, <1>2, <1>3, ExecuteAgrees
<1>4. ASSUME NEW p \in Procs, Finalize(p) PROVE Agreed
  BY <1>1, <1>2, <1>4, FinalizeAgrees
<1>5. ASSUME NEW p \in Repeaters, Repeat(p) PROVE Agreed
  <2>1. /\ p \in Procs /\ pc[p] = "idle"
        /\ UNCHANGED <<disk, staged, stamp, batch, results>>
    BY <1>5 DEF Procs, Repeat, storage, executing
  <2>2. JournalFirst' /\ Agree(x, h)'
    BY <1>1, <1>2, <1>5, <2>1, CallersAgree DEF Repeat
  <2> QED BY <2>2
<1>6. ASSUME NEW p \in Recoverers, NEW what \in Content, Recover(p, what) PROVE Agreed
  <2>1. /\ p \in Procs /\ pc[p] = "idle"
        /\ UNCHANGED <<disk, staged, stamp, batch, results>>
    BY <1>6 DEF Procs, Recover, storage, executing
  <2>2. JournalFirst' /\ Agree(x, h)'
    BY <1>1, <1>2, <1>6, <2>1, CallersAgree DEF Recover
  <2> QED BY <2>2
<1>7. ASSUME NEW p \in Procs, FailExclusive(p), Orderly PROVE Agreed
  BY <1>1, <1>2, <1>7, FailAgrees
<1>11. ASSUME NEW p \in Procs, Unlink(p) PROVE Agreed
  BY <1>1, <1>2, <1>11, UnlinkAgrees
<1>8. ASSUME NEW p \in Procs, Crash(p) PROVE Agreed
  <2>1. Halt(p) /\ UNCHANGED <<disk, staged, stamp, batch, results>>
    BY <1>8 DEF Crash, storage, executing
  <2> QED BY <1>1, <1>2, <2>1, HaltAgrees
<1>9. ASSUME UNCHANGED vars PROVE Agreed
  <2>1. UNCHANGED <<disk, staged, stamp, batch, results, pc, file, content, seen, fd, owner,
                   journal>>
    BY <1>9 DEF vars, storage, executing, finalizing
  <2>2. JournalFirst'
    BY <1>1, <2>1 DEF JournalFirst, Founding, OwnersApart, Unpublished, Settled, Revocable,
                      Creating, Transacting, Working
  <2>3. FilesFit(x, h)'
    BY <1>1, <1>2, <2>1, FilesStay
  <2>4. WritersAgree(x, h)' /\ Holds(h)'
    BY <1>2, <2>1 DEF Agree, WritersAgree, Holds
  <2>5. Truthful(x, h)'
    BY <1>2, <2>1 DEF Agree, Truthful, Honest, OverallStatus, Unpublished, Revocable
  <2> QED BY <2>2, <2>3, <2>4, <2>5 DEF Agree
<1> HIDE DEF Agreed
<1>10. Agreed
  BY <1>3, <1>4, <1>5, <1>6, <1>7, <1>8, <1>9, <1>11 DEF Next
<1> QED BY <1>1, <1>10 DEF Agreed, Agreement

\* A recovery that waits for the others is orderly by itself.
LEMMA SoloIsOrderly ==
    ASSUME SoloRecovery
    PROVE  Spec => OrderlySpec
<1>1. [Next]_vars => [Next /\ Orderly]_vars
  BY DEF Orderly
<1> QED BY <1>1, PTL DEF Spec, OrderlySpec

\* The agreement, with the invariants it rests on, holds in every reachable state.
LEMMA AgreementAlways == OrderlySpec => [](TypeInv /\ SingleUse /\ Agreement)
<1>1. [Next /\ Orderly]_vars => [Next]_vars
  OBVIOUS
<1> QED BY <1>1, TypeInit, TypeStep, SingleUseInit, SingleUseStep, AgreementInit, AgreementStep,
           PTL DEF OrderlySpec

\* However the claimant, further callers and unsynchronised recoveries overlap in the
\* finalization and wherever they die, the published files name one receipt, as long as
\* no journal that others could read and work under is taken back.
THEOREM FinalizersAgree == OrderlySpec => []OneTransaction
<1>1. Agreement => OneTransaction
  <2> SUFFICES ASSUME Agreement PROVE OneTransaction
    OBVIOUS
  <2>1. PICK x \in Content \cup {None}, h \in Executors \cup {None} : Agree(x, h)
    BY DEF Agreement
  <2>2. Absent.content = None /\ Torn.content = None /\ Claimed(h).content = None
    BY DEF Absent, Torn, Claimed, Blank
  <2>3. \A k \in Kinds : disk[k].content \in {None, x}
    BY <2>1, <2>2 DEF Agree, FilesFit, Fits
  <2> QED BY <2>3 DEF OneTransaction
<1> QED BY <1>1, AgreementAlways, PTL

\* Once a journal exists the holder has an answer to every operation, and the state its
\* receipt gives the claim is the aggregate of these answers.
LEMMA ReceiptIsHonest ==
    ASSUME TypeInv, SingleUse, Accounted, NEW x, NEW h \in Executors, Agree(x, h),
           disk["journal"] # Absent
    PROVE  LET succeeded == {o \in Ops : results[h][o] = "succeeded"}
               state == STATUS_TO_CLAIM_STATE[x.status]
           IN /\ stamp[h] <= x.at
              /\ \A o \in Ops : invoked[o] = 1 /\ results[h][o] # "none"
              /\ (state = "consumed_success") <=> (succeeded = Ops)
              /\ (state = "consumed_failed") <=> (succeeded = {})
              /\ state \in Terminal
<1> DEFINE succeeded == {o \in Ops : results[h][o] = "succeeded"}
<1>1. /\ x \in Content
      /\ x.status = OverallStatus(h)
      /\ stamp[h] <= x.at
      /\ batch[h] > Len(Batches)
  BY DEF Agree, Truthful, Honest, Holds
<1>2. ASSUME NEW o \in Ops PROVE invoked[o] = 1 /\ results[h][o] # "none"
  <2>1. PICK i \in 1 .. Len(Batches) : o \in Batches[i]
    BY BatchesAssumption
  <2>2. Len(Batches) \in Nat /\ batch[h] \in Nat
    BY BatchesAssumption DEF TypeInv, DataType, Procs
  <2>3. i \in 1 .. batch[h] - 1
    BY <1>1, <2>2
  <2>4. results[h][o] # "none" /\ invoked[o] # 0
    BY <2>1, <2>3 DEF Accounted
  <2>5. invoked[o] \in Nat /\ invoked[o] <= 1
    BY DEF TypeInv, DataType, SingleUse, AtMostOneInvocation
  <2> QED BY <2>4, <2>5
<1>3. /\ (x.status = "succeeded") <=> (succeeded = Ops)
      /\ (x.status = "failed") <=> (succeeded = {})
      /\ x.status \in Statuses
  BY <1>1, OpsAssumption DEF OverallStatus, Statuses
<1>4. /\ (STATUS_TO_CLAIM_STATE[x.status] = "consumed_success") <=> (x.status = "succeeded")
      /\ (STATUS_TO_CLAIM_STATE[x.status] = "consumed_failed") <=> (x.status = "failed")
  BY <1>3 DEF STATUS_TO_CLAIM_STATE, Statuses
<1> QED BY <1>1, <1>2, <1>3, <1>4, ClaimStateType

\* In the same generality, a terminal claim reports what the claimant's operations
\* answered: all were invoked and answered, and its status is their aggregate.
THEOREM OutcomeIsHonest == OrderlySpec => []HonestOutcome
<1>1. TypeInv /\ SingleUse /\ Agreement => HonestOutcome
  <2> SUFFICES ASSUME TypeInv, SingleUse, Agreement, disk["claim"].state \in Terminal
               PROVE  HonestOutcome
    BY DEF HonestOutcome
  <2>1. PICK x \in Content \cup {None}, h \in Executors \cup {None} : Agree(x, h)
    BY DEF Agreement
  <2>2. Settled(disk["claim"]) /\ disk["claim"].state \notin {"absent", "torn"}
    BY DEF Settled, Terminal
  <2>3. /\ h \in Executors
        /\ disk["claim"].by = h
        /\ disk["claim"].stamp = stamp[h]
    BY <2>1, <2>2, ClaimedByHolder DEF Agreement
  <2>4. Accounted /\ disk["journal"] # Absent
    BY <2>2 DEF Agreement, JournalFirst, Founding, Kinds, Unpublished
  <2>5. /\ disk["claim"].content = x
        /\ disk["claim"].state = STATUS_TO_CLAIM_STATE[x.status]
    <3>1. Absent.state = "absent" /\ Torn.state = "torn" /\ Claimed(h).state = "claimed"
      BY DEF Absent, Torn, Claimed, Blank
    <3> QED BY <2>1, <2>2, <3>1 DEF Agree, FilesFit, Fits, Kinds, Settled
  <2> QED BY <2>1, <2>3, <2>4, <2>5, ReceiptIsHonest DEF HonestOutcome
<1> QED BY <1>1, AgreementAlways, PTL

\* What waits to be promoted over the claim is a terminal claim, torn or complete.
StagedClaim == staged["claim"] = Absent \/ staged["claim"].state \in {"torn"} \cup Terminal

LEMMA StagedClaimStep == TypeInv /\ StagedClaim /\ [Next]_vars => StagedClaim'
<1> SUFFICES ASSUME TypeInv, StagedClaim, [Next]_vars PROVE StagedClaim'
  OBVIOUS
<1>1. CASE UNCHANGED staged
  BY <1>1 DEF StagedClaim
<1>2. staged \in [Kinds -> File] /\ "claim" \in Kinds
  BY DEF TypeInv, DataType, Kinds
<1>3. Absent.state = "absent" /\ Torn.state = "torn"
  BY DEF Absent, Torn, Blank
<1>4. ASSUME NEW p \in Procs, Finalize(p) PROVE StagedClaim'
  <2>1. CASE Open(p)
    BY <1>2, <1>3, <2>1 DEF Open, StagedClaim
  <2>2. CASE Fill(p)
    <3>1. pc[p] = "fill" /\ staged' \in {staged, [staged EXCEPT ![file[p]] = Draft(p)]}
      BY <2>2 DEF Fill
    <3>2. pc[p] \in Finalizing
      BY <3>1 DEF Finalizing
    <3>3. file[p] = "claim" => Draft(p).state \in Terminal
      BY <3>2, DraftType
    <3> QED BY <1>1, <1>2, <3>1, <3>3 DEF StagedClaim
  <2>3. CASE Promote(p)
    <3>1. staged' \in {staged, [staged EXCEPT ![file[p]] = Absent]}
      BY <2>3 DEF Promote, storage
    <3> QED BY <1>1, <1>2, <1>3, <3>1 DEF StagedClaim
  <2>4. CASE ~ (Open(p) \/ Fill(p) \/ Promote(p))
    <3>1. UNCHANGED staged
      BY <1>4, <2>4
      DEF Finalize, Acquire, WriteJournal, ConfirmJournal, CasGuard, Verify, storage
    <3> QED BY <1>1, <3>1
  <2> QED BY <2>1, <2>2, <2>3, <2>4
<1>5. ASSUME NEW p \in Executors, Execute(p) PROVE UNCHANGED staged
  BY <1>5 DEF Execute, Load, Evaluate, OpenClaim, WriteClaim, ConfirmClaim, DispatchBatch,
              Conclude, storage
<1>6. ASSUME \/ \E p \in Repeaters : Repeat(p)
             \/ \E p \in Recoverers, what \in Content : Recover(p, what)
             \/ \E p \in Procs : FailExclusive(p) \/ Unlink(p) \/ Crash(p)
             \/ UNCHANGED vars
      PROVE  UNCHANGED staged
  BY <1>6 DEF Repeat, Recover, FailExclusive, Unlink, Crash, vars, storage
<1> QED BY <1>1, <1>4, <1>5, <1>6 DEF Next

\* However finalizers overlap and whatever journal is taken back, a claim under which
\* an operation was invoked stays, and one that named a receipt never returns to claimed.
THEOREM ClaimIsKept == Spec => UsedClaimIsKept
<1> DEFINE Kept ==
      LET before == disk["claim"]
          after  == disk'["claim"]
      IN before.state \in {"claimed"} \cup Terminal =>
            /\ after.state = "absent" =>
                 \A o \in Ops : invoked[o] = 0 /\ invoked'[o] = 0
            /\ before.state \in Terminal => after.state \notin {"absent", "claimed"}
<1>1. ASSUME TypeInv, SingleUse, StagedClaim, [Next]_vars PROVE Kept
  <2>1. /\ disk \in [Kinds -> File] /\ staged \in [Kinds -> File]
        /\ file \in [Procs -> Kinds] /\ "claim" \in Kinds /\ "journal" \in Kinds
    BY <1>1 DEF TypeInv, ControlType, DataType, Kinds
  <2>2. Absent.state = "absent" /\ Torn.state = "torn"
    BY DEF Absent, Torn, Blank
  <2> SUFFICES ASSUME disk["claim"].state \in {"claimed"} \cup Terminal,
                      disk'["claim"] # disk["claim"]
               PROVE  \/ disk'["claim"].state \notin {"absent", "claimed"}
                      \/ /\ disk["claim"].state = "claimed"
                         /\ \A o \in Ops : invoked[o] = 0 /\ invoked'[o] = 0
    BY DEF Terminal
  <2>3. disk["claim"] # Absent /\ disk["claim"] # Torn
    BY <2>2 DEF Terminal
  <2>4. ASSUME NEW p \in Executors, Execute(p) PROVE FALSE
    <3>1. OpenClaim(p) \/ WriteClaim(p)
      BY <2>4 DEF Execute, Load, Evaluate, ConfirmClaim, DispatchBatch, Conclude, storage
    <3>2. ~ WriteClaim(p)
      BY <1>1, <2>3 DEF WriteClaim, SingleUse, ClaimHeld, Procs
    <3>3. ~ OpenClaim(p)
      BY <2>3 DEF OpenClaim
    <3> QED BY <3>1, <3>2, <3>3
  <2>5. ASSUME NEW p \in Procs, Finalize(p)
        PROVE  disk'["claim"].state \notin {"absent", "claimed"}
    <3>1. CASE Acquire(p) \/ WriteJournal(p)
      BY <2>1, <3>1 DEF Acquire, WriteJournal
    <3>2. CASE Open(p) \/ CasGuard(p) \/ Verify(p) \/ ConfirmJournal(p)
      BY <3>2 DEF Open, CasGuard, Verify, ConfirmJournal, storage
    <3>3. CASE Fill(p)
      <4>1. pc[p] = "fill" /\ disk' = [disk EXCEPT ![file[p]] = Draft(p)]
        BY <3>3 DEF Fill
      <4>2. pc[p] \in Finalizing /\ file[p] = "claim"
        BY <2>1, <4>1 DEF Finalizing
      <4>3. Draft(p).state \in Terminal
        BY <1>1, <4>2, DraftType
      <4>4. disk'["claim"] = Draft(p)
        BY <2>1, <4>1, <4>2
      <4> QED BY <4>3, <4>4 DEF Terminal
    <3>4. CASE Promote(p)
      <4>1. staged[file[p]] # Absent /\ disk' = [disk EXCEPT ![file[p]] = staged[file[p]]]
        BY <3>4 DEF Promote, storage
      <4>2. disk'["claim"] = staged["claim"] /\ staged["claim"] # Absent
        BY <2>1, <4>1
      <4> QED BY <1>1, <4>2 DEF StagedClaim, Terminal
    <3> QED BY <2>5, <3>1, <3>2, <3>3, <3>4 DEF Finalize
  <2>6. ASSUME NEW p \in Procs, Unlink(p)
        PROVE  /\ disk["claim"].state = "claimed"
               /\ \A o \in Ops : invoked[o] = 0 /\ invoked'[o] = 0
    <3>1. pc[p] = "unlinkClaim" /\ UNCHANGED invoked
      BY <2>1, <2>6 DEF Unlink, executing
    <3>2. disk["claim"] = Claimed(p) /\ pc[p] \in Confirming
      BY <1>1, <2>3, <3>1 DEF SingleUse, ClaimHeld, Confirming
    <3>3. disk["claim"].state = "claimed"
      BY <3>2 DEF Claimed, Blank
    <3>4. \A o \in Ops : invoked[o] = 0
      BY <1>1, <3>2 DEF SingleUse, Unused
    <3> QED BY <3>1, <3>3, <3>4
  <2>7. ASSUME \/ \E p \in Repeaters : Repeat(p)
               \/ \E p \in Recoverers, what \in Content : Recover(p, what)
               \/ \E p \in Procs : FailExclusive(p) \/ Crash(p)
               \/ UNCHANGED vars
        PROVE  FALSE
    BY <2>7 DEF Repeat, Recover, FailExclusive, Crash, vars, storage
  <2> QED BY <1>1, <2>4, <2>5, <2>6, <2>7 DEF Next
<1>2. TypeInv /\ SingleUse /\ StagedClaim /\ [Next]_vars => [Kept]_vars
  BY <1>1
<1>3. Init => StagedClaim
  BY DEF Init, StagedClaim, Kinds
<1> QED BY <1>2, <1>3, StagedClaimStep, SingleUseAlways, PTL DEF Spec, UsedClaimIsKept

-----------------------------------------------------------------------------
(***************************************************************************)
(* One finalizer at a time.  With recoveries that wait for the others and  *)
(* no further callers, nobody holds the inode of a file that another       *)
(* promotes, and the files of the transaction come in the order of the     *)
(* write-ahead protocol.                                                   *)
(***************************************************************************)

\* The setting of the theorems of this section.
Solo == SoloRecovery /\ Repeaters = {}

\* The file a process has open at its label.
OpenAt(label) ==
    CASE label = "fill" -> "tmp" [] label \in Creating -> "final" [] OTHER -> "none"

\* Nobody shares the transaction, nor an open file, and none runs during a dispatch.
OneFinalizer ==
    /\ \A p, q \in Procs : pc[p] \in Finalizing /\ pc[q] \in Finalizing => p = q
    /\ \A p \in Procs : pc[p] = "dispatch" =>
          /\ disk["claim"] = Claimed(p)
          /\ disk["journal"] = Absent
          /\ \A q \in Procs : pc[q] \notin Finalizing
    /\ \A p \in Procs : fd[p] = OpenAt(pc[p])

\* A complete receipt or bundle, and the steps that write files.
Written(f) == f.state = "written"
Writing == {"open", "fill", "promote"}

\* Where the files are while p is at its label.
InOrder(p) ==
    LET published == disk["journal"].state
        kind == file[p]
    IN
    /\ pc[p] \in {"acquire"} \cup Creating => journal[p] = "preparing"
    /\ pc[p] = "syncJournal" => published = "preparing" /\ owner[p] = disk["journal"].by
    /\ pc[p] = "unlinkJournal" => published \in {"torn", "preparing"}
    /\ pc[p] = "acquire" => published # "claim_committed"
    /\ pc[p] \in Working => owner[p] = disk["journal"].by
    /\ pc[p] \in Writing /\ kind \in Staging =>
          published = "preparing" /\ journal[p] = "preparing"
    /\ pc[p] \in {"open", "fill"} /\ kind = "bundle" => Written(staged["receipt"])
    /\ pc[p] = "promote" /\ kind \in Staging => Written(staged["bundle"])
    /\ pc[p] = "promote" /\ kind = "receipt" => Written(staged["receipt"])
    /\ pc[p] = "promote" /\ kind = "bundle" => Written(disk["receipt"])
    /\ pc[p] \in Writing /\ kind = "journal" =>
          \/ /\ journal[p] = "artifacts_committed"
             /\ published = "preparing"
             /\ Written(disk["receipt"]) /\ Written(disk["bundle"])
          \/ /\ journal[p] = "claim_committed"
             /\ published = "artifacts_committed"
             /\ disk["claim"].state \in Terminal
    /\ pc[p] = "promote" /\ kind = "journal" =>
          staged["journal"].state = journal[p] /\ staged["journal"].by = owner[p]
    /\ pc[p] = "cas" \/ (pc[p] \in Writing /\ kind = "claim") =>
          published = "artifacts_committed" /\ journal[p] = "artifacts_committed"
    /\ pc[p] \in Writing /\ kind = "claim" => disk["claim"].state = "claimed"
    /\ pc[p] = "promote" /\ kind = "claim" => Settled(staged["claim"])
    /\ pc[p] = "verify" => published = "claim_committed"
    /\ pc[p] = "done" =>
          published = "claim_committed" /\ content[p] = disk["journal"].content

\* No published file comes before the files it commits to.
WriteAhead ==
    LET published == disk["journal"].state IN
    /\ published \in {"artifacts_committed", "claim_committed"} =>
          Written(disk["receipt"]) /\ Written(disk["bundle"])
    /\ disk["claim"].state \in Terminal =>
          published \in {"artifacts_committed", "claim_committed"}
    /\ published = "claim_committed" => disk["claim"].state \in Terminal

\* The invariant, beside Agreement.
SoloInv == OneFinalizer /\ WriteAhead /\ \A p \in Procs : InOrder(p)

\* Before any child starts.
LEMMA SoloInit == Init => SoloInv
<1> SUFFICES ASSUME Init PROVE SoloInv
  OBVIOUS
<1>1. \A p \in Procs : pc[p] = "idle" /\ fd[p] = "none"
  BY DEF Init
<1>2. disk["journal"].state = "absent" /\ disk["claim"].state = "absent"
  BY DEF Init, Kinds, Absent, Blank
<1>3. OneFinalizer
  BY <1>1 DEF OneFinalizer, Finalizing, OpenAt, Creating
<1>4. WriteAhead
  BY <1>2 DEF WriteAhead, Terminal
<1>5. \A p \in Procs : InOrder(p)
  BY <1>1 DEF InOrder, Working, Writing, Creating
<1> QED BY <1>3, <1>4, <1>5 DEF SoloInv

\* A process that has no part in the transaction, or leaves it.
LEMMA AsideSolo ==
    ASSUME TypeInv, SoloInv, NEW p \in Procs, NEW label, Goto(p, label),
           label \notin {"dispatch", "done"} \cup Finalizing,
           UNCHANGED <<disk, staged, file, content, owner, journal>>,
           \A q \in Procs \ {p} : stamp'[q] = stamp[q],
           \/ fd' = fd /\ pc[p] \notin {"fill"} \cup Creating
           \/ fd' = [fd EXCEPT ![p] = "none"]
    PROVE  SoloInv'
<1>1. /\ pc' = [pc EXCEPT ![p] = label] /\ pc \in [Procs -> Labels]
      /\ fd \in [Procs -> {"none", "tmp", "final", "gone"}]
  BY DEF Goto, TypeInv, ControlType
<1>2. pc'[p] = label /\ \A q \in Procs \ {p} : pc'[q] = pc[q] /\ fd'[q] = fd[q]
  BY <1>1
<1>3. OpenAt(label) = "none"
  BY DEF OpenAt, Finalizing, Creating
<1>4. fd'[p] = "none"
  BY <1>1 DEF SoloInv, OneFinalizer, OpenAt
<1>5. \A q \in Procs \ {p} : Claimed(q)' = Claimed(q)
  BY DEF Claimed
<1>6. OneFinalizer'
  <2>1. \A q \in Procs : fd'[q] = OpenAt(pc'[q])
    BY <1>2, <1>3, <1>4 DEF SoloInv, OneFinalizer
  <2> QED BY <1>2, <1>5, <2>1 DEF SoloInv, OneFinalizer, OpenAt, Creating
<1>7. WriteAhead'
  BY DEF SoloInv, WriteAhead, Written
<1>8. InOrder(p)'
  BY <1>2 DEF InOrder, Finalizing, Working, Writing, Creating
<1>9. \A q \in Procs \ {p} : InOrder(q)'
  BY <1>2 DEF SoloInv, InOrder, Written, Settled, Creating
<1> QED BY <1>6, <1>7, <1>8, <1>9 DEF SoloInv

\* A process that raises or is killed.
LEMMA HaltSolo ==
    ASSUME TypeInv, SoloInv, NEW p \in Procs, Halt(p), UNCHANGED <<disk, staged, stamp>>
    PROVE  SoloInv'
<1>1. PICK label \in {"idle", "stopped"} : Goto(p, label)
  BY DEF Halt
<1>2. label \notin {"dispatch", "done"} \cup Finalizing
  BY DEF Finalizing
<1> QED BY <1>1, <1>2, AsideSolo DEF Halt

\* The early life of the claim: nobody finalizes and no receipt exists.
LEMMA QuietSolo ==
    ASSUME NEW p \in Procs,
           \A q \in Procs : pc'[q] \notin {"done"} \cup Finalizing /\ fd'[q] = "none",
           \A q \in Procs : pc'[q] = "dispatch" =>
                disk'["claim"] = Claimed(q)' /\ disk'["journal"] = Absent,
           disk'["journal"].state \in {"absent", "torn"},
           disk'["claim"].state \notin Terminal
    PROVE  SoloInv'
<1>1. OneFinalizer'
  BY DEF OneFinalizer, Finalizing, OpenAt, Creating
<1>2. WriteAhead'
  BY DEF WriteAhead
<1>3. \A q \in Procs : InOrder(q)'
  BY DEF InOrder, Finalizing, Working, Writing, Creating
<1> QED BY <1>1, <1>2, <1>3 DEF SoloInv

\* A step of the only process that finalizes.
LEMMA LoneStep ==
    ASSUME TypeInv, SoloInv, NEW p \in Procs,
           \A q \in Procs \ {p} : pc[q] \notin {"dispatch"} \cup Finalizing,
           NEW label, Goto(p, label), label # "dispatch",
           \A q \in Procs \ {p} : fd'[q] = fd[q] /\ content'[q] = content[q],
           fd'[p] = OpenAt(label),
           disk'["journal"] = disk["journal"] \/ disk["journal"].state # "claim_committed",
           InOrder(p)', WriteAhead'
    PROVE  SoloInv'
<1>1. pc' = [pc EXCEPT ![p] = label] /\ pc \in [Procs -> Labels]
  BY DEF Goto, TypeInv, ControlType
<1>2. pc'[p] = label /\ \A q \in Procs \ {p} : pc'[q] = pc[q]
  BY <1>1
<1>3. OneFinalizer'
  <2>1. \A q \in Procs : fd'[q] = OpenAt(pc'[q])
    BY <1>2 DEF SoloInv, OneFinalizer
  <2> QED BY <1>2, <2>1 DEF SoloInv, OneFinalizer, OpenAt, Creating
<1>4. ASSUME NEW q \in Procs \ {p} PROVE InOrder(q)'
  <2>1. pc'[q] \notin Finalizing
    BY <1>2
  <2>2. pc'[q] = "done" => /\ disk'["journal"].state = "claim_committed"
                           /\ content'[q] = disk'["journal"].content
    BY <1>2 DEF SoloInv, InOrder
  <2> QED BY <2>1, <2>2 DEF InOrder, Finalizing, Working, Writing, Creating
<1> QED BY <1>3, <1>4 DEF SoloInv

\* Who finalizes is alone.
LEMMA Alone ==
    ASSUME SoloInv, NEW p \in Procs, pc[p] \in Finalizing
    PROVE  \A q \in Procs \ {p} : pc[q] \notin {"dispatch"} \cup Finalizing
BY DEF SoloInv, OneFinalizer

\* Entering the transaction while nobody finalizes.
LEMMA EnterSolo ==
    ASSUME TypeInv, SoloInv, NEW p \in Procs, NEW what, NEW who, Enter(p, what, who),
           \A q \in Procs \ {p} : pc[q] \notin {"dispatch"} \cup Finalizing,
           pc[p] \notin {"fill"} \cup Creating, disk["journal"].state # "claim_committed",
           UNCHANGED disk
    PROVE  SoloInv'
<1>1. /\ Goto(p, "acquire")
      /\ pc'[p] = "acquire"
      /\ journal'[p] = "preparing"
      /\ fd' = fd
      /\ \A q \in Procs \ {p} : content'[q] = content[q]
  BY DEF Enter, Goto, TypeInv, ControlType
<1>2. fd'[p] = OpenAt("acquire")
  BY <1>1 DEF SoloInv, OneFinalizer, OpenAt, Creating
<1>3. InOrder(p)'
  BY <1>1 DEF InOrder, Working, Writing, Creating
<1>4. WriteAhead'
  BY DEF SoloInv, WriteAhead, Written
<1> QED BY <1>1, <1>2, <1>3, <1>4, LoneStep

\* The journal is created, or a recovery takes its transaction up again.
LEMMA AcquireSolo ==
    ASSUME TypeInv, SoloInv, NEW p \in Procs, Acquire(p)
    PROVE  SoloInv'
<1> DEFINE found == disk["journal"]
<1>1. pc[p] = "acquire" /\ UNCHANGED <<staged, stamp>>
  BY DEF Acquire, executing
<1>2. \A q \in Procs \ {p} : pc[q] \notin {"dispatch"} \cup Finalizing
  BY <1>1, Alone DEF Finalizing
<1>3. /\ journal[p] = "preparing"
      /\ found.state # "claim_committed"
      /\ fd[p] = "none"
  BY <1>1 DEF SoloInv, InOrder, OneFinalizer, OpenAt, Creating
<1>9. \A l \in {"open", "cas", "verify"} : OpenAt(l) = "none"
  BY DEF OpenAt, Creating
<1>4. /\ pc \in [Procs -> Labels] /\ file \in [Procs -> Kinds]
      /\ owner \in [Procs -> Procs \cup {None}] /\ journal \in [Procs -> JournalStates]
      /\ disk \in [Kinds -> File] /\ fd \in [Procs -> {"none", "tmp", "final", "gone"}]
  BY DEF TypeInv, ControlType, DataType
<1>5. CASE /\ found = Absent
           /\ disk' = [disk EXCEPT !["journal"] = Torn]
           /\ fd' = [fd EXCEPT ![p] = "final"]
           /\ Goto(p, "writeJournal")
           /\ UNCHANGED <<content, owner, journal, seen>>
  <2>1. /\ fd'[p] = OpenAt("writeJournal")
        /\ \A q \in Procs \ {p} : fd'[q] = fd[q] /\ content'[q] = content[q]
    BY <1>4, <1>5 DEF OpenAt, Creating
  <2>2. pc'[p] = "writeJournal"
    BY <1>4, <1>5 DEF Goto
  <2>3. disk'["journal"] = Torn /\ \A k \in Kinds \ {"journal"} : disk'[k] = disk[k]
    BY <1>4, <1>5 DEF Kinds
  <2>4. Torn.state = "torn" /\ Absent.state = "absent"
    BY DEF Torn, Absent, Blank
  <2>5. InOrder(p)'
    BY <1>3, <1>5, <2>2 DEF InOrder, Working, Writing, Creating
  <2>6. WriteAhead'
    BY <1>5, <2>3, <2>4 DEF SoloInv, WriteAhead, Kinds
  <2> QED BY <1>2, <1>3, <1>5, <2>1, <2>5, <2>6, LoneStep
<1>6. CASE /\ found.state = "preparing"
           /\ found.by = owner[p]
           /\ Goto(p, "open")
           /\ file' = [file EXCEPT ![p] = "receipt"]
           /\ UNCHANGED <<disk, fd, content, owner, journal, seen>>
  <2>1. pc'[p] = "open" /\ file'[p] = "receipt"
    BY <1>4, <1>6 DEF Goto
  <2>2. InOrder(p)'
    BY <1>3, <1>6, <2>1 DEF InOrder, Working, Writing, Staging, Creating
  <2>3. WriteAhead'
    BY <1>6 DEF SoloInv, WriteAhead, Written
  <2> QED BY <1>2, <1>3, <1>6, <1>9, <2>2, <2>3, LoneStep
<1>7. CASE /\ found.state \in {"artifacts_committed", "claim_committed"}
           /\ owner' = [owner EXCEPT ![p] = found.by]
           /\ journal' = [journal EXCEPT ![p] = found.state]
           /\ Goto(p, IF found.state = "claim_committed" THEN "verify" ELSE "cas")
           /\ UNCHANGED <<disk, file, fd, content, seen>>
  <2>1. /\ found.state = "artifacts_committed"
        /\ Goto(p, "cas") /\ pc'[p] = "cas"
        /\ owner'[p] = found.by
        /\ journal'[p] = "artifacts_committed"
    BY <1>3, <1>4, <1>7 DEF Goto
  <2>2. InOrder(p)'
    BY <1>7, <2>1 DEF InOrder, Working, Writing, Creating
  <2>3. WriteAhead'
    BY <1>7 DEF SoloInv, WriteAhead, Written
  <2> QED BY <1>2, <1>3, <1>7, <1>9, <2>1, <2>2, <2>3, LoneStep
<1>8. CASE Halt(p) /\ UNCHANGED disk
  BY <1>1, <1>8, HaltSolo
<1> QED BY <1>5, <1>6, <1>7, <1>8, Zenon DEF Acquire

\* The journal is written as preparing.
LEMMA WriteJournalSolo ==
    ASSUME TypeInv, SoloInv, JournalFirst, NEW p \in Procs, WriteJournal(p)
    PROVE  SoloInv'
<1>1. /\ pc[p] = "writeJournal" /\ Goto(p, "syncJournal")
      /\ disk' = [disk EXCEPT !["journal"] = JournalRecord(p)]
      /\ UNCHANGED <<staged, file, fd, content, owner, journal>>
  BY DEF WriteJournal, finalizing, JournalFirst, Founding
<1>2. /\ pc \in [Procs -> Labels] /\ file \in [Procs -> Kinds] /\ disk \in [Kinds -> File]
  BY DEF TypeInv, ControlType, DataType
<1>3. pc'[p] = "syncJournal"
  BY <1>1, <1>2 DEF Goto
<1>4. \A q \in Procs \ {p} : pc[q] \notin {"dispatch"} \cup Finalizing
  BY <1>1, Alone DEF Finalizing
<1>5. journal[p] = "preparing" /\ fd[p] = OpenAt("syncJournal")
  BY <1>1 DEF SoloInv, InOrder, OneFinalizer, OpenAt, Creating
<1>6. JournalRecord(p).state = "preparing" /\ JournalRecord(p).by = owner[p]
  BY <1>5 DEF JournalRecord, Blank
<1>7. /\ disk'["journal"] = JournalRecord(p)
      /\ \A k \in Kinds \ {"journal"} : disk'[k] = disk[k]
  BY <1>1, <1>2 DEF Kinds
<1>8. disk["journal"].state = "torn"
  BY <1>1 DEF JournalFirst, Founding, Torn, Blank
<1>9. InOrder(p)'
  BY <1>1, <1>3, <1>5, <1>6, <1>7 DEF InOrder, Working, Writing, Staging, Creating
<1>10. WriteAhead'
  BY <1>6, <1>7, <1>8 DEF SoloInv, WriteAhead, Kinds
<1> QED BY <1>1, <1>4, <1>5, <1>8, <1>9, <1>10, LoneStep

\* The journal is synced: nobody has replaced it.
LEMMA ConfirmJournalSolo ==
    ASSUME TypeInv, SoloInv, NEW p \in Procs, ConfirmJournal(p)
    PROVE  SoloInv'
<1>1. pc[p] = "syncJournal" /\ UNCHANGED <<disk, staged>>
  BY DEF ConfirmJournal, storage
<1>2. fd[p] = "final" /\ InOrder(p) /\ journal[p] = "preparing"
  BY <1>1 DEF SoloInv, OneFinalizer, OpenAt, Creating, InOrder
<1>3. /\ fd' = [fd EXCEPT ![p] = "none"]
      /\ file' = [file EXCEPT ![p] = "receipt"]
      /\ Goto(p, "open")
      /\ UNCHANGED <<content, owner, journal, seen>>
  BY <1>2 DEF ConfirmJournal
<1>4. /\ pc \in [Procs -> Labels] /\ file \in [Procs -> Kinds]
      /\ fd \in [Procs -> {"none", "tmp", "final", "gone"}]
  BY DEF TypeInv, ControlType
<1>5. /\ pc'[p] = "open" /\ file'[p] = "receipt" /\ fd'[p] = OpenAt("open")
      /\ \A q \in Procs \ {p} : fd'[q] = fd[q] /\ content'[q] = content[q]
  BY <1>3, <1>4 DEF Goto, OpenAt, Creating
<1>6. \A q \in Procs \ {p} : pc[q] \notin {"dispatch"} \cup Finalizing
  BY <1>1, Alone DEF Finalizing
<1>7. InOrder(p)'
  BY <1>1, <1>2, <1>3, <1>5 DEF InOrder, Working, Writing, Staging, Creating
<1>8. WriteAhead'
  BY <1>1 DEF SoloInv, WriteAhead, Written
<1> QED BY <1>1, <1>3, <1>5, <1>6, <1>7, <1>8, LoneStep

\* The temporary file is opened.
LEMMA OpenSolo ==
    ASSUME TypeInv, SoloInv, NEW p \in Procs, Open(p)
    PROVE  SoloInv'
<1>1. /\ pc[p] = "open" /\ Goto(p, "fill")
      /\ staged' = [staged EXCEPT ![file[p]] = Torn]
      /\ fd' = [fd EXCEPT ![p] = "tmp"]
      /\ UNCHANGED <<disk, file, content, owner, journal>>
  BY DEF Open
<1>2. /\ pc \in [Procs -> Labels] /\ file[p] \in Kinds /\ staged \in [Kinds -> File]
      /\ fd \in [Procs -> {"none", "tmp", "final", "gone"}]
  BY DEF TypeInv, ControlType, DataType
<1>3. /\ pc'[p] = "fill" /\ fd'[p] = OpenAt("fill")
      /\ \A q \in Procs \ {p} : fd'[q] = fd[q]
      /\ \A k \in Kinds \ {file[p]} : staged'[k] = staged[k]
  BY <1>1, <1>2 DEF Goto, OpenAt, Creating
<1>4. \A q \in Procs \ {p} : pc[q] \notin {"dispatch"} \cup Finalizing
  BY <1>1, Alone DEF Finalizing
<1>5. InOrder(p)
  BY DEF SoloInv
<1>6. InOrder(p)'
  BY <1>1, <1>2, <1>3, <1>5 DEF InOrder, Working, Writing, Staging, Written, Kinds, Creating
<1>7. WriteAhead'
  BY <1>1 DEF SoloInv, WriteAhead, Written
<1> QED BY <1>1, <1>3, <1>4, <1>6, <1>7, LoneStep

\* The temporary file is written: nobody has moved it meanwhile.
LEMMA FillSolo ==
    ASSUME TypeInv, SoloInv, NEW x, NEW h, Agree(x, h), NEW p \in Procs, Fill(p)
    PROVE  SoloInv'
<1>1. pc[p] = "fill" /\ fd[p] = "tmp"
  BY DEF Fill, SoloInv, OneFinalizer, OpenAt, Creating
<1>2. /\ pc \in [Procs -> Labels] /\ file \in [Procs -> Kinds] /\ staged \in [Kinds -> File]
      /\ fd \in [Procs -> {"none", "tmp", "final", "gone"}]
  BY DEF TypeInv, ControlType, DataType
<1>3. /\ staged' = [staged EXCEPT ![file[p]] = Draft(p)]
      /\ disk' = disk
      /\ fd' = [fd EXCEPT ![p] = "none"]
      /\ file' = [file EXCEPT ![p] = CASE file[p] = "receipt" -> "bundle"
                                       [] file[p] = "bundle" -> "receipt"
                                       [] OTHER -> file[p]]
      /\ Goto(p, IF file[p] = "receipt" THEN "open" ELSE "promote")
      /\ UNCHANGED <<content, owner, journal>>
  BY <1>1 DEF Fill
<1>4. /\ staged'[file[p]] = Draft(p)
      /\ \A k \in Kinds \ {file[p]} : staged'[k] = staged[k]
      /\ fd'[p] = "none" /\ \A q \in Procs \ {p} : fd'[q] = fd[q]
  BY <1>2, <1>3
<1>5. \A q \in Procs \ {p} : pc[q] \notin {"dispatch"} \cup Finalizing
  BY <1>1, Alone DEF Finalizing
<1>6. InOrder(p)
  BY DEF SoloInv
<1>7. PICK label \in {"open", "promote"} : Goto(p, label) /\ OpenAt(label) = "none"
  BY <1>3 DEF OpenAt, Creating
<1>8. pc'[p] = IF file[p] = "receipt" THEN "open" ELSE "promote"
  BY <1>2, <1>3 DEF Goto
<1>9. InOrder(p)'
  <2>1. CASE file[p] = "receipt"
    <3>1. pc'[p] = "open" /\ file'[p] = "bundle"
      BY <1>2, <1>3, <1>8, <2>1
    <3>2. Draft(p).state = "written"
      BY <2>1 DEF Draft, Blank
    <3> QED BY <1>1, <1>3, <1>4, <1>6, <2>1, <3>1, <3>2
        DEF InOrder, Working, Writing, Staging, Written, Creating
  <2>2. CASE file[p] = "bundle"
    <3>1. pc'[p] = "promote" /\ file'[p] = "receipt"
      BY <1>2, <1>3, <1>8, <2>2
    <3>2. Draft(p).state = "written"
      BY <2>2 DEF Draft, Blank
    <3> QED BY <1>1, <1>3, <1>4, <1>6, <2>2, <3>1, <3>2
        DEF InOrder, Working, Writing, Staging, Written, Kinds, Creating
  <2>3. CASE file[p] = "journal"
    <3>1. pc'[p] = "promote" /\ file'[p] = "journal"
      BY <1>2, <1>3, <1>8, <2>3
    <3>2. Draft(p).state = journal[p] /\ Draft(p).by = owner[p]
      BY <2>3 DEF Draft, JournalRecord, Blank
    <3> QED BY <1>1, <1>3, <1>4, <1>6, <2>3, <3>1, <3>2
        DEF InOrder, Working, Writing, Staging, Written, Creating
  <2>4. CASE file[p] = "claim"
    <3>1. pc'[p] = "promote" /\ file'[p] = "claim"
      BY <1>2, <1>3, <1>8, <2>4
    <3>2. Settled(Draft(p))
      BY <1>1, DraftFits
    <3> QED BY <1>1, <1>3, <1>4, <1>6, <2>4, <3>1, <3>2
        DEF InOrder, Working, Writing, Staging, Settled, Creating
  <2> QED BY <1>2, <2>1, <2>2, <2>3, <2>4 DEF Kinds
<1>10. WriteAhead'
  BY <1>3 DEF SoloInv, WriteAhead, Written
<1> QED BY <1>3, <1>4, <1>5, <1>7, <1>9, <1>10, LoneStep

\* A temporary file is published: each in its turn.
LEMMA PromoteSolo ==
    ASSUME TypeInv, SoloInv, JournalFirst, NEW x, NEW h, Agree(x, h), NEW p \in Procs, Promote(p)
    PROVE  SoloInv'
<1>1. pc[p] = "promote" /\ fd[p] = "none" /\ UNCHANGED stamp
  BY DEF Promote, SoloInv, OneFinalizer, executing, OpenAt, Creating
<1>2. /\ pc \in [Procs -> Labels] /\ file \in [Procs -> Kinds]
      /\ staged \in [Kinds -> File] /\ disk \in [Kinds -> File]
      /\ journal \in [Procs -> JournalStates]
      /\ fd \in [Procs -> {"none", "tmp", "final", "gone"}]
  BY DEF TypeInv, ControlType, DataType
<1>3. \A q \in Procs \ {p} : pc[q] \notin {"dispatch"} \cup Finalizing
  BY <1>1, Alone DEF Finalizing
<1>4. CASE staged[file[p]] = Absent /\ Halt(p) /\ UNCHANGED storage
  BY <1>1, <1>4, HaltSolo DEF storage
<1>5. CASE staged[file[p]] # Absent
  <2>1. /\ disk' = [disk EXCEPT ![file[p]] = staged[file[p]]]
        /\ staged' = [staged EXCEPT ![file[p]] = Absent]
        /\ fd' = FollowInode(file[p])
        /\ file' = [file EXCEPT ![p] = IF file[p] = "receipt" THEN "bundle" ELSE "journal"]
        /\ journal' = [journal EXCEPT ![p] = CASE file[p] = "bundle" -> "artifacts_committed"
                                               [] file[p] = "claim" -> "claim_committed"
                                               [] OTHER -> journal[p]]
        /\ Goto(p, CASE file[p] = "receipt" -> "promote"
                     [] file[p] \in {"bundle", "claim"} -> "open"
                     [] file[p] = "journal" /\ journal[p] = "artifacts_committed" -> "cas"
                     [] OTHER -> "verify")
        /\ UNCHANGED <<content, owner>>
    BY <1>5 DEF Promote
  <2>2. \A q \in Procs : fd[q] # "tmp" /\ fd[q] # "final"
    BY <1>1, <1>3 DEF SoloInv, OneFinalizer, Finalizing, OpenAt, Creating
  <2>3. \A q \in Procs : fd'[q] = fd[q]
    BY <2>1, <2>2 DEF FollowInode
  <2>4. PICK label \in {"promote", "open", "cas", "verify"} : Goto(p, label)
    BY <2>1, Zenon
  <2>5. label # "dispatch" /\ OpenAt(label) = "none"
    BY DEF OpenAt, Creating
  <2>6. InOrder(p)
    BY DEF SoloInv
  <2>7. WriteAhead
    BY DEF SoloInv
  <2>8. /\ disk'[file[p]] = staged[file[p]]
        /\ \A k \in Kinds \ {file[p]} : disk'[k] = disk[k] /\ staged'[k] = staged[k]
        /\ file'[p] = IF file[p] = "receipt" THEN "bundle" ELSE "journal"
    BY <1>2, <2>1
  <2> DEFINE Goal == /\ InOrder(p)'
                     /\ WriteAhead'
                     /\ disk'["journal"] = disk["journal"] \/ disk["journal"].state # "claim_committed"
  <2>9. ASSUME file[p] = "receipt" PROVE Goal
    <3>1. pc'[p] = "promote" /\ journal'[p] = journal[p] /\ file'[p] = "bundle"
      BY <1>2, <2>1, <2>9 DEF Goto
    <3>2. /\ disk'["journal"] = disk["journal"] /\ disk'["claim"] = disk["claim"]
          /\ disk'["bundle"] = disk["bundle"] /\ Written(disk'["receipt"])
          /\ staged'["bundle"] = staged["bundle"]
      BY <1>1, <2>6, <2>8, <2>9 DEF Kinds, InOrder, Staging
    <3>3. InOrder(p)'
      BY <1>1, <2>1, <2>6, <2>9, <3>1, <3>2 DEF InOrder, Working, Writing, Staging, Written, Creating
    <3>4. WriteAhead'
      BY <2>7, <3>2 DEF WriteAhead, Written
    <3> QED BY <3>2, <3>3, <3>4
  <2>10. ASSUME file[p] = "bundle" PROVE Goal
    <3>1. pc'[p] = "open" /\ journal'[p] = "artifacts_committed" /\ file'[p] = "journal"
      BY <1>2, <2>1, <2>10 DEF Goto
    <3>2. /\ disk'["journal"] = disk["journal"] /\ disk'["claim"] = disk["claim"]
          /\ disk'["receipt"] = disk["receipt"] /\ Written(disk'["bundle"])
      BY <1>1, <2>6, <2>8, <2>10 DEF Kinds, InOrder, Staging
    <3>3. InOrder(p)'
      BY <1>1, <2>1, <2>6, <2>10, <3>1, <3>2 DEF InOrder, Working, Writing, Staging, Written, Creating
    <3>4. WriteAhead'
      BY <2>7, <3>2 DEF WriteAhead, Written
    <3> QED BY <3>2, <3>3, <3>4
  <2>11. ASSUME file[p] = "claim" PROVE Goal
    <3>1. pc'[p] = "open" /\ journal'[p] = "claim_committed" /\ file'[p] = "journal"
      BY <1>2, <2>1, <2>11 DEF Goto
    <3>2. /\ disk'["journal"] = disk["journal"] /\ disk'["claim"] = staged["claim"]
          /\ disk'["receipt"] = disk["receipt"] /\ disk'["bundle"] = disk["bundle"]
      BY <2>8, <2>11 DEF Kinds
    <3>3. disk["journal"].state = "artifacts_committed" /\ Settled(staged["claim"])
            /\ owner[p] = disk["journal"].by
      BY <1>1, <2>6, <2>11 DEF InOrder, Writing, Working
    <3>4. disk'["claim"].state \in Terminal
      <4>1. disk["journal"] # Absent
        BY <3>3 DEF Absent, Blank
      <4>2. x.status \in Statuses
        BY <4>1 DEF Agree, Truthful, Honest, Content
      <4>3. staged["claim"].state = STATUS_TO_CLAIM_STATE[x.status]
        BY <3>3 DEF Agree, FilesFit, Fits, Kinds, Settled, Absent, Torn, Blank
      <4> QED BY <3>2, <4>2, <4>3, ClaimStateType
    <3>5. InOrder(p)'
      BY <2>1, <3>1, <3>2, <3>3, <3>4 DEF InOrder, Working, Writing, Staging, Written, Creating
    <3>6. WriteAhead'
      BY <2>7, <3>2, <3>3, <3>4 DEF WriteAhead, Written
    <3> QED BY <3>2, <3>5, <3>6
  <2>12. ASSUME file[p] = "journal" PROVE Goal
    <3>1. /\ pc'[p] = IF journal[p] = "artifacts_committed" THEN "cas" ELSE "verify"
          /\ journal'[p] = journal[p]
          /\ file'[p] = "journal"
      BY <1>2, <2>1, <2>12 DEF Goto
    <3>2. /\ disk'["journal"] = staged["journal"] /\ disk'["claim"] = disk["claim"]
          /\ disk'["receipt"] = disk["receipt"] /\ disk'["bundle"] = disk["bundle"]
      BY <2>8, <2>12 DEF Kinds
    <3>3. /\ disk'["journal"].state = journal[p] /\ disk'["journal"].by = owner[p]
          /\ \/ /\ journal[p] = "artifacts_committed"
                /\ disk["journal"].state = "preparing"
                /\ Written(disk["receipt"]) /\ Written(disk["bundle"])
             \/ /\ journal[p] = "claim_committed"
                /\ disk["journal"].state = "artifacts_committed"
                /\ disk["claim"].state \in Terminal
      BY <1>1, <2>6, <2>12, <3>2 DEF InOrder, Writing
    <3>4. InOrder(p)'
      BY <2>1, <3>1, <3>3 DEF InOrder, Working, Writing, Staging, Creating
    <3>5. WriteAhead'
      BY <2>7, <3>2, <3>3 DEF WriteAhead, Written
    <3> QED BY <3>3, <3>4, <3>5
  <2> HIDE DEF Goal
  <2>13. Goal
    BY <1>2, <2>9, <2>10, <2>11, <2>12 DEF Kinds
  <2> QED BY <1>1, <1>3, <2>1, <2>3, <2>4, <2>5, <2>13, LoneStep DEF Goal
<1> QED BY <1>4, <1>5, Zenon DEF Promote

\* The terminal CAS guard.
LEMMA CasGuardSolo ==
    ASSUME TypeInv, SoloInv, JournalFirst, NEW x, NEW h, Agree(x, h), NEW p \in Procs, CasGuard(p)
    PROVE  SoloInv'
<1>1. pc[p] = "cas" /\ fd[p] = OpenAt("open") /\ UNCHANGED <<disk, staged, stamp>>
  BY DEF CasGuard, SoloInv, OneFinalizer, storage, executing, OpenAt, Creating
<1>2. /\ pc \in [Procs -> Labels] /\ file \in [Procs -> Kinds]
      /\ journal \in [Procs -> JournalStates]
  BY DEF TypeInv, ControlType
<1>3. \A q \in Procs \ {p} : pc[q] \notin {"dispatch"} \cup Finalizing
  BY <1>1, Alone DEF Finalizing
<1>4. InOrder(p)
  BY DEF SoloInv
<1>5. WriteAhead'
  BY <1>1 DEF SoloInv, WriteAhead, Written
<1>6. CASE Halt(p)
  BY <1>1, <1>6, HaltSolo
<1>7. CASE /\ disk["claim"].state = "claimed"
           /\ file' = [file EXCEPT ![p] = "claim"]
           /\ Goto(p, "open")
           /\ UNCHANGED <<fd, content, owner, journal>>
  <2>1. pc'[p] = "open" /\ file'[p] = "claim"
    BY <1>2, <1>7 DEF Goto
  <2>2. InOrder(p)'
    BY <1>1, <1>4, <1>7, <2>1 DEF InOrder, Working, Writing, Staging, Creating
  <2> QED BY <1>1, <1>3, <1>5, <1>7, <2>2, LoneStep
<1>8. CASE /\ disk["claim"].state = STATUS_TO_CLAIM_STATE[content[p].status]
           /\ journal' = [journal EXCEPT ![p] = "claim_committed"]
           /\ file' = [file EXCEPT ![p] = "journal"]
           /\ Goto(p, "open")
           /\ UNCHANGED <<fd, content, owner, seen>>
  <2>1. pc'[p] = "open" /\ file'[p] = "journal" /\ journal'[p] = "claim_committed"
    BY <1>2, <1>8 DEF Goto
  <2>2. disk["claim"].state \in Terminal
    <3>1. content[p] \in Content
      BY <1>1 DEF TypeInv, ControlType, Entered, Finalizing
    <3> QED BY <1>8, <3>1, ClaimStateType DEF Content
  <2>3. InOrder(p)'
    BY <1>1, <1>4, <1>8, <2>1, <2>2 DEF InOrder, Working, Writing, Staging, Creating
  <2> QED BY <1>1, <1>3, <1>5, <1>8, <2>3, LoneStep
<1> QED BY <1>6, <1>7, <1>8, Zenon DEF CasGuard

\* A verified finalization: the journal it checked is final.
LEMMA VerifySolo ==
    ASSUME TypeInv, SoloInv, NEW p \in Procs, Verify(p)
    PROVE  SoloInv'
<1>1. pc[p] = "verify" /\ fd[p] = OpenAt("done") /\ UNCHANGED <<disk, staged, stamp>>
  BY DEF Verify, SoloInv, OneFinalizer, storage, executing, OpenAt, Creating
<1>2. CASE Halt(p)
  BY <1>1, <1>2, HaltSolo
<1>3. CASE CrossLinked(content[p]) /\ Goto(p, "done") /\ UNCHANGED finalizing
  <2>1. UNCHANGED <<file, fd, content, owner, journal>>
    BY <1>3 DEF finalizing
  <2>2. pc'[p] = "done"
    BY <1>3 DEF Goto, TypeInv, ControlType
  <2>3. \A q \in Procs \ {p} : pc[q] \notin {"dispatch"} \cup Finalizing
    BY <1>1, Alone DEF Finalizing
  <2>4. InOrder(p)'
    BY <1>1, <1>3, <2>1, <2>2 DEF InOrder, CrossLinked, Working, Writing, Creating
  <2>5. WriteAhead'
    BY <1>1 DEF SoloInv, WriteAhead, Written
  <2> QED BY <1>1, <1>3, <2>1, <2>3, <2>4, <2>5, LoneStep
<1> QED BY <1>2, <1>3 DEF Verify

\* A step of the finalization keeps the order of the files.
LEMMA FinalizeSolo ==
    ASSUME TypeInv, SoloInv, JournalFirst, NEW x, NEW h, Agree(x, h), NEW p \in Procs, Finalize(p)
    PROVE  SoloInv'
BY AcquireSolo, WriteJournalSolo, ConfirmJournalSolo, OpenSolo, FillSolo, PromoteSolo,
   CasGuardSolo, VerifySolo DEF Finalize

\* A step that changes neither files nor the memory of finalizers.
LEMMA SameSolo ==
    ASSUME SoloInv, UNCHANGED <<disk, staged, stamp, pc, file, fd, content, owner, journal>>
    PROVE  SoloInv'
<1>1. OneFinalizer'
  BY DEF SoloInv, OneFinalizer, Claimed, OpenAt, Creating
<1>2. WriteAhead'
  BY DEF SoloInv, WriteAhead, Written
<1>3. \A p \in Procs : InOrder(p)'
  BY DEF SoloInv, InOrder, Written, Settled, Creating
<1> QED BY <1>1, <1>2, <1>3 DEF SoloInv

\* While the claim is being taken nobody finalizes and nobody has finished.
LEMMA EarlyIsQuiet ==
    ASSUME SingleUse, SoloInv, Early
    PROVE  /\ disk["journal"] = Absent /\ disk["journal"].state = "absent"
           /\ \A q \in Procs : pc[q] \notin {"done"} \cup Finalizing /\ fd[q] = "none"
<1>1. disk["journal"] = Absent /\ \A q \in Procs : pc[q] \notin Finalizing
  BY DEF SingleUse, FinalizedLater
<1>2. disk["journal"].state = "absent"
  BY <1>1 DEF Absent, Blank
<1>3. \A q \in Procs : pc[q] # "done"
  BY <1>2 DEF SoloInv, InOrder
<1> QED BY <1>1, <1>2, <1>3 DEF SoloInv, OneFinalizer, Finalizing, OpenAt, Creating

\* The claim file appears, is written by its creator, or is given back by it.
LEMMA ClaimFileSolo ==
    ASSUME TypeInv, SingleUse, SoloInv, NEW p \in Procs, NEW label \in Labels, Goto(p, label),
           label \notin {"done", "dispatch"} \cup Finalizing,
           NEW f, disk' = [disk EXCEPT !["claim"] = f], f.state \notin Terminal,
           Early, \A q \in Procs \ {p} : pc[q] # "dispatch",
           \A q \in Procs : fd'[q] \in {fd[q], "none"}
    PROVE  SoloInv'
<1>1. /\ pc' = [pc EXCEPT ![p] = label] /\ pc \in [Procs -> Labels]
      /\ disk \in [Kinds -> File]
      /\ fd \in [Procs -> {"none", "tmp", "final", "gone"}]
  BY DEF Goto, TypeInv, ControlType, DataType
<1>2. \A q \in Procs : pc'[q] \notin {"done"} \cup Finalizing /\ fd'[q] = "none"
  BY <1>1, EarlyIsQuiet
<1>3. disk'["claim"] = f /\ disk'["journal"] = disk["journal"]
  BY <1>1 DEF Kinds
<1>4. \A q \in Procs : pc'[q] # "dispatch"
  BY <1>1
<1> QED BY <1>2, <1>3, <1>4, EarlyIsQuiet, QuietSolo

\* Every step of an execute-once child.
LEMMA ExecuteSolo ==
    ASSUME TypeInv, SingleUse, SoloInv, NEW p \in Executors, Execute(p)
    PROVE  SoloInv'
<1>1. p \in Procs
  BY DEF Procs
<1>2. /\ {"evaluate", "claim", "writeClaim", "syncClaim"}
            \cap ({"dispatch", "done"} \cup Finalizing) = {}
      /\ {"evaluate", "claim", "writeClaim", "syncClaim", "dispatch"} \subseteq Labels
      /\ "dispatch" \notin {"done"} \cup Finalizing
      /\ Creating \subseteq Finalizing /\ "fill" \in Finalizing
  BY DEF Finalizing, Labels, Creating
<1>3. Torn.state \notin Terminal /\ Claimed(p).state \notin Terminal
  BY DEF Torn, Claimed, Blank, Terminal
<1>4. CASE Load(p)
  <2>1. pc[p] = "idle" /\ UNCHANGED <<disk, staged, stamp>>
    BY <1>4 DEF Load, storage, executing
  <2>2. CASE Goto(p, "evaluate") /\ UNCHANGED finalizing
    <3>1. UNCHANGED <<file, fd, content, owner, journal>>
      BY <2>2 DEF finalizing
    <3>2. pc[p] \notin {"fill"} \cup Creating
      BY <2>1 DEF Creating
    <3> QED BY <1>1, <1>2, <2>1, <2>2, <3>1, <3>2, AsideSolo
  <2>3. CASE Halt(p)
    BY <1>1, <2>1, <2>3, HaltSolo
  <2> QED BY <1>4, <2>2, <2>3 DEF Load
<1>5. CASE Evaluate(p)
  <2>1. pc[p] = "evaluate" /\ UNCHANGED <<disk, staged>>
    BY <1>5 DEF Evaluate, storage
  <2>2. ASSUME NEW now \in Times, stamp' = [stamp EXCEPT ![p] = now], Goto(p, "claim"),
               UNCHANGED finalizing
        PROVE  SoloInv'
    <3>1. UNCHANGED <<file, fd, content, owner, journal>>
      BY <2>2 DEF finalizing
    <3>2. \A q \in Procs \ {p} : stamp'[q] = stamp[q]
      BY <2>2 DEF TypeInv, DataType
    <3>3. pc[p] \notin {"fill"} \cup Creating
      BY <2>1 DEF Creating
    <3> QED BY <1>1, <1>2, <2>1, <2>2, <3>1, <3>2, <3>3, AsideSolo
  <2>3. CASE Halt(p) /\ UNCHANGED stamp
    BY <1>1, <2>1, <2>3, HaltSolo
  <2> QED BY <1>5, <2>2, <2>3 DEF Evaluate
<1>6. CASE OpenClaim(p)
  <2>1. UNCHANGED <<staged, stamp>>
    BY <1>6 DEF OpenClaim, executing
  <2>2. CASE /\ disk["claim"] = Absent
             /\ disk' = [disk EXCEPT !["claim"] = Torn]
             /\ Goto(p, "writeClaim")
             /\ UNCHANGED finalizing
    <3>1. Early /\ \A q \in Procs : pc[q] # "dispatch"
      BY <2>2 DEF Early, SingleUse, OneClaimant, Claiming
    <3>2. fd' = fd
      BY <2>2 DEF finalizing
    <3> QED BY <1>1, <1>2, <1>3, <2>1, <2>2, <3>1, <3>2, ClaimFileSolo
  <2>3. CASE Halt(p) /\ UNCHANGED disk
    BY <1>1, <2>1, <2>3, HaltSolo
  <2> QED BY <1>6, <2>2, <2>3 DEF OpenClaim
<1>7. CASE WriteClaim(p)
  <2>1. /\ pc[p] = "writeClaim" /\ Goto(p, "syncClaim")
        /\ disk' = [disk EXCEPT !["claim"] = Claimed(p)]
        /\ UNCHANGED <<stamp, fd>>
    BY <1>7 DEF WriteClaim, executing, finalizing
  <2>2. Early /\ \A q \in Procs \ {p} : pc[q] # "dispatch"
    BY <1>1, <2>1 DEF Early, SingleUse, OneClaimant, Claiming, Confirming
  <2> QED BY <1>1, <1>2, <1>3, <2>1, <2>2, ClaimFileSolo
<1>10. CASE ConfirmClaim(p)
  <2>1. /\ pc[p] = "syncClaim" /\ Goto(p, "dispatch")
        /\ UNCHANGED <<disk, stamp, fd>>
    BY <1>10 DEF ConfirmClaim, storage, executing, finalizing
  <2>2. Early /\ disk["claim"] = Claimed(p) /\ \A q \in Procs \ {p} : pc[q] # "dispatch"
    BY <1>1, <2>1 DEF Early, SingleUse, OneClaimant, ClaimHeld, Claiming, Confirming
  <2>3. pc' = [pc EXCEPT ![p] = "dispatch"] /\ pc \in [Procs -> Labels]
    BY <2>1 DEF Goto, TypeInv, ControlType
  <2>4. \A q \in Procs : pc'[q] \notin {"done"} \cup Finalizing /\ fd'[q] = "none"
    BY <1>2, <2>1, <2>2, <2>3, EarlyIsQuiet
  <2>5. \A q \in Procs : pc'[q] = "dispatch" => q = p
    BY <2>2, <2>3
  <2>6. Claimed(p)' = Claimed(p)
    BY <2>1 DEF Claimed
  <2> QED BY <1>1, <1>3, <2>1, <2>2, <2>4, <2>5, <2>6, EarlyIsQuiet, QuietSolo
<1>8. CASE DispatchBatch(p)
  <2>1. UNCHANGED <<disk, staged, stamp>>
    BY <1>8 DEF DispatchBatch, storage
  <2>2. CASE Halt(p)
    BY <1>1, <2>1, <2>2, HaltSolo
  <2>3. CASE UNCHANGED <<pc, finalizing>>
    BY <2>1, <2>3, SameSolo DEF finalizing
  <2> QED BY <1>8, <2>2, <2>3, Zenon DEF DispatchBatch
<1>9. CASE Conclude(p)
  <2>1. pc[p] = "dispatch" /\ UNCHANGED <<disk, staged, stamp>>
    BY <1>9 DEF Conclude, storage, executing
  <2>2. \A q \in Procs \ {p} : pc[q] \notin {"dispatch"} \cup Finalizing
    BY <1>1, <2>1 DEF SoloInv, OneFinalizer, SingleUse, OneClaimant, Claiming
  <2>3. disk["journal"].state # "claim_committed"
    BY <1>1, <2>1 DEF SoloInv, OneFinalizer, Absent, Blank
  <2>4. pc[p] \notin {"fill"} \cup Creating
    BY <2>1 DEF Creating
  <2> QED BY <1>1, <1>9, <2>1, <2>2, <2>3, <2>4, EnterSolo, HaltSolo DEF Conclude
<1> QED BY <1>4, <1>5, <1>6, <1>7, <1>8, <1>9, <1>10 DEF Execute

\* A file that was created exclusively could not be written, synced or checked.
LEMMA FailSolo ==
    ASSUME TypeInv, SoloInv, JournalFirst, NEW p \in Procs, FailExclusive(p)
    PROVE  SoloInv'
<1>1. UNCHANGED <<disk, staged, stamp>>
  BY DEF FailExclusive, storage, executing
<1>2. CASE Halt(p)
  BY <1>1, <1>2, HaltSolo
<1>3. CASE pc[p] \in {"writeClaim", "syncClaim"} /\ Goto(p, "unlinkClaim") /\ UNCHANGED finalizing
  <2>1. UNCHANGED <<file, fd, content, owner, journal>>
    BY <1>3 DEF finalizing
  <2>2. "unlinkClaim" \notin {"dispatch", "done"} \cup Finalizing
          /\ pc[p] \notin {"fill"} \cup Creating
    BY <1>3 DEF Finalizing, Creating
  <2> QED BY <1>1, <1>3, <2>1, <2>2, AsideSolo
<1>4. CASE /\ pc[p] \in {"writeJournal", "syncJournal"}
           /\ Goto(p, "unlinkJournal")
           /\ UNCHANGED finalizing
  <2>1. UNCHANGED <<file, fd, content, owner, journal>>
    BY <1>4 DEF finalizing
  <2>2. \A q \in Procs \ {p} : pc[q] \notin {"dispatch"} \cup Finalizing
    BY <1>4, Alone DEF Finalizing
  <2>3. fd'[p] = OpenAt("unlinkJournal") /\ journal'[p] = "preparing"
    BY <1>4, <2>1 DEF SoloInv, OneFinalizer, InOrder, OpenAt, Creating
  <2>4. pc'[p] = "unlinkJournal"
    BY <1>4 DEF Goto, TypeInv, ControlType
  <2>5. disk["journal"].state \in {"torn", "preparing"}
    <3>1. pc[p] = "writeJournal" => disk["journal"] = Torn
      BY DEF JournalFirst, Founding
    <3>2. pc[p] = "syncJournal" => disk["journal"].state = "preparing"
      BY DEF SoloInv, InOrder
    <3>3. Torn.state = "torn"
      BY DEF Torn, Blank
    <3> QED BY <1>4, <3>1, <3>2, <3>3
  <2>6. InOrder(p)'
    BY <1>1, <2>3, <2>4, <2>5 DEF InOrder, Working, Writing, Creating
  <2>7. WriteAhead'
    BY <1>1 DEF SoloInv, WriteAhead, Written
  <2> QED BY <1>1, <1>4, <2>1, <2>2, <2>3, <2>6, <2>7, LoneStep
<1> QED BY <1>2, <1>3, <1>4 DEF FailExclusive

\* It is removed by the process that created it.
LEMMA UnlinkSolo ==
    ASSUME TypeInv, SingleUse, SoloInv, NEW p \in Procs, Unlink(p)
    PROVE  SoloInv'
<1>1. PICK kind \in {"claim", "journal"} :
        /\ pc[p] = IF kind = "claim" THEN "unlinkClaim" ELSE "unlinkJournal"
        /\ disk' = [disk EXCEPT ![kind] = Absent]
        /\ fd' = [q \in Procs |->
              CASE q = p -> "none"
                [] q # p /\ file[q] = kind /\ fd[q] = "final" -> "gone"
                [] OTHER -> fd[q]]
  BY DEF Unlink
<1>2. PICK label \in {"idle", "stopped"} : Goto(p, label)
  BY DEF Unlink
<1>3. label \in Labels /\ label \notin {"done", "dispatch"} \cup Finalizing
  BY DEF Labels, Finalizing
<1>4. Absent.state = "absent" /\ Absent.state \notin Terminal
  BY DEF Absent, Blank, Terminal
<1>5. ASSUME \A q \in Procs \ {p} : fd[q] # "final" PROVE \A q \in Procs : fd'[q] \in {fd[q], "none"}
  BY <1>1, <1>5
<1>6. CASE kind = "claim"
  <2>1. pc[p] = "unlinkClaim"
    BY <1>1, <1>6
  <2>2. Early /\ \A q \in Procs \ {p} : pc[q] # "dispatch"
    BY <2>1 DEF Early, SingleUse, OneClaimant, Claiming, Confirming
  <2>3. \A q \in Procs : fd'[q] \in {fd[q], "none"}
    BY <1>5, <2>2, EarlyIsQuiet
  <2> QED BY <1>1, <1>2, <1>3, <1>4, <1>6, <2>2, <2>3, ClaimFileSolo
<1>7. CASE kind = "journal"
  <2>1. /\ pc' = [pc EXCEPT ![p] = label] /\ pc \in [Procs -> Labels] /\ disk \in [Kinds -> File]
    BY <1>2 DEF Goto, TypeInv, ControlType, DataType
  <2>2. pc[p] = "unlinkJournal" /\ disk["journal"].state \in {"torn", "preparing"}
    BY <1>1, <1>7 DEF SoloInv, InOrder
  <2>3. /\ disk'["journal"] = Absent /\ disk'["journal"].state = "absent"
        /\ disk'["claim"] = disk["claim"]
    BY <1>1, <1>4, <1>7, <2>1 DEF Kinds
  <2>4. \A q \in Procs \ {p} : pc[q] \notin {"dispatch"} \cup Finalizing
    BY <2>2, Alone DEF Finalizing
  <2>5. \A q \in Procs : pc[q] # "done"
    BY <2>2 DEF SoloInv, InOrder
  <2>6. \A q \in Procs : pc'[q] \notin {"done", "dispatch"} \cup Finalizing
    BY <1>3, <2>1, <2>4, <2>5
  <2>7. \A q \in Procs : fd'[q] = "none"
    <3>1. \A q \in Procs \ {p} : fd[q] = "none"
      BY <2>4 DEF SoloInv, OneFinalizer, Finalizing, OpenAt, Creating
    <3> QED BY <1>1, <3>1
  <2>8. disk["claim"].state \notin Terminal
    BY <2>2 DEF SoloInv, WriteAhead
  <2> QED BY <2>3, <2>6, <2>7, <2>8, QuietSolo
<1> QED BY <1>6, <1>7

\* Every step of the system, when recoveries wait and nobody calls a second time.
LEMMA SoloStep ==
    ASSUME Solo
    PROVE  TypeInv /\ SingleUse /\ Agreement /\ SoloInv /\ [Next]_vars => SoloInv'
<1> SUFFICES ASSUME TypeInv, SingleUse, Agreement, SoloInv, [Next]_vars PROVE SoloInv'
  OBVIOUS
<1>1. JournalFirst
  BY DEF Agreement
<1>2. PICK x \in Content \cup {None}, h \in Executors \cup {None} : Agree(x, h)
  BY DEF Agreement
<1>3. ASSUME NEW p \in Executors, Execute(p) PROVE SoloInv'
  BY <1>3, ExecuteSolo
<1>4. ASSUME NEW p \in Procs, Finalize(p) PROVE SoloInv'
  BY <1>1, <1>2, <1>4, FinalizeSolo
<1>5. Repeaters = {}
  BY DEF Solo
<1>6. ASSUME NEW p \in Recoverers, NEW what \in Content, Recover(p, what) PROVE SoloInv'
  <2>1. /\ p \in Procs /\ pc[p] = "idle" /\ UNCHANGED disk
        /\ Enter(p, what, disk["journal"].by)
        /\ \A q \in Procs : pc[q] \notin Finalizing
        /\ disk["journal"].state \in {"preparing", "artifacts_committed"}
    BY <1>6 DEF Procs, Recover, Solo, storage
  <2>2. disk["journal"] # Absent
    BY <2>1 DEF Absent, Blank
  <2>3. \A q \in Procs : pc[q] # "dispatch"
    BY <2>2 DEF SoloInv, OneFinalizer
  <2>4. pc[p] \notin {"fill"} \cup Creating
    BY <2>1 DEF Creating
  <2> QED BY <2>1, <2>3, <2>4, EnterSolo
<1>7. ASSUME NEW p \in Procs, FailExclusive(p) \/ Unlink(p) PROVE SoloInv'
  BY <1>1, <1>7, FailSolo, UnlinkSolo
<1>8. ASSUME NEW p \in Procs, Crash(p) PROVE SoloInv'
  BY <1>8, HaltSolo DEF Crash, storage, executing
<1>9. CASE UNCHANGED vars
  BY <1>9, SameSolo DEF vars, storage, executing, finalizing
<1> QED BY <1>3, <1>4, <1>5, <1>6, <1>7, <1>8, <1>9 DEF Next

\* The order of the transaction's files holds in every reachable state.
LEMMA SoloAlways ==
    ASSUME Solo
    PROVE  Spec => [](TypeInv /\ SingleUse /\ Agreement /\ SoloInv)
<1>1. Spec => OrderlySpec
  BY SoloIsOrderly DEF Solo
<1> QED BY <1>1, SoloInit, SoloStep, AgreementAlways, PTL DEF Spec

\* A settled file names the receipt of the transaction.
LEMMA SettledFile ==
    ASSUME NEW x, NEW h, Agree(x, h), NEW k \in Kinds, Settled(disk[k])
    PROVE  disk[k].content = x /\ (k = "claim" =>
                /\ disk[k].state = STATUS_TO_CLAIM_STATE[x.status]
                /\ disk[k].by = h)
<1>1. ~ Settled(Absent) /\ ~ Settled(Torn) /\ ~ Settled(Claimed(h))
  BY DEF Settled, Absent, Torn, Claimed, Blank
<1> QED BY <1>1 DEF Agree, FilesFit, Fits

\* The write-ahead order of states, with the receipts they name.
LEMMA OrderedAndAgreed ==
    ASSUME Agreement, SoloInv
    PROVE  CommitOrder
<1>1. PICK x \in Content \cup {None}, h \in Executors \cup {None} : Agree(x, h)
  BY DEF Agreement
<1>2. /\ ({"artifacts_committed", "claim_committed", "written"} \cup Terminal)
            \cap {"absent", "torn", "claimed"} = {}
      /\ {"claim", "journal", "receipt", "bundle"} = Kinds
  BY DEF Terminal, Kinds
<1>3. disk["journal"].state \in {"artifacts_committed", "claim_committed"} =>
            Backed(x) /\ disk["journal"].content = x
  BY <1>1, <1>2, SettledFile DEF SoloInv, WriteAhead, Written, Settled, Backed
<1>4. disk["claim"].state \in Terminal =>
            /\ disk["claim"].content = x
            /\ disk["claim"].state = STATUS_TO_CLAIM_STATE[x.status]
            /\ disk["journal"].state \in {"artifacts_committed", "claim_committed"}
  BY <1>1, <1>2, SettledFile DEF SoloInv, WriteAhead, Settled, Terminal
<1>5. disk["journal"].state = "claim_committed" => disk["claim"].state \in Terminal
  BY DEF SoloInv, WriteAhead
<1> QED BY <1>3, <1>4, <1>5 DEF CommitOrder

\* One finalizer at a time: a file of the transaction is published only over the
\* files it commits to, for every number of children, recoveries and crashes.
THEOREM WriteAheadOrder == Solo /\ Spec => []CommitOrder
<1> SUFFICES ASSUME Solo PROVE Spec => []CommitOrder
  OBVIOUS
<1> QED BY SoloAlways, OrderedAndAgreed, PTL

\* In the same setting, who was told that the finalization succeeded finds the four
\* files complete and linked for good.
THEOREM SuccessIsDurable == Solo /\ Spec => []ReportedSuccessIsDurable
<1> SUFFICES ASSUME Solo PROVE Spec => []ReportedSuccessIsDurable
  OBVIOUS
<1>1. Agreement /\ SoloInv => ReportedSuccessIsDurable
  <2> SUFFICES ASSUME Agreement, SoloInv, NEW p \in Procs, pc[p] = "done"
               PROVE  CrossLinked(content[p])
    BY DEF ReportedSuccessIsDurable
  <2>1. disk["journal"].state = "claim_committed" /\ content[p] = disk["journal"].content
    BY DEF SoloInv, InOrder
  <2>2. CommitOrder
    BY OrderedAndAgreed
  <2> QED BY <2>1, <2>2 DEF CommitOrder, Backed, CrossLinked
<1> QED BY <1>1, SoloAlways, PTL

\* What one step may do to the published claim and the published journal.
ClaimStays == disk'["claim"] = disk["claim"]
JournalStays == disk'["journal"] = disk["journal"]
JournalMoves ==
    /\ disk'["journal"].by = disk["journal"].by
    /\ disk'["journal"].content = disk["journal"].content
    /\ <<disk["journal"].state, disk'["journal"].state>> \in
          {<<"preparing", "artifacts_committed">>, <<"artifacts_committed", "claim_committed">>}

\* A promotion replaces the claim while it is claimed, and moves the journal forward.
LEMMA PromoteInTurn ==
    ASSUME TypeInv, Agreement, SoloInv, NEW p \in Procs, Promote(p)
    PROVE  /\ ClaimStays \/ (file[p] = "claim" /\ disk["claim"].state = "claimed"
                               /\ disk'["claim"] = staged["claim"] /\ Settled(staged["claim"])
                               /\ UNCHANGED <<invoked, results>>)
           /\ JournalStays \/ JournalMoves
<1>1. pc[p] = "promote" /\ InOrder(p) /\ UNCHANGED <<invoked, results>>
  BY DEF Promote, SoloInv, executing
<1>2. file[p] \in Kinds /\ disk \in [Kinds -> File]
  BY DEF TypeInv, ControlType, DataType
<1>3. disk' = disk \/ disk' = [disk EXCEPT ![file[p]] = staged[file[p]]]
  BY DEF Promote, storage
<1>4. CASE file[p] = "journal" /\ disk' # disk
  <2>1. disk'["journal"] = staged["journal"] /\ ClaimStays
    BY <1>2, <1>3, <1>4 DEF Kinds, ClaimStays
  <2>2. PICK x \in Content \cup {None}, h \in Executors \cup {None} : Agree(x, h)
    BY DEF Agreement
  <2>3. /\ staged["journal"].state = journal[p] /\ staged["journal"].by = disk["journal"].by
        /\ <<disk["journal"].state, journal[p]>> \in
             {<<"preparing", "artifacts_committed">>, <<"artifacts_committed", "claim_committed">>}
    BY <1>1, <1>4 DEF InOrder, Working, Writing
  <2>4. disk["journal"].content = x
    BY <2>2, <2>3, SettledFile DEF Settled, Kinds
  <2>5. staged["journal"].content = x
    BY <2>2, <2>3 DEF Agree, FilesFit, Fits, Kinds, Absent, Torn, Blank
  <2> QED BY <2>1, <2>3, <2>4, <2>5 DEF JournalMoves
<1>5. CASE file[p] = "claim" /\ disk' # disk
  <2>1. disk'["claim"] = staged["claim"] /\ JournalStays
    BY <1>2, <1>3, <1>5 DEF Kinds, JournalStays
  <2>2. disk["claim"].state = "claimed" /\ Settled(staged["claim"])
    BY <1>1, <1>5 DEF InOrder, Writing
  <2> QED BY <1>1, <1>5, <2>1, <2>2
<1>6. CASE file[p] \notin {"journal", "claim"} \/ disk' = disk
  BY <1>2, <1>3, <1>6 DEF Kinds, ClaimStays, JournalStays
<1> QED BY <1>4, <1>5, <1>6

\* The claim is being taken or given back: it is not terminal and nobody finalizes.
ClaimForming ==
    Early /\ disk["claim"].state \notin Terminal /\ disk'["claim"].state \notin Terminal

\* The journal is being created, or its creator takes it back.
JournalForming ==
    \/ disk["journal"].state \in {"absent", "torn"}
    \/ disk'["journal"] = Absent /\ \E p \in Procs : pc[p] = "unlinkJournal"

\* Removing a file that was created exclusively.
LEMMA UnlinkLeavesFiles ==
    ASSUME TypeInv, SingleUse, NEW p \in Procs, Unlink(p)
    PROVE  (ClaimStays \/ ClaimForming) /\ (JournalStays \/ JournalForming)
<1>1. PICK kind \in {"claim", "journal"} :
        /\ pc[p] = IF kind = "claim" THEN "unlinkClaim" ELSE "unlinkJournal"
        /\ disk' = [disk EXCEPT ![kind] = Absent]
  BY DEF Unlink
<1>2. disk \in [Kinds -> File] /\ {"claim", "journal"} \subseteq Kinds
  BY DEF TypeInv, DataType, Kinds
<1>3. /\ Absent.state = "absent" /\ Torn.state = "torn" /\ Claimed(p).state = "claimed"
      /\ {"absent", "torn", "claimed"} \cap Terminal = {}
  BY DEF Absent, Torn, Claimed, Blank, Terminal
<1>4. CASE kind = "claim"
  <2>1. disk["claim"] \in {Torn, Claimed(p)} /\ Early
    BY <1>1, <1>4 DEF SingleUse, ClaimHeld, Early, Confirming
  <2>2. disk'["claim"] = Absent /\ JournalStays
    BY <1>1, <1>2, <1>4 DEF JournalStays
  <2> QED BY <1>3, <2>1, <2>2 DEF ClaimForming
<1>5. CASE kind = "journal"
  BY <1>1, <1>2, <1>5 DEF ClaimStays, JournalForming
<1> QED BY <1>4, <1>5

\* Every other step leaves a published claim and a published journal alone.
LEMMA OthersLeaveFiles ==
    ASSUME TypeInv, SingleUse, Agreement, SoloInv, [Next]_vars,
           ~ \E p \in Procs : Promote(p)
    PROVE  (ClaimStays \/ ClaimForming) /\ (JournalStays \/ JournalForming)
<1> DEFINE Left == (ClaimStays \/ ClaimForming) /\ (JournalStays \/ JournalForming)
<1>1. /\ Absent.state = "absent" /\ Torn.state = "torn"
      /\ \A q \in Procs : Claimed(q).state = "claimed"
      /\ {"absent", "torn", "claimed"} \cap Terminal = {}
  BY DEF Absent, Torn, Claimed, Blank, Terminal
<1>2. disk \in [Kinds -> File] /\ {"claim", "journal"} \subseteq Kinds
  BY DEF TypeInv, DataType, Kinds
<1>3. \A q \in Procs :
         /\ pc[q] = "writeClaim" => disk["claim"].state = "torn" /\ Early
         /\ pc[q] = "writeJournal" => disk["journal"].state = "torn"
  BY <1>1 DEF SingleUse, ClaimHeld, Agreement, JournalFirst, Founding, Early, Confirming
<1>4. disk' = disk => Left
  BY DEF ClaimStays, JournalStays
<1>5. ASSUME NEW p \in Executors, Execute(p) PROVE Left
  <2>1. disk' # disk => OpenClaim(p) \/ WriteClaim(p)
    BY <1>5 DEF Execute, Load, Evaluate, ConfirmClaim, DispatchBatch, Conclude, storage
  <2>2. CASE OpenClaim(p) /\ disk' # disk
    <3>1. disk["claim"] = Absent /\ disk' = [disk EXCEPT !["claim"] = Torn]
      BY <2>2 DEF OpenClaim
    <3>2. ClaimForming /\ JournalStays
      BY <1>1, <1>2, <3>1 DEF ClaimForming, Early, JournalStays
    <3> QED BY <3>2
  <2>3. CASE WriteClaim(p)
    <3>1. pc[p] = "writeClaim" /\ disk' = [disk EXCEPT !["claim"] = Claimed(p)] /\ p \in Procs
      BY <2>3 DEF WriteClaim, Procs
    <3>2. ClaimForming /\ JournalStays
      BY <1>1, <1>2, <1>3, <3>1 DEF ClaimForming, JournalStays
    <3> QED BY <3>2
  <2> QED BY <1>4, <2>1, <2>2, <2>3
<1>6. ASSUME NEW p \in Procs, Finalize(p) PROVE Left
  <2>1. CASE Acquire(p)
    BY <1>1, <1>2, <1>4, <2>1 DEF Acquire, ClaimStays, JournalForming
  <2>2. CASE WriteJournal(p)
    BY <1>2, <1>3, <1>4, <2>2 DEF WriteJournal, ClaimStays, JournalForming
  <2>3. CASE Fill(p)
    BY <1>4, <2>3 DEF Fill, SoloInv, OneFinalizer, OpenAt, Creating
  <2>4. CASE Open(p) \/ CasGuard(p) \/ Verify(p) \/ ConfirmJournal(p)
    BY <1>4, <2>4 DEF Open, CasGuard, Verify, ConfirmJournal, storage
  <2> QED BY <1>6, <2>1, <2>2, <2>3, <2>4 DEF Finalize
<1>7. ASSUME NEW p \in Procs, Unlink(p) PROVE Left
  BY <1>7, UnlinkLeavesFiles
<1>8. ASSUME \/ \E p \in Repeaters : Repeat(p)
             \/ \E p \in Recoverers, what \in Content : Recover(p, what)
             \/ \E p \in Procs : FailExclusive(p) \/ Crash(p)
             \/ UNCHANGED vars
      PROVE  Left
  BY <1>4, <1>8 DEF Repeat, Recover, FailExclusive, Crash, vars, storage
<1> HIDE DEF Left
<1>9. Left
  BY <1>5, <1>6, <1>7, <1>8 DEF Next
<1> QED BY <1>9 DEF Left

\* One finalizer at a time: a terminal claim is never rewritten.
THEOREM TerminalClaimStays == Solo /\ Spec => TerminalClaimIsFinal
<1> SUFFICES ASSUME Solo PROVE Spec => TerminalClaimIsFinal
  OBVIOUS
<1> DEFINE Final == disk["claim"].state \in Terminal => disk'["claim"] = disk["claim"]
<1>1. TypeInv /\ SingleUse /\ Agreement /\ SoloInv /\ [Next]_vars => [Final]_vars
  BY PromoteInTurn, OthersLeaveFiles DEF ClaimStays, ClaimForming, Terminal
<1> QED BY <1>1, SoloAlways, PTL DEF Spec, TerminalClaimIsFinal

-----------------------------------------------------------------------------
(***************************************************************************)
(* Progress of a finalization, as far as it is safety.  A finalizer only   *)
(* moves itself, every step brings it nearer to its end (Remaining), and   *)
(* with one finalizer at a time nothing that an earlier attempt left       *)
(* behind refuses it (Ready).                                              *)
(***************************************************************************)

\* A step of one process.
Moves(p) ==
    \/ p \in Executors /\ Execute(p)
    \/ p \in Repeaters /\ Repeat(p)
    \/ p \in Recoverers /\ \E what \in Content : Recover(p, what)
    \/ Finalize(p) \/ FailExclusive(p) \/ Unlink(p) \/ Crash(p)

\* The steps a finalizer has left at most.
Remaining(p) ==
    LET writing(last) == CASE pc[p] = "open" -> last + 2
                           [] pc[p] = "fill" -> last + 1
                           [] OTHER -> last
    IN CASE pc[p] = "acquire" -> 21
         [] pc[p] = "writeJournal" -> 20
         [] pc[p] = "syncJournal" -> 19
         [] pc[p] = "unlinkJournal" -> 1
         [] pc[p] \in {"open", "fill"} /\ file[p] = "receipt" -> writing(16)
         [] pc[p] \in {"open", "fill"} /\ file[p] = "bundle" -> writing(14)
         [] pc[p] = "promote" /\ file[p] = "receipt" -> 14
         [] pc[p] = "promote" /\ file[p] = "bundle" -> 13
         [] pc[p] \in Writing /\ file[p] = "journal" /\ journal[p] = "artifacts_committed" -> writing(10)
         [] pc[p] = "cas" -> 9
         [] pc[p] \in Writing /\ file[p] = "claim" -> writing(6)
         [] pc[p] \in Writing /\ file[p] = "journal" /\ journal[p] # "artifacts_committed" -> writing(3)
         [] pc[p] = "verify" -> 2
         [] OTHER -> 0

\* Every step is one of somebody.
LEMMA NextMoves ==
    ASSUME [Next]_vars
    PROVE  UNCHANGED vars \/ \E p \in Procs : Moves(p)
BY DEF Next, Moves, Procs

\* A process moves itself only, and the journal only while it finalizes.
LEMMA MoveFacts ==
    ASSUME TypeInv, NEW p \in Procs, Moves(p)
    PROVE  /\ \A q \in Procs \ {p} :
                 /\ pc'[q] = pc[q] /\ file'[q] = file[q] /\ journal'[q] = journal[q]
                 /\ owner'[q] = owner[q] /\ content'[q] = content[q]
           /\ pc[p] \in Finalizing \/ disk'["journal"] = disk["journal"]
           /\ pc[p] \in Finalizing => pc'[p] # "acquire"
<1> USE DEF Finalizing
<1> DEFINE Goal == /\ \A q \in Procs \ {p} :
                         /\ pc'[q] = pc[q] /\ file'[q] = file[q] /\ journal'[q] = journal[q]
                         /\ owner'[q] = owner[q] /\ content'[q] = content[q]
                   /\ pc[p] \in Finalizing \/ disk'["journal"] = disk["journal"]
                   /\ pc[p] \in Finalizing => pc'[p] # "acquire"
<1>1. /\ pc \in [Procs -> Labels] /\ file \in [Procs -> Kinds]
      /\ journal \in [Procs -> JournalStates] /\ owner \in [Procs -> Procs \cup {None}]
      /\ content \in [Procs -> Content \cup {None}] /\ disk \in [Kinds -> File]
      /\ {"claim", "journal"} \subseteq Kinds
  BY DEF TypeInv, ControlType, DataType, Kinds
<1>2. Halt(p) => pc'[p] # "acquire" /\ \A q \in Procs \ {p} : pc'[q] = pc[q]
  BY <1>1 DEF Halt, Goto
<1>3. CASE Execute(p)
  BY <1>1, <1>2, <1>3 DEF Execute, Load, Evaluate, OpenClaim, WriteClaim, ConfirmClaim,
        DispatchBatch, Conclude, Enter, Halt, Goto, finalizing, storage
<1>4. CASE Repeat(p) \/ \E what \in Content : Recover(p, what)
  BY <1>1, <1>4 DEF Repeat, Recover, Enter, Goto, storage
<1>5. CASE FailExclusive(p) \/ Unlink(p) \/ Crash(p)
  <2>1. CASE FailExclusive(p) \/ Crash(p)
    BY <1>1, <1>2, <2>1 DEF FailExclusive, Crash, Halt, Goto, finalizing, storage
  <2>2. CASE Unlink(p)
    BY <1>1, <2>2 DEF Unlink, Goto
  <2> QED BY <1>5, <2>1, <2>2
<1>6. CASE Acquire(p) \/ WriteJournal(p) \/ ConfirmJournal(p)
  BY <1>1, <1>2, <1>6 DEF Acquire, WriteJournal, ConfirmJournal, Halt, Goto, finalizing, storage
<1>7. CASE Open(p) \/ Fill(p)
  BY <1>1, <1>2, <1>7 DEF Open, Fill, Halt, Goto
<1>8. CASE Promote(p)
  BY <1>1, <1>2, <1>8 DEF Promote, Halt, Goto
<1>9. CASE CasGuard(p) \/ Verify(p)
  BY <1>1, <1>2, <1>9 DEF CasGuard, Verify, Halt, Goto, storage, finalizing
<1> QED BY <1>3, <1>4, <1>5, <1>6, <1>7, <1>8, <1>9 DEF Moves, Finalize

\* A step of a finalizer brings it nearer to its end.
LEMMA FinalizeAdvances ==
    ASSUME TypeInv, NEW p \in Procs, Finalize(p)
    PROVE  Remaining(p)' < Remaining(p)
<1> USE DEF Remaining, Writing
<1>1. /\ pc \in [Procs -> Labels] /\ file \in [Procs -> Kinds]
      /\ journal \in [Procs -> JournalStates]
  BY DEF TypeInv, ControlType
<1>2. Halt(p) => pc'[p] \in {"idle", "stopped"}
  BY <1>1 DEF Halt, Goto
<1>3. CASE Acquire(p)
  BY <1>1, <1>2, <1>3 DEF Acquire, Goto, finalizing
<1>4. CASE WriteJournal(p) \/ ConfirmJournal(p)
  BY <1>1, <1>2, <1>4 DEF WriteJournal, ConfirmJournal, Goto, Kinds
<1>5. CASE Open(p)
  BY <1>1, <1>5 DEF Open, Goto, Kinds
<1>6. CASE Fill(p)
  BY <1>1, <1>2, <1>6 DEF Fill, Goto, Kinds
<1>7. CASE Promote(p)
  BY <1>1, <1>2, <1>7 DEF Promote, Goto, Kinds
<1>8. CASE CasGuard(p)
  BY <1>1, <1>2, <1>8 DEF CasGuard, Goto
<1>9. CASE Verify(p)
  BY <1>1, <1>2, <1>9 DEF Verify, Goto, finalizing
<1> QED BY <1>3, <1>4, <1>5, <1>6, <1>7, <1>8, <1>9 DEF Finalize

\* The remaining steps are a number, zero outside of the transaction.
LEMMA RemainingFacts ==
    ASSUME NEW p
    PROVE  Remaining(p) \in Nat /\ (pc[p] \in {"idle", "stopped"} => Remaining(p) = 0)
BY DEF Remaining, Writing

\* A finalization is finite: each step of a finalizer reduces the steps it has left, of
\* which there are at most twenty-one, and no other process increases them.
THEOREM FinalizationIsFinite ==
    Spec => [][\A p \in Procs :
                 /\ Finalize(p) => Remaining(p)' < Remaining(p)
                 /\ pc[p] \in Finalizing => Remaining(p)' <= Remaining(p)]_vars
<1> DEFINE Nearer == \A p \in Procs :
                        /\ Finalize(p) => Remaining(p)' < Remaining(p)
                        /\ pc[p] \in Finalizing => Remaining(p)' <= Remaining(p)
<1>1. ASSUME TypeInv, [Next]_vars PROVE [Nearer]_vars
  <2>1. ASSUME NEW p \in Procs, Finalize(p) PROVE Remaining(p)' < Remaining(p)
    BY <1>1, <2>1, FinalizeAdvances
  <2>2. ASSUME NEW p \in Procs, pc[p] \in Finalizing, ~ UNCHANGED vars
        PROVE  Remaining(p)' <= Remaining(p)
    <3>1. Remaining(p) \in Nat /\ Remaining(p)' \in Nat
      BY RemainingFacts DEF Remaining, Writing
    <3>2. PICK q \in Procs : Moves(q)
      BY <1>1, <2>2, NextMoves
    <3>3. CASE q # p
      <4>1. pc'[p] = pc[p] /\ file'[p] = file[p] /\ journal'[p] = journal[p]
        BY <1>1, <3>2, <3>3, MoveFacts
      <4> QED BY <3>1, <4>1 DEF Remaining
    <3>4. CASE q = p /\ Finalize(p)
      BY <2>1, <3>1, <3>4
    <3>5. CASE q = p /\ (FailExclusive(p) \/ Unlink(p) \/ Crash(p))
      <4>1. \/ pc'[p] \in {"idle", "stopped"}
            \/ pc'[p] = "unlinkJournal" /\ pc[p] \in {"writeJournal", "syncJournal"}
        BY <1>1, <2>2, <3>5
           DEF FailExclusive, Unlink, Crash, Halt, Goto, TypeInv, ControlType, Finalizing
      <4>2. pc'[p] \in {"idle", "stopped"} => Remaining(p)' = 0
        BY DEF Remaining, Writing
      <4>3. pc'[p] = "unlinkJournal" => Remaining(p)' = 1
        BY DEF Remaining, Writing
      <4>4. pc[p] \in {"writeJournal", "syncJournal"} => Remaining(p) \in {19, 20}
        BY DEF Remaining, Writing
      <4> QED BY <3>1, <4>1, <4>2, <4>3, <4>4
    <3>6. ~ Execute(p) /\ ~ Repeat(p) /\ ~ \E what \in Content : Recover(p, what)
      BY <2>2 DEF Finalizing, Execute, Load, Evaluate, OpenClaim, WriteClaim, ConfirmClaim,
                  DispatchBatch, Conclude, Repeat, Recover
    <3> QED BY <3>2, <3>3, <3>4, <3>5, <3>6 DEF Moves
  <2> QED BY <2>1, <2>2
<1> QED BY <1>1, TypeInit, TypeStep, PTL DEF Spec

\* What a finalizer found when it entered, and still finds when it acquires the journal.
Ready ==
    \A p \in Procs : pc[p] \in Finalizing =>
        /\ ClaimReadable
        /\ pc[p] = "acquire" =>
              \/ disk["journal"] = Absent
              \/ /\ disk["journal"].state \in {"preparing", "artifacts_committed"}
                 /\ disk["journal"].by = owner[p]

\* Whoever enters finds a readable claim and, if it recovers, a journal it may adopt.
LEMMA EnterReady ==
    ASSUME Solo, TypeInv, SoloInv, NEW p \in Procs, pc[p] \notin Finalizing,
           pc'[p] \in Finalizing, Moves(p)
    PROVE  /\ ClaimReadable' /\ UNCHANGED disk
           /\ \/ disk["journal"] = Absent
              \/ /\ disk["journal"].state \in {"preparing", "artifacts_committed"}
                 /\ disk["journal"].by = owner'[p]
<1>1. pc \in [Procs -> Labels] /\ owner \in [Procs -> Procs \cup {None}]
  BY DEF TypeInv, ControlType
<1>2. ~ Halt(p)
  BY <1>1 DEF Halt, Goto, Finalizing
<1>3. ~ Finalize(p) /\ ~ FailExclusive(p) /\ ~ Unlink(p) /\ ~ Crash(p)
  <2>1. ~ Finalize(p) /\ ~ Crash(p)
    BY <1>2 DEF Finalizing, Finalize, Acquire, WriteJournal, ConfirmJournal, Open, Fill, Promote,
                CasGuard, Verify, Crash
  <2>2. ~ FailExclusive(p) /\ ~ Unlink(p)
    BY <1>1, <1>2 DEF Finalizing, FailExclusive, Unlink, Goto
  <2> QED BY <2>1, <2>2
<1>4. ~ Repeat(p) \/ p \notin Repeaters
  BY DEF Solo
<1>5. CASE Execute(p)
  <2>1. pc[p] = "dispatch" /\ ClaimReadable /\ UNCHANGED disk
    BY <1>1, <1>2, <1>5 DEF Execute, Load, Evaluate, OpenClaim, WriteClaim, ConfirmClaim,
                            DispatchBatch, Conclude, Goto, Finalizing, Enter, storage
  <2> QED BY <2>1 DEF SoloInv, OneFinalizer, ClaimReadable
<1>6. CASE \E what \in Content : Recover(p, what)
  BY <1>1, <1>6 DEF Recover, Enter, ClaimReadable, storage
<1> QED BY <1>3, <1>4, <1>5, <1>6 DEF Moves

\* While somebody finalizes the claim stays readable.
LEMMA ClaimStaysReadable ==
    ASSUME TypeInv, SingleUse, Agreement, SoloInv, [Next]_vars, ClaimReadable,
           NEW r \in Procs, pc[r] \in Finalizing
    PROVE  ClaimReadable'
<1>1. ~ ClaimForming
  BY DEF ClaimForming, SingleUse, FinalizedLater
<1>2. CASE ClaimStays
  BY <1>2 DEF ClaimStays, ClaimReadable
<1>3. CASE ~ ClaimStays
  <2>1. PICK p \in Procs : Promote(p)
    BY <1>1, <1>3, OthersLeaveFiles
  <2>2. disk'["claim"] = staged["claim"] /\ Settled(staged["claim"])
    BY <1>3, <2>1, PromoteInTurn
  <2>3. PICK x \in Content \cup {None}, h \in Executors \cup {None} : Agree(x, h)
    BY DEF Agreement
  <2>4. h \in Executors /\ disk["journal"] # Absent
    <3>1. pc[p] \in Transacting /\ pc[p] \in Finalizing
      BY <2>1 DEF Promote, Transacting, Working, Finalizing
    <3> QED BY <2>3, <3>1, NoHolder DEF Agreement, JournalFirst, Founding
  <2>5. x \in Content
    BY <2>3, <2>4 DEF Agree, Truthful, Honest
  <2>6. staged["claim"].state = STATUS_TO_CLAIM_STATE[x.status]
    BY <2>2, <2>3 DEF Agree, FilesFit, Fits, Kinds, Settled, Absent, Torn, Blank
  <2>7. staged["claim"].state \in Terminal
    BY <2>5, <2>6, ClaimStateType DEF Content
  <2> QED BY <2>2, <2>7 DEF ClaimReadable
<1> QED BY <1>2, <1>3

\* Readiness is kept by every step.
LEMMA ReadyStep ==
    ASSUME Solo
    PROVE  TypeInv /\ SingleUse /\ Agreement /\ SoloInv /\ Ready /\ [Next]_vars => Ready'
<1> SUFFICES ASSUME TypeInv, SingleUse, Agreement, SoloInv, Ready, [Next]_vars,
                    NEW p \in Procs, pc'[p] \in Finalizing
             PROVE  /\ ClaimReadable'
                    /\ pc'[p] = "acquire" =>
                          \/ disk'["journal"] = Absent
                          \/ /\ disk'["journal"].state \in {"preparing", "artifacts_committed"}
                             /\ disk'["journal"].by = owner'[p]
  BY DEF Ready
<1>1. CASE UNCHANGED vars
  BY <1>1 DEF vars, storage, finalizing, Ready, ClaimReadable
<1>2. ASSUME NEW q \in Procs, Moves(q), pc[p] \notin Finalizing
      PROVE  q = p
  BY <1>2, MoveFacts
<1>3. CASE pc[p] \notin Finalizing /\ ~ UNCHANGED vars
  <2>1. Moves(p)
    BY <1>2, <1>3, NextMoves
  <2> QED BY <1>3, <2>1, EnterReady
<1>4. CASE pc[p] \in Finalizing /\ ~ UNCHANGED vars
  <2>1. ClaimReadable'
    BY <1>4, ClaimStaysReadable DEF Ready
  <2>2. PICK q \in Procs : Moves(q)
    BY <1>4, NextMoves
  <2>3. CASE q = p
    BY <1>4, <2>1, <2>2, <2>3, MoveFacts
  <2>4. CASE q # p
    <3>1. pc'[p] = pc[p] /\ owner'[p] = owner[p]
      BY <2>2, <2>4, MoveFacts
    <3>2. pc[q] \notin Finalizing
      BY <1>4, <2>4, Alone
    <3>3. disk'["journal"] = disk["journal"]
      BY <2>2, <3>2, MoveFacts
    <3> QED BY <1>4, <2>1, <3>1, <3>3 DEF Ready
  <2> QED BY <2>3, <2>4
<1> QED BY <1>1, <1>3, <1>4

\* A finalizer that ends by itself has done its work or carries another receipt.
LEMMA FinalizeEnds ==
    ASSUME TypeInv, Agreement, SoloInv, Ready, NEW p \in Procs, Finalize(p),
           pc'[p] \in {"idle", "stopped"}
    PROVE  disk["journal"].state \in JournalStates /\ disk["journal"].content # content[p]
<1>1. pc \in [Procs -> Labels] /\ disk \in [Kinds -> File] /\ Kinds = {"claim", "journal", "receipt", "bundle"}
  BY DEF TypeInv, ControlType, DataType, Kinds
<1>2. PICK x \in Content \cup {None}, h \in Executors \cup {None} : Agree(x, h)
  BY DEF Agreement
<1>3. pc[p] \in Transacting => content[p] = x
  BY <1>2 DEF Agree, WritersAgree
<1>4. pc[p] \in Finalizing /\ InOrder(p) /\ ClaimReadable
  BY DEF Finalize, Acquire, WriteJournal, ConfirmJournal, Open, Fill, Promote, CasGuard, Verify,
         Finalizing, SoloInv, Ready
<1>5. CASE Acquire(p)
  <2>1. pc[p] = "acquire"
    BY <1>5 DEF Acquire
  <2>2. \/ disk["journal"] = Absent
        \/ /\ disk["journal"].state \in {"preparing", "artifacts_committed"}
           /\ disk["journal"].by = owner[p]
    BY <1>4, <2>1 DEF Ready
  <2>3. Absent.state = "absent" /\ Torn.state = "torn"
    BY DEF Absent, Torn, Blank
  <2>4. disk["journal"] # Absent
    BY <1>1, <1>5, <2>3 DEF Acquire, Goto
  <2>5. disk["journal"].content # content[p]
    <3>1. ~ (disk["journal"] = Torn) /\ ~ \E q \in Procs : Provisional(q)
      <4>1. ~ (disk["journal"] = Torn)
        BY <2>2, <2>3, <2>4
      <4>2. \A q \in Procs : pc[q] \notin {"writeJournal", "syncJournal", "unlinkJournal"}
        BY <1>4, <2>1, Alone DEF Finalizing
      <4> QED BY <4>1, <4>2 DEF Provisional
    <3>2. ~ (disk["journal"].state = "preparing" /\ disk["journal"].by # owner[p])
      BY <2>2, <2>4
    <3>3. \/ disk["journal"].content # content[p]
          \/ Goto(p, "open")
          \/ Goto(p, IF disk["journal"].state = "claim_committed" THEN "verify" ELSE "cas")
      BY <1>5, <2>4, <3>1, <3>2 DEF Acquire
    <3>4. \A label : Goto(p, label) => pc'[p] = label
      BY <1>1 DEF Goto
    <3> QED BY <3>3, <3>4
  <2> QED BY <2>2, <2>4, <2>5 DEF JournalStates
<1>6. CASE WriteJournal(p) \/ ConfirmJournal(p) \/ Open(p)
  <2>1. pc[p] = "syncJournal" => fd[p] = "final"
    BY DEF SoloInv, OneFinalizer, OpenAt, Creating
  <2> QED BY <1>1, <1>6, <2>1 DEF WriteJournal, ConfirmJournal, Open, Goto
<1>7. CASE Fill(p)
  <2>1. fd[p] = "tmp"
    BY <1>7 DEF Fill, SoloInv, OneFinalizer, OpenAt, Creating
  <2> QED BY <1>1, <1>7, <2>1 DEF Fill, Goto
<1>8. CASE Promote(p)
  <2>1. staged[file[p]] # Absent
    BY <1>4, <1>8 DEF Promote, InOrder, Written, Settled, Writing, Staging, Absent, Blank,
                      TypeInv, ControlType, Kinds, JournalStates
  <2> QED BY <1>1, <1>8, <2>1 DEF Promote, Goto
<1>9. CASE CasGuard(p)
  <2>1. content[p] = x
    BY <1>3, <1>9 DEF CasGuard, Transacting, Working
  <2>2. disk["claim"].state # "claimed" =>
            /\ disk["claim"].state = STATUS_TO_CLAIM_STATE[x.status]
            /\ disk["claim"].content = x
    <3>1. disk["claim"].state # "claimed" => Settled(disk["claim"])
      BY <1>4 DEF ClaimReadable, Terminal, Settled
    <3> QED BY <1>1, <1>2, <3>1, SettledFile
  <2> QED BY <1>1, <1>9, <2>1, <2>2 DEF CasGuard, Goto
<1>10. CASE Verify(p)
  <2>1. content[p] = x /\ disk["journal"].state = "claim_committed"
    BY <1>3, <1>4, <1>10 DEF Verify, Transacting, Working, InOrder
  <2>2. disk["journal"].content = x
    BY <1>1, <1>2, <2>1, SettledFile DEF Settled
  <2>3. CrossLinked(content[p])
    BY <2>1, <2>2, OrderedAndAgreed DEF CommitOrder, Backed, CrossLinked
  <2> QED BY <1>1, <1>10, <2>3 DEF Verify, Goto
<1> QED BY <1>5, <1>6, <1>7, <1>8, <1>9, <1>10 DEF Finalize

\* One finalizer at a time: whatever an earlier attempt left behind, a finalization with
\* the journalled receipt is interrupted by crashes only.
THEOREM NothingRefusesRecovery == Solo /\ Spec => OnlyCrashesInterrupt
<1> SUFFICES ASSUME Solo PROVE Spec => OnlyCrashesInterrupt
  OBVIOUS
<1> DEFINE Ends == \A p \in Procs :
        pc[p] \in Attempting /\ pc'[p] \in {"idle", "stopped"} =>
            \/ crashes' # crashes
            \/ /\ disk["journal"].state \in JournalStates
               /\ disk["journal"].content # content[p]
<1>1. Init => Ready
  BY DEF Init, Ready, Finalizing
<1>2. ASSUME TypeInv, SingleUse, Agreement, SoloInv, Ready, [Next]_vars PROVE [Ends]_vars
  <2> SUFFICES ASSUME NEW p \in Procs, pc[p] \in Attempting, pc'[p] \in {"idle", "stopped"},
                      crashes' = crashes
               PROVE  disk["journal"].state \in JournalStates /\ disk["journal"].content # content[p]
    OBVIOUS
  <2>7. pc[p] \in Finalizing /\ pc[p] # "unlinkJournal"
    BY DEF Attempting
  <2>1. ~ UNCHANGED vars
    BY <2>7 DEF vars, Finalizing
  <2>2. PICK q \in Procs : Moves(q)
    BY <1>2, <2>1, NextMoves
  <2>3. q = p
    BY <1>2, <2>2, <2>7, MoveFacts DEF Finalizing
  <2>4. ~ FailExclusive(p) /\ ~ Crash(p) /\ ~ Unlink(p)
    <3>1. ~ FailExclusive(p) /\ ~ Crash(p)
      BY <1>2 DEF FailExclusive, Crash, TypeInv, DataType
    <3> QED BY <2>7, <3>1 DEF Unlink, Finalizing
  <2>5. ~ Execute(p) /\ ~ Repeat(p) /\ ~ \E what \in Content : Recover(p, what)
    BY <2>7 DEF Finalizing, Execute, Load, Evaluate, OpenClaim, WriteClaim, ConfirmClaim,
           DispatchBatch, Conclude, Repeat, Recover
  <2>6. Finalize(p)
    BY <2>2, <2>3, <2>4, <2>5 DEF Moves
  <2> QED BY <1>2, <2>6, FinalizeEnds
<1> QED BY <1>1, <1>2, ReadyStep, SoloAlways, PTL DEF Spec, OnlyCrashesInterrupt

\* Until the journal is published for good, no file of the transaction was begun.
Pristine ==
    Unpublished => \A k \in Kinds : staged[k] = Absent /\ (k \in Staging => disk[k] = Absent)

\* A published journal stays published.
LEMMA StaysPublished ==
    ASSUME Solo, TypeInv, SingleUse, Agreement, SoloInv, [Next]_vars, ~ Unpublished
    PROVE  ~ Unpublished'
<1>1. /\ disk["journal"] # Absent /\ \A q \in Procs : pc[q] \notin Creating
      /\ Revocable = Creating /\ Revocable' = Creating
  BY Places DEF Unpublished, Solo, Revocable, Creating
<1>2. /\ disk \in [Kinds -> File] /\ {"claim", "journal"} \subseteq Kinds
      /\ pc \in [Procs -> Labels]
  BY DEF TypeInv, DataType, ControlType, Kinds
<1> DEFINE Kept == disk'["journal"] # Absent /\ \A q \in Procs : pc'[q] \notin Creating
<1>3. \A q \in Procs : Halt(q) /\ disk'["journal"] = disk["journal"] => Kept
  BY <1>1, <1>2 DEF Halt, Goto, Creating
<1>4. ASSUME NEW q \in Procs, NEW label, Goto(q, label), label \notin Creating,
             disk'["journal"] = disk["journal"]
      PROVE  Kept
  BY <1>1, <1>2, <1>4 DEF Goto
<1>5. \A l \in {"evaluate", "claim", "writeClaim", "syncClaim", "dispatch", "acquire", "fill",
                "open", "promote", "cas", "verify", "done", "unlinkClaim"} : l \notin Creating
  BY DEF Creating
<1>6. ASSUME NEW q \in Executors, Execute(q) PROVE Kept
  <2>1. q \in Procs /\ disk'["journal"] = disk["journal"]
    BY <1>2, <1>6 DEF Procs, Execute, Load, Evaluate, OpenClaim, WriteClaim, ConfirmClaim,
                      DispatchBatch, Conclude, storage
  <2>2. \/ Halt(q) \/ pc' = pc
        \/ \E l \in {"evaluate", "claim", "writeClaim", "syncClaim", "dispatch", "acquire"} : Goto(q, l)
    BY <1>6 DEF Execute, Load, Evaluate, OpenClaim, WriteClaim, ConfirmClaim, DispatchBatch,
                Conclude, Enter
  <2>3. pc' = pc => Kept
    BY <1>1, <2>1
  <2> HIDE DEF Kept
  <2> QED BY <1>3, <1>4, <1>5, <2>1, <2>2, <2>3
<1>7. ASSUME NEW q \in Procs, Finalize(q) PROVE Kept
  <2>1. ~ WriteJournal(q) /\ ~ ConfirmJournal(q)
    BY <1>1 DEF WriteJournal, ConfirmJournal, Creating
  <2>2. disk'["journal"] = disk["journal"] \/ disk'["journal"] # Absent
    <3>1. CASE Promote(q)
      BY <1>2, <3>1 DEF Promote, storage
    <3>2. CASE Acquire(q)
      BY <1>1, <3>2 DEF Acquire
    <3>3. CASE Fill(q)
      BY <3>3 DEF Fill, SoloInv, OneFinalizer, OpenAt, Creating
    <3>4. CASE Open(q) \/ CasGuard(q) \/ Verify(q)
      BY <3>4 DEF Open, CasGuard, Verify, storage
    <3> QED BY <1>7, <2>1, <3>1, <3>2, <3>3, <3>4 DEF Finalize
  <2>3. \/ Halt(q)
        \/ \E l \in {"fill", "open", "promote", "cas", "verify", "done"} : Goto(q, l)
    BY <1>1, <1>7, <2>1 DEF Finalize, Acquire, Open, Fill, Promote, CasGuard, Verify
  <2>4. \A r \in Procs : pc'[r] \notin Creating
    <3>1. Halt(q) => \A r \in Procs : pc'[r] \notin Creating
      BY <1>1, <1>2 DEF Halt, Goto, Creating
    <3>2. \A l : Goto(q, l) /\ l \notin Creating => \A r \in Procs : pc'[r] \notin Creating
      BY <1>1, <1>2 DEF Goto
    <3> QED BY <1>5, <2>3, <3>1, <3>2
  <2> QED BY <1>1, <2>2, <2>4
<1>8. ASSUME NEW q \in Procs, FailExclusive(q) \/ Crash(q) PROVE Kept
  <2>1. disk' = disk /\ (Halt(q) \/ Goto(q, "unlinkClaim"))
    BY <1>1, <1>8 DEF FailExclusive, Crash, storage, Creating
  <2> QED BY <1>3, <1>4, <1>5, <2>1
<1>9. ASSUME NEW q \in Procs, Unlink(q) PROVE Kept
  <2>1. PICK kind \in {"claim", "journal"} :
          /\ pc[q] = IF kind = "claim" THEN "unlinkClaim" ELSE "unlinkJournal"
          /\ disk' = [disk EXCEPT ![kind] = Absent]
    BY <1>9 DEF Unlink
  <2>2. kind = "claim"
    BY <1>1, <2>1 DEF Creating
  <2>3. disk'["journal"] = disk["journal"]
    BY <1>2, <2>1, <2>2
  <2>4. PICK l \in {"idle", "stopped"} : Goto(q, l)
    BY <1>9 DEF Unlink
  <2>5. l \notin Creating
    BY DEF Creating
  <2> QED BY <1>4, <2>3, <2>4, <2>5
<1>10. ASSUME NEW q \in Recoverers, NEW what \in Content, Recover(q, what) PROVE Kept
  <2>1. q \in Procs /\ Goto(q, "acquire") /\ disk' = disk
    BY <1>10 DEF Recover, Enter, Procs, storage
  <2> QED BY <1>4, <1>5, <2>1
<1>11. CASE UNCHANGED vars
  BY <1>1, <1>11 DEF vars, storage, Unpublished
<1>12. Repeaters = {}
  BY DEF Solo
<1> HIDE DEF Kept
<1>13. CASE Kept
  BY <1>1, <1>13 DEF Kept, Unpublished
<1> QED BY <1>6, <1>7, <1>8, <1>9, <1>10, <1>11, <1>12, <1>13 DEF Next

\* While the journal may be taken back, or is not there, nobody touches the other files.
LEMMA PristineStep ==
    ASSUME Solo
    PROVE  TypeInv /\ SingleUse /\ Agreement /\ SoloInv /\ Pristine /\ [Next]_vars => Pristine'
<1> SUFFICES ASSUME TypeInv, SingleUse, Agreement, SoloInv, Pristine, [Next]_vars, Unpublished'
             PROVE  \A k \in Kinds : staged'[k] = Absent /\ (k \in Staging => disk'[k] = Absent)
  BY DEF Pristine, Staging
<1>1. Unpublished
  BY StaysPublished
<1>2. \A k \in Kinds : staged[k] = Absent /\ (k \in Staging => disk[k] = Absent)
  BY <1>1 DEF Pristine
<1>3. \A q \in Procs : pc[q] \notin Working
  BY <1>1, Places DEF Agreement, JournalFirst, Founding, Unpublished
<1>4. disk \in [Kinds -> File] /\ {"claim", "journal"} \subseteq Kinds \ Staging
  BY DEF TypeInv, DataType, Kinds, Staging
<1> DEFINE Untouched == staged' = staged /\ \A k \in Kinds \cap Staging : disk'[k] = disk[k]
<1>5. ASSUME NEW q \in Executors, Execute(q) PROVE Untouched
  BY <1>4, <1>5 DEF Execute, Load, Evaluate, OpenClaim, WriteClaim, ConfirmClaim, DispatchBatch,
                    Conclude, storage
<1>6. ASSUME NEW q \in Procs, Finalize(q) PROVE Untouched
  <2>1. Acquire(q) \/ WriteJournal(q) \/ ConfirmJournal(q)
    BY <1>3, <1>6 DEF Finalize, Open, Fill, Promote, CasGuard, Verify, Working
  <2> QED BY <1>4, <2>1 DEF Acquire, WriteJournal, ConfirmJournal, storage
<1>7. ASSUME NEW q \in Procs, Unlink(q) PROVE Untouched
  BY <1>4, <1>7 DEF Unlink
<1>8. ASSUME \/ \E q \in Repeaters : Repeat(q)
             \/ \E q \in Recoverers, what \in Content : Recover(q, what)
             \/ \E q \in Procs : FailExclusive(q) \/ Crash(q)
             \/ UNCHANGED vars
      PROVE  Untouched
  BY <1>8 DEF Repeat, Recover, FailExclusive, Crash, vars, storage
<1> HIDE DEF Untouched
<1>9. Untouched
  BY <1>5, <1>6, <1>7, <1>8 DEF Next
<1> QED BY <1>2, <1>9 DEF Untouched

\* One finalizer at a time: the published journal only moves forward, under one owner
\* and with one receipt, or it is taken back before anything was done under it.
THEOREM JournalMovesForward == Solo /\ Spec => JournalOnlyAdvances
<1> SUFFICES ASSUME Solo PROVE Spec => JournalOnlyAdvances
  OBVIOUS
<1> DEFINE Forward ==
      LET before == disk["journal"]
          after  == disk'["journal"]
      IN before.state \in JournalStates =>
            \/ /\ after.state \in JournalStates
               /\ after.by = before.by /\ after.content = before.content
               /\ JournalRank[before.state] <= JournalRank[after.state]
            \/ /\ after = Absent
               /\ before.state = "preparing"
               /\ disk["claim"].state = "claimed"
               /\ disk["receipt"] = Absent /\ disk["bundle"] = Absent
               /\ \A k \in Kinds : staged[k] = Absent
<1>1. ASSUME TypeInv, SingleUse, Agreement, SoloInv, Ready, Pristine, [Next]_vars PROVE Forward
  <2> SUFFICES ASSUME disk["journal"].state \in JournalStates PROVE Forward
    OBVIOUS
  <2>1. JournalStays \/ JournalMoves \/ JournalForming
    BY <1>1, PromoteInTurn, OthersLeaveFiles DEF JournalStays
  <2>2. CASE JournalStays
    BY <2>2 DEF JournalStays, JournalStates, JournalRank
  <2>3. CASE JournalMoves
    BY <2>3 DEF JournalMoves, JournalStates, JournalRank
  <2>4. CASE JournalForming
    <3>1. PICK p \in Procs : pc[p] = "unlinkJournal" /\ disk'["journal"] = Absent
      BY <2>4 DEF JournalForming, JournalStates
    <3>2. disk["journal"].state = "preparing"
      BY <1>1, <3>1 DEF SoloInv, InOrder, JournalStates
    <3>3. disk["claim"].state = "claimed"
      BY <1>1, <3>1, <3>2 DEF Ready, ClaimReadable, Finalizing, SoloInv, WriteAhead
    <3>4. Unpublished
      BY <3>1 DEF Unpublished, Revocable
    <3>5. \A k \in Kinds : staged[k] = Absent /\ (k \in Staging => disk[k] = Absent)
      BY <1>1, <3>4 DEF Pristine
    <3>6. disk["receipt"] = Absent /\ disk["bundle"] = Absent
      BY <3>5 DEF Kinds, Staging
    <3> QED BY <3>1, <3>2, <3>3, <3>5, <3>6
  <2> QED BY <2>1, <2>2, <2>3, <2>4
<1>2. TypeInv /\ SingleUse /\ Agreement /\ SoloInv /\ Ready /\ Pristine /\ [Next]_vars => [Forward]_vars
  BY <1>1
<1>3. Init => Ready /\ Pristine
  BY DEF Init, Ready, Finalizing, Pristine
<1> QED BY <1>2, <1>3, ReadyStep, PristineStep, SoloAlways, PTL DEF Spec, JournalOnlyAdvances

-----------------------------------------------------------------------------
(***************************************************************************)
(* The refinement of SingleUseTicket.  The ticket is taken when the claim  *)
(* can no longer be given back: its child has confirmed it, or has died    *)
(* before it could remove it.  An invocation uses the operations of its    *)
(* batch, the promotion of the terminal claim consumes the ticket; every   *)
(* other step stutters.                                                    *)
(***************************************************************************)

\* A child has no answers before it holds the claim.
NoAnswers == [o \in Ops |-> "none"]

Unclaimed == {"idle", "evaluate", "claim"} \cup Confirming

Fresh == \A p \in Executors : pc[p] \in Unclaimed => results[p] = NoAnswers

\* No step gives answers to a child that has not claimed, or brings a child back.
LEMMA FreshStep == TypeInv /\ Fresh /\ [Next]_vars => Fresh'
<1> SUFFICES ASSUME TypeInv, Fresh, [Next]_vars, NEW q \in Executors,
                    pc'[q] \in Unclaimed
             PROVE  results'[q] = NoAnswers
  BY DEF Fresh, Unclaimed, Confirming
<1> USE DEF Unclaimed, Confirming
<1> DEFINE Before == pc[q] \in Unclaimed
<1>1. /\ pc \in [Procs -> Labels] /\ q \in Procs /\ q \notin Recoverers
      /\ results \in [Procs -> [Ops -> {"none", "succeeded", "failed"}]]
  BY ProcsAssumption DEF TypeInv, ControlType, DataType, Procs
<1>2. Before => results[q] = NoAnswers
  BY DEF Fresh
<1>3. \A p \in Procs : Halt(p) => Before
  BY <1>1 DEF Halt, Goto
<1>4. ASSUME NEW p \in Executors, Execute(p) PROVE Before /\ UNCHANGED results[q]
  <2>1. CASE DispatchBatch(p)
    <3>1. pc[p] = "dispatch" /\ (pc' = pc \/ Halt(p))
      BY <2>1, Zenon DEF DispatchBatch
    <3>2. Before /\ p # q
      <4>1. CASE pc' = pc
        BY <3>1, <4>1
      <4>2. CASE Halt(p)
        <5>1. p # q
          BY <1>1, <4>2 DEF Halt, Goto
        <5> QED BY <1>3, <4>2, <5>1 DEF Procs
      <4> QED BY <3>1, <4>1, <4>2
    <3>3. UNCHANGED results \/ \E row : results' = [results EXCEPT ![p] = row]
      BY <2>1, Zenon DEF DispatchBatch
    <3> QED BY <1>1, <3>2, <3>3
  <2>2. CASE ~ DispatchBatch(p)
    <3>1. UNCHANGED results
      BY <1>4, <2>2 DEF Execute, Load, Evaluate, OpenClaim, WriteClaim, ConfirmClaim, Conclude,
                        executing
    <3>2. Before
      BY <1>1, <1>3, <1>4, <2>2
         DEF Execute, Load, Evaluate, OpenClaim, WriteClaim, ConfirmClaim, Conclude, Enter, Goto,
             Procs
    <3> QED BY <3>1, <3>2
  <2> QED BY <2>1, <2>2
<1>5. ASSUME NEW p \in Procs, Finalize(p) PROVE Before /\ UNCHANGED results[q]
  <2>1. UNCHANGED results
    BY <1>5 DEF Finalize, Acquire, WriteJournal, ConfirmJournal, Open, Fill, Promote, CasGuard,
                Verify, executing
  <2>2. Before
    BY <1>1, <1>3, <1>5 DEF Finalize, Acquire, WriteJournal, ConfirmJournal, Open, Fill, Promote,
                            CasGuard, Verify, Goto
  <2> QED BY <2>1, <2>2
<1>6. ASSUME NEW p \in Procs, FailExclusive(p) \/ Unlink(p) \/ Crash(p)
      PROVE  Before /\ UNCHANGED results[q]
  <2>1. UNCHANGED results
    BY <1>6 DEF FailExclusive, Unlink, Crash, executing
  <2>2. CASE FailExclusive(p)
    BY <1>1, <1>3, <2>1, <2>2 DEF FailExclusive, Goto
  <2>3. CASE Unlink(p)
    BY <1>1, <2>1, <2>3 DEF Unlink, Goto
  <2>4. CASE Crash(p)
    BY <1>1, <1>3, <2>1, <2>4 DEF Crash
  <2> QED BY <1>6, <2>2, <2>3, <2>4
<1>7. ASSUME NEW p \in Procs, NEW what, NEW who, Enter(p, what, who), UNCHANGED executing
      PROVE  Before /\ UNCHANGED results[q]
  BY <1>1, <1>7 DEF Enter, Goto, executing
<1>8. ASSUME UNCHANGED vars PROVE Before /\ UNCHANGED results[q]
  BY <1>8 DEF vars, executing
<1> HIDE DEF Before
<1>9. Before /\ UNCHANGED results[q]
  <2>1. CASE \E p \in Executors : Execute(p)
    BY <1>4, <2>1
  <2>2. CASE \E p \in Repeaters : Repeat(p)
    BY <1>7, <2>2 DEF Repeat, Procs
  <2>3. CASE \E p \in Recoverers, what \in Content : Recover(p, what)
    BY <1>7, <2>3 DEF Recover, Procs
  <2>4. CASE \E p \in Procs : Finalize(p)
    BY <1>5, <2>4
  <2>5. CASE \E p \in Procs : FailExclusive(p) \/ Unlink(p) \/ Crash(p)
    BY <1>6, <2>5
  <2> QED BY <1>8, <2>1, <2>2, <2>3, <2>4, <2>5 DEF Next
<1> QED BY <1>2, <1>9

\* A step that leaves the invocations, the answers, the holder and the outcome alone is
\* no step of the ticket.
LEMMA TicketStays ==
    ASSUME UNCHANGED <<invoked, results>>, Holder' = Holder,
           \/ ClaimStays
           \/ disk["claim"].state \notin Terminal /\ disk'["claim"].state \notin Terminal
    PROVE  UNCHANGED Ticket!vars
<1>1. (IF disk["claim"].state \in Terminal THEN disk["claim"].state ELSE "open")'
        = IF disk["claim"].state \in Terminal THEN disk["claim"].state ELSE "open"
  BY DEF ClaimStays, Terminal
<1>2. (IF Holder = None THEN [o \in Ops |-> "none"] ELSE results[Holder])'
        = IF Holder = None THEN [o \in Ops |-> "none"] ELSE results[Holder]
  OBVIOUS
<1> QED BY <1>1, <1>2 DEF Ticket!vars

\* The claim that p wrote can be seen, and p can still take it back.
Hidden(p) == pc[p] \in {"syncClaim", "unlinkClaim"}

\* Who holds the ticket, now and after a step, when the claim is that of p.
LEMMA HolderOf ==
    ASSUME NEW p \in Executors, NEW f \in {Absent, Torn, Claimed(p)}
    PROVE  /\ disk["claim"] = f =>
                Holder = IF f = Claimed(p) /\ ~ Hidden(p) THEN p ELSE None
           /\ disk'["claim"] = f =>
                Holder' = IF f = Claimed(p) /\ ~ Hidden(p)' THEN p ELSE None
<1>1. /\ Absent.state = "absent" /\ Torn.state = "torn"
      /\ Claimed(p).state = "claimed" /\ Claimed(p).by = p
  BY DEF Absent, Torn, Claimed, Blank
<1>2. CASE f = Claimed(p)
  BY <1>1, <1>2 DEF Holder, ClaimReadable, Hidden
<1>3. CASE f # Claimed(p)
  <2>1. f.state \notin {"claimed"} \cup Terminal
    BY <1>1, <1>3 DEF Terminal
  <2> QED BY <1>3, <2>1 DEF Holder, ClaimReadable
<1> QED BY <1>2, <1>3

\* A child that has opened the claim and not confirmed it makes a step: it holds the
\* ticket afterwards if it has left a complete claim behind, or confirmed it.
LEMMA ConfirmingStep ==
    ASSUME TypeInv, SingleUse, Fresh, NEW p \in Procs, pc[p] \in Confirming, Moves(p)
    PROVE  UNCHANGED Ticket!vars \/ (p \in Executors /\ Ticket!Take(p))
<1>1. /\ p \in Executors /\ p \in Procs /\ p # None
      /\ results[p] = NoAnswers
  BY ProcsAssumption DEF SingleUse, Unexpired, Claiming, Procs, Fresh, Unclaimed
<1>2. /\ pc \in [Procs -> Labels] /\ disk \in [Kinds -> File] /\ "claim" \in Kinds
  BY DEF TypeInv, ControlType, DataType, Kinds
<1>3. \/ WriteClaim(p) \/ ConfirmClaim(p)
      \/ FailExclusive(p) \/ Unlink(p) \/ Crash(p)
  BY DEF Moves, Confirming, Execute, Load, Evaluate, OpenClaim, DispatchBatch, Conclude, Repeat,
         Recover, Finalize, Acquire, WriteJournal, ConfirmJournal, Open, Fill, Promote, CasGuard,
         Verify
<1>4. UNCHANGED <<invoked, results>>
  BY <1>3 DEF WriteClaim, ConfirmClaim, FailExclusive, Unlink, Crash, executing
<1>5. Torn # Claimed(p)
  BY DEF Torn, Claimed, Blank
<1>6. disk["claim"] \in {Torn, Claimed(p)} /\ (Hidden(p) \/ disk["claim"] = Torn)
  BY DEF SingleUse, ClaimHeld, Confirming, Hidden
<1>7. Holder = None
  BY <1>1, <1>5, <1>6, HolderOf
<1>8. Absent.state \notin Terminal /\ Torn.state \notin Terminal /\ Claimed(p).state \notin Terminal
  BY DEF Absent, Torn, Claimed, Blank, Terminal
<1>9. disk'["claim"] \in {Absent, Torn, Claimed(p)} /\ (disk' = disk \/ WriteClaim(p) \/ Unlink(p))
  <2>1. CASE WriteClaim(p)
    BY <1>2, <2>1 DEF WriteClaim
  <2>2. CASE Unlink(p)
    BY <1>2, <2>2 DEF Unlink, Confirming
  <2>3. CASE ConfirmClaim(p) \/ FailExclusive(p) \/ Crash(p)
    BY <1>6, <2>3 DEF ConfirmClaim, FailExclusive, Crash, storage
  <2> QED BY <1>3, <2>1, <2>2, <2>3
<1>10. Holder' = None \/ Holder' = p
  BY <1>1, <1>9, HolderOf
<1>11. CASE Holder' = None
  BY <1>4, <1>6, <1>7, <1>8, <1>9, <1>11, TicketStays
<1>12. CASE Holder' = p
  <2>1. disk["claim"].state \notin Terminal /\ disk'["claim"].state \notin Terminal
    BY <1>6, <1>8, <1>9
  <2> QED BY <1>1, <1>4, <1>7, <1>12, <2>1 DEF Ticket!Take, NoAnswers
<1> QED BY <1>10, <1>11, <1>12

\* An invocation uses the operations of a batch for the first time; a batch that ends
\* without one is no step of the ticket.
LEMMA DispatchUses ==
    ASSUME TypeInv, SingleUse, NEW p \in Executors, DispatchBatch(p)
    PROVE  (\E ops \in SUBSET Ops : Ticket!Use(ops)) \/ UNCHANGED Ticket!vars
<1> DEFINE ops == Batches[batch[p]]
<1>1. /\ p \in Procs /\ p # None
      /\ ops \in SUBSET Ops
      /\ batch[p] \in 1 .. Len(Batches) /\ Len(Batches) \in Nat
  BY ProcsAssumption, BatchesAssumption DEF Procs, DispatchBatch
<1>2. /\ disk["claim"] = Claimed(p) /\ UNCHANGED <<disk, stamp>>
      /\ pc[p] = "dispatch" /\ pc'[p] \in {"dispatch", "stopped", "idle"}
  <2>1. pc' = pc \/ Halt(p)
    BY Zenon DEF DispatchBatch
  <2>2. pc[p] = "dispatch" /\ UNCHANGED <<disk, stamp>>
    BY DEF DispatchBatch, storage
  <2>3. pc'[p] \in {"dispatch", "stopped", "idle"}
    BY <1>1, <2>1, <2>2 DEF Halt, Goto, TypeInv, ControlType
  <2> QED BY <2>2, <2>3, DispatchSingleUse
<1>3. Claimed(p).state = "claimed" /\ Claimed(p).by = p
  BY DEF Claimed, Blank
<1>4. /\ Holder = p /\ Holder' = p
      /\ disk["claim"].state \notin Terminal /\ disk'["claim"].state \notin Terminal
  BY <1>2, <1>3 DEF Holder, ClaimReadable, Terminal
<1>5. \A o \in ops : invoked[o] = 0
  BY <1>1 DEF DispatchBatch, SingleUse, Unused
<1>6. results \in [Procs -> [Ops -> {"none", "succeeded", "failed"}]]
  BY DEF TypeInv, DataType
<1> HIDE DEF ops
<1>7. CASE UNCHANGED <<invoked, results>>
  BY <1>4, <1>7, TicketStays
<1>8. CASE /\ invoked' = [o \in Ops |-> IF o \in ops THEN invoked[o] + 1 ELSE invoked[o]]
           /\ \/ \E answer \in [ops -> {"succeeded", "failed"}] :
                    results' = [results EXCEPT ![p] =
                       [o \in Ops |-> IF o \in ops THEN answer[o] ELSE results[p][o]]]
              \/ UNCHANGED results
  <2>1. invoked' = [o \in Ops |-> IF o \in ops THEN 1 ELSE invoked[o]]
    BY <1>5, <1>8
  <2>2. \/ \E answer \in [ops -> {"succeeded", "failed"}] :
              results'[p] = [o \in Ops |-> IF o \in ops THEN answer[o] ELSE results[p][o]]
        \/ results'[p] = results[p]
    BY <1>1, <1>6, <1>8
  <2>3. Ticket!Use(ops)
    BY <1>1, <1>4, <1>5, <2>1, <2>2 DEF Ticket!Use
  <2> QED BY <1>1, <2>3
<1>9. \/ UNCHANGED <<invoked, results>>
      \/ /\ invoked' = [o \in Ops |-> IF o \in ops THEN invoked[o] + 1 ELSE invoked[o]]
         /\ \/ \E answer \in [ops -> {"succeeded", "failed"}] :
                  results' = [results EXCEPT ![p] =
                     [o \in Ops |-> IF o \in ops THEN answer[o] ELSE results[p][o]]]
            \/ UNCHANGED results
  BY Zenon DEF DispatchBatch, ops
<1> QED BY <1>7, <1>8, <1>9

\* Replacing the claimed claim by the terminal one consumes the ticket.
LEMMA PromoteConsumes ==
    ASSUME TypeInv, SingleUse, Agreement, SoloInv, NEW p \in Procs, Promote(p),
           file[p] = "claim", disk["claim"].state = "claimed",
           disk'["claim"] = staged["claim"], Settled(staged["claim"]),
           UNCHANGED <<invoked, results>>
    PROVE  Ticket!Consume
<1>1. PICK x \in Content \cup {None}, h \in Executors \cup {None} : Agree(x, h)
  BY DEF Agreement
<1>2. /\ Absent.state = "absent" /\ Torn.state = "torn"
      /\ Claimed(h).state = "claimed" /\ Claimed(h).by = h
  BY DEF Absent, Torn, Claimed, Blank
<1>3. h \in Executors /\ h # None
  BY <1>1, ProcsAssumption DEF Agree, Holds, Procs
<1>4. disk["claim"].by = h
  BY <1>1, <1>2 DEF Agree, FilesFit, Fits, Settled, Kinds
<1>5. staged["claim"].by = h /\ staged["claim"].state = STATUS_TO_CLAIM_STATE[x.status]
  BY <1>1, <1>2 DEF Agree, FilesFit, Fits, Settled, Kinds
<1>6. disk["journal"] # Absent /\ Accounted
  BY <1>2 DEF SoloInv, InOrder, Promote, Writing, Agreement
<1> DEFINE succeeded == {o \in Ops : results[h][o] = "succeeded"}
           state == STATUS_TO_CLAIM_STATE[x.status]
<1>7. /\ \A o \in Ops : results[h][o] # "none"
      /\ (state = "consumed_success") <=> (succeeded = Ops)
      /\ (state = "consumed_failed") <=> (succeeded = {})
      /\ state \in Terminal
  BY <1>1, <1>3, <1>6, ReceiptIsHonest
<1>11. ~ Hidden(h) /\ ~ Hidden(h)'
  <2>1. pc[p] \in Finalizing
    BY DEF Promote, Finalizing
  <2>2. \A q \in Procs : pc[q] \notin Confirming
    BY <2>1 DEF SingleUse, FinalizedLater, Early
  <2>3. \A q \in Procs : pc'[q] = pc[q] \/ pc'[q] \in Finalizing \cup {"idle", "stopped"}
    BY DEF Promote, Halt, Goto, Finalizing, TypeInv, ControlType
  <2>4. h \in Procs
    BY <1>3 DEF Procs
  <2> QED BY <2>2, <2>3, <2>4 DEF Hidden, Confirming, Finalizing
<1>8. /\ Holder = h /\ Holder' = h
      /\ disk["claim"].state \notin Terminal
      /\ disk'["claim"].state = state
  BY <1>4, <1>5, <1>7, <1>11 DEF Holder, ClaimReadable, Terminal, Hidden
<1>9. state = CASE succeeded = Ops -> "consumed_success"
                [] succeeded \notin {{}, Ops} -> "consumed_partial"
                [] OTHER -> "consumed_failed"
  BY <1>7, OpsAssumption DEF Terminal
<1>10. Ticket!Answered("none") = {} /\ Ticket!Answered("succeeded") = succeeded
  BY <1>3, <1>7, <1>8 DEF Ticket!Answered
<1> HIDE DEF succeeded, state
<1> QED BY <1>3, <1>7, <1>8, <1>9, <1>10 DEF Ticket!Consume

\* The steps of the others leave the holder alone: nobody enters the confirmation of
\* a claim that can be read.
LEMMA HolderStays ==
    ASSUME TypeInv, SingleUse, Agreement, NEW p \in Procs, pc[p] \notin Confirming, Moves(p),
           ClaimStays
    PROVE  Holder' = Holder
<1>1. pc \in [Procs -> Labels] /\ "claim" \in Kinds /\ disk \in [Kinds -> File]
  BY DEF TypeInv, ControlType, DataType, Kinds
<1>2. \A q \in Procs \ {p} : pc'[q] = pc[q]
  BY MoveFacts
<1>3. Halt(p) => pc'[p] \notin Confirming
  BY <1>1 DEF Halt, Goto, Confirming
<1>4. \A label : Goto(p, label) => pc'[p] = label
  BY <1>1 DEF Goto
<1>5. ~ Hidden(p) /\ ~ Hidden(p)'
  <2>1. CASE DispatchBatch(p)
    <3>1. pc' = pc \/ Halt(p)
      BY <2>1, Zenon DEF DispatchBatch
    <3> QED BY <1>3, <3>1 DEF Hidden, Confirming
  <2>2. CASE p \in Executors /\ Execute(p) /\ ~ DispatchBatch(p)
    BY <1>3, <1>4, <2>2 DEF Execute, Load, Evaluate, OpenClaim, WriteClaim, ConfirmClaim, Conclude,
                            Enter, Hidden, Confirming
  <2>3. CASE Repeat(p) \/ \E what \in Content : Recover(p, what)
    BY <1>4, <2>3 DEF Repeat, Recover, Enter, Hidden, Confirming
  <2>4. CASE Finalize(p)
    BY <1>3, <1>4, <2>4 DEF Finalize, Acquire, WriteJournal, ConfirmJournal, Open, Fill, Promote,
                            CasGuard, Verify, Hidden, Confirming
  <2>5. CASE FailExclusive(p) \/ Crash(p)
    BY <1>3, <1>4, <2>5 DEF FailExclusive, Crash, Hidden, Confirming
  <2>6. CASE Unlink(p)
    BY <1>4, <2>6 DEF Unlink, Hidden, Confirming
  <2> QED BY <2>1, <2>2, <2>3, <2>4, <2>5, <2>6 DEF Moves
<1>6. disk'["claim"] = disk["claim"] /\ (ClaimReadable' <=> ClaimReadable)
  BY DEF ClaimStays, ClaimReadable
<1>7. ClaimReadable => disk["claim"].by \in Procs
  <2>1. PICK x \in Content \cup {None}, h \in Executors \cup {None} : Agree(x, h)
    BY DEF Agreement
  <2>2. ASSUME ClaimReadable PROVE h \in Executors /\ disk["claim"].by = h
    <3>1. Absent.state = "absent" /\ Torn.state = "torn" /\ Claimed(h).by = h
      BY DEF Absent, Torn, Claimed, Blank
    <3>2. disk["claim"].state \notin {"absent", "torn"}
      BY <2>2 DEF ClaimReadable, Terminal
    <3>3. h \in Executors
      BY <2>1, <3>2 DEF Agree, Holds
    <3>4. disk["claim"].by = h
      BY <1>1, <2>1, <3>1, <3>2 DEF Agree, FilesFit, Fits
    <3> QED BY <3>3, <3>4
  <2> QED BY <2>2 DEF Procs
<1>8. ClaimReadable => (pc'[disk["claim"].by] \in {"syncClaim", "unlinkClaim"}
                          <=> pc[disk["claim"].by] \in {"syncClaim", "unlinkClaim"})
  BY <1>2, <1>5, <1>7 DEF Hidden
<1> QED BY <1>6, <1>8 DEF Holder

\* The remaining steps stutter.
LEMMA OthersKeepTicket ==
    ASSUME TypeInv, SingleUse, Agreement, SoloInv, [Next]_vars,
           ~ \E p \in Procs : Promote(p),
           ~ \E p \in Executors : DispatchBatch(p),
           NEW p \in Procs, pc[p] \notin Confirming, Moves(p)
    PROVE  UNCHANGED Ticket!vars
<1>1. UNCHANGED <<invoked, results>>
  BY DEF Moves, Execute, Load, Evaluate, OpenClaim, WriteClaim, ConfirmClaim, Conclude, Finalize,
         Acquire, WriteJournal, ConfirmJournal, Open, Fill, CasGuard, Verify, Repeat, Recover,
         FailExclusive, Unlink, Crash, executing
<1>2. CASE ClaimStays
  BY <1>1, <1>2, HolderStays, TicketStays
<1>3. CASE ~ ClaimStays
  <2>1. OpenClaim(p) /\ p \in Executors
    BY <1>3 DEF ClaimStays, Moves, Execute, Load, Evaluate, WriteClaim, ConfirmClaim, Conclude,
       Finalize, Acquire, WriteJournal, ConfirmJournal, Open, Fill, CasGuard, Verify, Repeat,
       Recover, FailExclusive, Unlink, Crash, storage, Confirming, TypeInv, DataType, Kinds,
       SoloInv, OneFinalizer, OpenAt, Creating
  <2>2. disk["claim"] = Absent /\ disk'["claim"] = Torn
    BY <1>3, <2>1 DEF OpenClaim, ClaimStays, TypeInv, DataType, Kinds
  <2>3. Holder = None /\ Holder' = None
    <3>1. Absent # Claimed(p) /\ Torn # Claimed(p)
      BY DEF Absent, Torn, Claimed, Blank
    <3> QED BY <2>1, <2>2, <3>1, HolderOf
  <2>4. disk["claim"].state \notin Terminal /\ disk'["claim"].state \notin Terminal
    BY <2>2 DEF Absent, Torn, Blank, Terminal
  <2> QED BY <1>1, <2>3, <2>4, TicketStays
<1> QED BY <1>2, <1>3

\* One finalizer at a time: the directory implements the ticket, for every number of
\* children, recoveries and crashes.
THEOREM DirectoryImplementsTicket == Solo /\ Spec => ImplementsTicket
<1> SUFFICES ASSUME Solo PROVE Spec => ImplementsTicket
  OBVIOUS
<1>1. Init => Ticket!Init /\ Fresh
  <2> SUFFICES ASSUME Init PROVE Ticket!Init /\ Fresh
    OBVIOUS
  <2>1. disk["claim"].state = "absent"
    BY DEF Init, Kinds, Absent, Blank
  <2> QED BY <2>1 DEF Init, Ticket!Init, Fresh, NoAnswers, Procs, Holder, ClaimReadable, Terminal
<1>2. ASSUME TypeInv, SingleUse, Agreement, SoloInv, Fresh, [Next]_vars
      PROVE  [Ticket!Next]_(Ticket!vars)
  <2>1. CASE UNCHANGED vars
    <3>1. UNCHANGED <<invoked, results>> /\ ClaimStays /\ Holder' = Holder
      BY <2>1 DEF vars, storage, executing, ClaimStays, Holder, ClaimReadable
    <3> QED BY <3>1, TicketStays
  <2>2. CASE \E p \in Executors : DispatchBatch(p)
    BY <1>2, <2>2, DispatchUses DEF Ticket!Next
  <2>3. CASE \E p \in Procs : Promote(p)
    <3>1. PICK p \in Procs : Promote(p)
      BY <2>3
    <3>2. CASE ClaimStays
      <4>1. pc[p] \notin Confirming /\ Moves(p) /\ UNCHANGED <<invoked, results>>
        BY <3>1 DEF Promote, Confirming, Moves, Finalize, executing
      <4> QED BY <1>2, <3>2, <4>1, HolderStays, TicketStays
    <3>3. CASE ~ ClaimStays
      BY <1>2, <3>1, <3>3, PromoteInTurn, PromoteConsumes DEF Ticket!Next
    <3> QED BY <3>2, <3>3
  <2>4. CASE /\ ~ \E p \in Procs : Promote(p)
             /\ ~ \E p \in Executors : DispatchBatch(p)
             /\ ~ UNCHANGED vars
    <3>1. PICK p \in Procs : Moves(p)
      BY <1>2, <2>4, NextMoves
    <3>2. CASE pc[p] \in Confirming
      BY <1>2, <3>1, <3>2, ConfirmingStep DEF Ticket!Next
    <3>3. CASE pc[p] \notin Confirming
      BY <1>2, <2>4, <3>1, <3>3, OthersKeepTicket
    <3> QED BY <3>2, <3>3
  <2> QED BY <2>1, <2>2, <2>3, <2>4
<1> QED BY <1>1, <1>2, SoloAlways, FreshStep, PTL DEF Spec, ImplementsTicket, Ticket!Spec
=============================================================================
