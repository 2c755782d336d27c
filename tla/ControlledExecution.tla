------------------------- MODULE ControlledExecution -------------------------
(***************************************************************************)
(* One execution ticket (an authorization directory) from the start of an  *)
(* execute-once child to the verified terminal claim: the exclusive claim, *)
(* the dispatch of the approved operations, and the finalization           *)
(* transaction (journal, receipt, bundle, terminal claim) with its         *)
(* recovery.  Sources: scripts/m8r_06_03_execute_once.py and               *)
(* scripts/m8r_05b_03/{controlled_dispatch, consumption_claim, dispatch,   *)
(* evidence_aggregation, orchestrator, receipt}.py.                        *)
(*                                                                         *)
(* The directory is shared by every process; everything else is the local  *)
(* memory of a process and is lost when the process stops.  Path.write_text*)
(* truncates before it writes, so a file can be seen, promoted or left     *)
(* behind torn; Path.replace is atomic and carries the inode of a writer   *)
(* that still has the file open.                                           *)
(***************************************************************************)
EXTENDS Naturals, Sequences, FiniteSets

CONSTANTS
    Executors,      \* execute-once child processes started for this ticket
    Repeaters,      \* callers of finalize_consumption_and_write_receipt with a fresh owner
    Recoverers,     \* callers of recover_controlled_finalization
    Ops,            \* the approved operations
    Batches,        \* the dispatch order: a sequence of batches of operations
    Times,          \* readings of the wall clock, which may move either way
    ExpiresAt,      \* expires_at of the authorization
    SoloRecovery,   \* TRUE: recovery is started only when no other finalizer lives
    MaxCrashes,     \* bound: processes killed (parent timeout) or failing on I/O
    None            \* JSON null

Procs == Executors \cup Repeaters \cup Recoverers

ASSUME ProcsAssumption ==
    /\ Executors \cap (Repeaters \cup Recoverers) = {}
    /\ Repeaters \cap Recoverers = {}
    /\ None \notin Procs
ASSUME TimesAssumption == Times \subseteq Nat /\ ExpiresAt \in Nat /\ None \notin Nat
ASSUME BoundAssumption == MaxCrashes \in Nat /\ SoloRecovery \in BOOLEAN
\* Every approved operation is in exactly one batch group.
ASSUME BatchesAssumption ==
    /\ Batches \in Seq(SUBSET Ops)
    /\ \A o \in Ops : \E i \in 1 .. Len(Batches) : o \in Batches[i]
    /\ \A i, j \in 1 .. Len(Batches) : i # j => Batches[i] \cap Batches[j] = {}
\* An empty dispatch is refused by the aggregation (evidence_aggregation.py:17-18).
ASSUME OpsAssumption == Ops # {}

VARIABLES
    \* The authorization directory.
    disk,       \* the published file of each kind
    staged,     \* the temporary file of each kind, named after the journal's owner:
                \* one file, as long as there is one owner (see Orderly)
    \* What was done to the outside world.
    invoked,    \* how often the adapter of each operation was invoked
    crashes,    \* crashes so far
    \* The memory of each process.
    pc,         \* where the process is
    file,       \* the kind of file the process is writing or promoting
    fd,         \* where the inode is that the process has open for writing
    stamp,      \* the child's `now`: evaluation_timestamp and claim_created_at
    batch,      \* the next batch to dispatch
    results,    \* outcome of each operation
    extra,      \* TRUE when an operation was given two outcomes
    content,    \* the receipt the process finalizes with
    owner,      \* current_owner_id
    journal,    \* journal["state"] in memory
    seen        \* current_disk_claim as the terminal CAS guard read it

storage == <<disk, staged>>
executing == <<invoked, stamp, batch, results, extra>>
finalizing == <<file, fd, content, owner, journal, seen>>
vars == <<storage, executing, finalizing, pc, crashes>>

-----------------------------------------------------------------------------
(* Files *)

Kinds == {"claim", "journal", "receipt", "bundle"}

Statuses == {"succeeded", "partial_success", "failed"}

STATUS_TO_CLAIM_STATE ==
    [succeeded       |-> "consumed_success",
     partial_success |-> "consumed_partial",
     failed          |-> "consumed_failed"]

Terminal == {"consumed_success", "consumed_partial", "consumed_failed"}
JournalStates == {"preparing", "artifacts_committed", "claim_committed"}
FileStates == {"absent", "torn", "written", "claimed"} \cup Terminal \cup JournalStates

\* What receipt and bundle hashes are derived from: the aggregation and finalized_at.
Content == [status : Statuses, at : Times]

\* A claim carries its claimant, claim_created_at and, once terminal, the receipt;
\* a journal carries its owner and the receipt and bundle of its transaction.
File == [state   : FileStates,
         by      : Procs \cup {None},
         stamp   : Times \cup {None},
         content : Content \cup {None}]

Blank(state) == [state |-> state, by |-> None, stamp |-> None, content |-> None]
Absent == Blank("absent")
Torn == Blank("torn")        \* opened for writing and not written yet

Claimed(p) == [Blank("claimed") EXCEPT !.by = p, !.stamp = stamp[p]]

\* The claim file parses and passes _read_and_validate_disk_claim.
ClaimReadable == disk["claim"].state \in {"claimed"} \cup Terminal

-----------------------------------------------------------------------------
Init ==
    /\ disk = [k \in Kinds |-> Absent]
    /\ staged = [k \in Kinds |-> Absent]
    /\ invoked = [o \in Ops |-> 0]
    /\ crashes = 0
    /\ pc = [p \in Procs |-> "idle"]
    /\ file = [p \in Procs |-> "receipt"]
    /\ fd = [p \in Procs |-> "none"]
    /\ stamp = [p \in Procs |-> None]
    /\ batch = [p \in Procs |-> 1]
    /\ results = [p \in Procs |-> [o \in Ops |-> "none"]]
    /\ extra = [p \in Procs |-> FALSE]
    /\ content = [p \in Procs |-> None]
    /\ owner = [p \in Procs |-> None]
    /\ journal = [p \in Procs |-> "preparing"]
    /\ seen = [p \in Procs |-> Absent]

Goto(p, label) == pc' = [pc EXCEPT ![p] = label]

\* The process raises or is killed.  Its open file is closed; a recovery may be
\* attempted again, an execute-once child is never restarted.
Halt(p) ==
    /\ Goto(p, IF p \in Recoverers THEN "idle" ELSE "stopped")
    /\ fd' = [fd EXCEPT ![p] = "none"]
    /\ UNCHANGED <<file, content, owner, journal, seen>>

-----------------------------------------------------------------------------
(* execute_once: load, evaluate, claim *)

\* load_control_package refuses when the claim file exists, whatever it holds.
Load(p) ==
    /\ pc[p] = "idle"
    /\ \/ /\ disk["claim"] = Absent
          /\ Goto(p, "evaluate")
          /\ UNCHANGED finalizing
       \/ /\ disk["claim"] # Absent
          /\ Halt(p)
    /\ UNCHANGED <<storage, executing, crashes>>

\* Mutant: the expiry comparison is off by one.
EvaluateAtExpiry(p) ==
    /\ pc[p] = "evaluate"
    /\ \E now \in Times :
        /\ now <= ExpiresAt
        /\ stamp' = [stamp EXCEPT ![p] = now]
    /\ Goto(p, "claim")
    /\ UNCHANGED <<storage, invoked, batch, results, extra, finalizing, crashes>>

\* claim_and_dispatch_approved before the claim: the preflight is rebuilt at the
\* child's `now`, which must lie before expires_at; drift, an unprepared dispatch
\* or a missing confirmation refuse as well.
Evaluate(p) ==
    /\ pc[p] = "evaluate"
    /\ \/ \E now \in Times :
            /\ now < ExpiresAt
            /\ stamp' = [stamp EXCEPT ![p] = now]
            /\ Goto(p, "claim")
            /\ UNCHANGED finalizing
       \/ /\ Halt(p)
          /\ UNCHANGED stamp
    /\ UNCHANGED <<storage, invoked, batch, results, extra, crashes>>

\* Mutant: the claim is opened without O_EXCL.
OpenClaimShared(p) ==
    /\ pc[p] = "claim"
    /\ disk' = [disk EXCEPT !["claim"] = Torn]
    /\ Goto(p, "writeClaim")
    /\ UNCHANGED <<staged, executing, finalizing, crashes>>

\* atomic_claim_authorization: O_CREAT | O_EXCL decides the single claimant.
OpenClaim(p) ==
    /\ pc[p] = "claim"
    /\ \/ /\ disk["claim"] = Absent
          /\ disk' = [disk EXCEPT !["claim"] = Torn]
          /\ Goto(p, "writeClaim")
          /\ UNCHANGED finalizing
       \/ /\ disk["claim"] # Absent
          /\ Halt(p)
          /\ UNCHANGED disk
    /\ UNCHANGED <<staged, executing, crashes>>

\* Write and flush: everybody can read the record, the child does not own it yet.
WriteClaim(p) ==
    /\ pc[p] = "writeClaim"
    /\ disk' = [disk EXCEPT !["claim"] = Claimed(p)]
    /\ Goto(p, "syncClaim")
    /\ UNCHANGED <<staged, executing, finalizing, crashes>>

\* fsync, and the path still names the inode that was created.
ConfirmClaim(p) ==
    /\ pc[p] = "syncClaim"
    /\ Goto(p, "dispatch")
    /\ UNCHANGED <<storage, executing, finalizing, crashes>>

\* Writing, syncing or checking an exclusively created file fails.  The file is to
\* be removed if the path still names the created inode, else the caller raises.
\* No claim is put in the place of one that was not confirmed.
FailExclusive(p) ==
    /\ crashes < MaxCrashes
    /\ crashes' = crashes + 1
    /\ \/ /\ pc[p] \in {"writeClaim", "syncClaim"}
          /\ Goto(p, "unlinkClaim")
          /\ UNCHANGED finalizing
       \/ /\ pc[p] \in {"writeJournal", "syncJournal"}
          /\ fd[p] = "final"
          /\ Goto(p, "unlinkJournal")
          /\ UNCHANGED finalizing
       \/ /\ pc[p] \in {"writeJournal", "syncJournal"}
          /\ fd[p] # "final"
          /\ Halt(p)
    /\ UNCHANGED <<storage, executing>>

\* What the path names by now is removed, and the caller raises.  A writer that has
\* the inode open goes on writing to a file without a name.
Unlink(p) ==
    /\ \E kind \in {"claim", "journal"} :
        /\ pc[p] = IF kind = "claim" THEN "unlinkClaim" ELSE "unlinkJournal"
        /\ disk' = [disk EXCEPT ![kind] = Absent]
        /\ fd' = [q \in Procs |->
              CASE q = p -> "none"
                [] q # p /\ file[q] = kind /\ fd[q] = "final" -> "gone"
                [] OTHER -> fd[q]]
    /\ Goto(p, IF p \in Recoverers THEN "idle" ELSE "stopped")
    /\ UNCHANGED <<staged, executing, file, content, owner, journal, seen, crashes>>

-----------------------------------------------------------------------------
(* dispatch_prepared and aggregate_dispatch_outcomes *)

\* One batch: its adapter is invoked once for the items of the batch.  The results
\* validate; or the adapter times out or raises and every item is failed, a second
\* time for the items already validated; or an OrchestrationError ends the child,
\* before the invocation (binding, dependency) or after it (result validation).
DispatchBatch(p) ==
    /\ pc[p] = "dispatch"
    /\ batch[p] \in 1 .. Len(Batches)
    /\ LET ops == Batches[batch[p]] IN
        \/ /\ invoked' = [o \in Ops |-> IF o \in ops THEN invoked[o] + 1 ELSE invoked[o]]
           /\ \/ \E answer \in [ops -> {"succeeded", "failed"}], twice \in BOOLEAN :
                   /\ twice => /\ Cardinality(ops) > 1
                               /\ answer = [o \in ops |-> "failed"]
                   /\ results' = [results EXCEPT ![p] =
                         [o \in Ops |-> IF o \in ops THEN answer[o] ELSE results[p][o]]]
                   /\ extra' = [extra EXCEPT ![p] = @ \/ twice]
                   /\ batch' = [batch EXCEPT ![p] = @ + 1]
                   /\ UNCHANGED <<pc, finalizing>>
              \/ /\ Halt(p)
                 /\ UNCHANGED <<results, extra, batch>>
        \/ /\ Halt(p)
           /\ UNCHANGED <<invoked, results, extra, batch>>
    /\ UNCHANGED <<storage, stamp, crashes>>

\* Mutants: any success counts as success; a status the claim states do not know.
OptimisticStatus(p) ==
    IF \E o \in Ops : results[p][o] = "succeeded" THEN "succeeded" ELSE "failed"

UnmappedStatus(p) ==
    IF \A o \in Ops : results[p][o] = "succeeded" THEN "succeeded" ELSE "cancelled"

OverallStatus(p) ==
    LET succeeded == {o \in Ops : results[p][o] = "succeeded"} IN
    CASE succeeded = Ops -> "succeeded"
      [] succeeded # Ops /\ succeeded # {} -> "partial_success"
      [] OTHER -> "failed"

\* _read_and_validate_disk_claim and the receipt: finalized_at must not precede
\* claim_created_at.  The process then finalizes `what` as owner `who`.
Enter(p, what, who) ==
    /\ ClaimReadable
    /\ what.at >= disk["claim"].stamp
    /\ content' = [content EXCEPT ![p] = what]
    /\ owner' = [owner EXCEPT ![p] = who]
    /\ journal' = [journal EXCEPT ![p] = "preparing"]
    /\ Goto(p, "acquire")
    /\ UNCHANGED <<file, fd, seen>>

\* The claimant aggregates the outcomes, samples finalized_at and enters the
\* transaction with a fresh owner; an operation with two outcomes, an unreadable
\* claim or a clock that went back ends the child.
Conclude(p) ==
    /\ pc[p] = "dispatch"
    /\ batch[p] > Len(Batches)
    /\ \/ \E now \in Times :
            /\ ~ extra[p]
            /\ Enter(p, [status |-> OverallStatus(p), at |-> now], p)
       \/ /\ \/ extra[p]
             \/ ~ (ClaimReadable /\ \A now \in Times : now >= disk["claim"].stamp)
          /\ Halt(p)
    /\ UNCHANGED <<storage, executing, crashes>>

-----------------------------------------------------------------------------
(* finalize_consumption_and_write_receipt and recover_controlled_finalization *)

\* A further caller of the finalization with a fresh owner.  It holds the aggregation
\* of the claimant's completed dispatch and its own finalized_at.
Repeat(p) ==
    /\ pc[p] = "idle"
    /\ \E c \in Executors, now \in Times :
        /\ disk["claim"].by = c
        /\ batch[c] > Len(Batches)
        /\ Enter(p, [status |-> OverallStatus(c), at |-> now], p)
    /\ UNCHANGED <<storage, executing, crashes>>

Finalizing == {"acquire", "writeJournal", "syncJournal", "unlinkJournal", "open", "fill",
               "promote", "cas", "verify"}
Attempting == Finalizing \ {"unlinkJournal"}

\* Mutant: the recovery generates an owner of its own.
RecoverAsNewOwner(p, what) ==
    /\ pc[p] = "idle"
    /\ SoloRecovery => \A q \in Procs : pc[q] \notin Finalizing
    /\ disk["journal"].state \in {"preparing", "artifacts_committed"}
    /\ Enter(p, what, p)
    /\ UNCHANGED <<storage, executing, crashes>>

\* Recovery takes the owner from the journal on disk; it refuses a missing, a
\* torn and a completed journal.  The caller supplies aggregation and finalized_at.
Recover(p, what) ==
    /\ pc[p] = "idle"
    /\ SoloRecovery => \A q \in Procs : pc[q] \notin Finalizing
    /\ disk["journal"].state \in {"preparing", "artifacts_committed"}
    /\ Enter(p, what, disk["journal"].by)
    /\ UNCHANGED <<storage, executing, crashes>>

\* Mutant: the identity of the journalled transaction is not compared.
AcquireAnyTransaction(p) ==
    /\ pc[p] = "acquire"
    /\ LET found == disk["journal"]
       IN \/ /\ found = Absent
             /\ disk' = [disk EXCEPT !["journal"] = Torn]
             /\ file' = [file EXCEPT ![p] = "journal"]
             /\ fd' = [fd EXCEPT ![p] = "final"]
             /\ Goto(p, "writeJournal")
             /\ UNCHANGED <<content, owner, journal, seen>>
          \/ /\ found.state = "preparing"
             /\ found.by = owner[p]
             /\ Goto(p, "open")
             /\ file' = [file EXCEPT ![p] = "receipt"]
             /\ UNCHANGED <<disk, fd, content, owner, journal, seen>>
          \/ /\ found.state \in {"artifacts_committed", "claim_committed"}
             /\ owner' = [owner EXCEPT ![p] = found.by]
             /\ journal' = [journal EXCEPT ![p] = found.state]
             /\ Goto(p, IF found.state = "claim_committed" THEN "verify" ELSE "cas")
             /\ UNCHANGED <<disk, file, fd, content, seen>>
    /\ UNCHANGED <<staged, executing, crashes>>

\* The journal is being created, or about to be removed by its creator.
Provisional(q) == pc[q] \in {"writeJournal", "syncJournal", "unlinkJournal"}

\* Step 3.  The journal is created exclusively, or read and compared: another
\* transaction, another owner still preparing or a journal that is gone by the
\* time of the read refuses the caller, a journal past preparing makes the caller
\* adopt its owner.
Acquire(p) ==
    /\ pc[p] = "acquire"
    /\ LET found == disk["journal"]
           same == found.content = content[p]
       IN \/ /\ found = Absent
             /\ disk' = [disk EXCEPT !["journal"] = Torn]
             /\ file' = [file EXCEPT ![p] = "journal"]
             /\ fd' = [fd EXCEPT ![p] = "final"]
             /\ Goto(p, "writeJournal")
             /\ UNCHANGED <<content, owner, journal, seen>>
          \/ /\ same
             /\ found.state = "preparing"
             /\ found.by = owner[p]
             /\ Goto(p, "open")
             /\ file' = [file EXCEPT ![p] = "receipt"]
             /\ UNCHANGED <<disk, fd, content, owner, journal, seen>>
          \/ /\ same
             /\ found.state \in {"artifacts_committed", "claim_committed"}
             /\ owner' = [owner EXCEPT ![p] = found.by]
             /\ journal' = [journal EXCEPT ![p] = found.state]
             /\ Goto(p, IF found.state = "claim_committed" THEN "verify" ELSE "cas")
             /\ UNCHANGED <<disk, file, fd, content, seen>>
          \/ /\ \/ found = Torn
                \/ found # Absent /\ \E q \in Procs : Provisional(q)
                \/ found # Absent /\ ~ same
                \/ found.state = "preparing" /\ found.by # owner[p]
             /\ Halt(p)
             /\ UNCHANGED disk
    /\ UNCHANGED <<staged, executing, crashes>>

JournalRecord(p) ==
    [Blank(journal[p]) EXCEPT !.by = owner[p], !.content = content[p]]

\* Write and flush go to the inode the process created.
WriteJournal(p) ==
    /\ pc[p] = "writeJournal"
    /\ disk' = IF fd[p] = "final" THEN [disk EXCEPT !["journal"] = JournalRecord(p)] ELSE disk
    /\ Goto(p, "syncJournal")
    /\ UNCHANGED <<staged, executing, finalizing, crashes>>

\* fsync, and the path must still name that inode: a recovery that adopted the
\* journal may have replaced it.
ConfirmJournal(p) ==
    /\ pc[p] = "syncJournal"
    /\ \/ /\ fd[p] = "final"
          /\ fd' = [fd EXCEPT ![p] = "none"]
          /\ file' = [file EXCEPT ![p] = "receipt"]
          /\ Goto(p, "open")
          /\ UNCHANGED <<content, owner, journal, seen>>
       \/ /\ fd[p] # "final"
          /\ Halt(p)
    /\ UNCHANGED <<storage, executing, crashes>>

\* Path.write_text, first half: the temporary file exists and is empty.
Open(p) ==
    /\ pc[p] = "open"
    /\ staged' = [staged EXCEPT ![file[p]] = Torn]
    /\ fd' = [fd EXCEPT ![p] = "tmp"]
    /\ Goto(p, "fill")
    /\ UNCHANGED <<disk, executing, file, content, owner, journal, seen, crashes>>

Draft(p) ==
    CASE file[p] = "claim" ->
            [seen[p] EXCEPT !.state = STATUS_TO_CLAIM_STATE[content[p].status],
                            !.content = content[p]]
      [] file[p] = "journal" -> JournalRecord(p)
      [] OTHER -> [Blank("written") EXCEPT !.content = content[p]]

Staging == {"receipt", "bundle"}

\* Path.write_text, second half: the bytes go to the inode the process opened,
\* wherever it is by now.  Receipt and bundle are read back through their path.
Fill(p) ==
    /\ pc[p] = "fill"
    /\ staged' = IF fd[p] = "tmp" THEN [staged EXCEPT ![file[p]] = Draft(p)] ELSE staged
    /\ disk' = IF fd[p] = "final" THEN [disk EXCEPT ![file[p]] = Draft(p)] ELSE disk
    /\ \/ /\ file[p] \in Staging => fd[p] = "tmp"
          /\ fd' = [fd EXCEPT ![p] = "none"]
          /\ file' = [file EXCEPT ![p] = CASE file[p] = "receipt" -> "bundle"
                                           [] file[p] = "bundle" -> "receipt"
                                           [] OTHER -> file[p]]
          /\ Goto(p, IF file[p] = "receipt" THEN "open" ELSE "promote")
          /\ UNCHANGED <<content, owner, journal, seen>>
       \/ /\ file[p] \in Staging
          /\ fd[p] # "tmp"
          /\ Halt(p)
    /\ UNCHANGED <<executing, crashes>>

\* Path.replace moves the inode; a writer that has it open follows it.
FollowInode(kind) ==
    [q \in Procs |-> CASE file[q] = kind /\ fd[q] = "tmp" -> "final"
                       [] file[q] = kind /\ fd[q] = "final" -> "gone"
                       [] OTHER -> fd[q]]

\* Mutant: the claim is committed before the journal says artifacts_committed.
PromoteWithoutJournal(p) ==
    /\ pc[p] = "promote"
    /\ LET kind == file[p] IN
        /\ staged[kind] # Absent
        /\ disk' = [disk EXCEPT ![kind] = staged[kind]]
        /\ staged' = [staged EXCEPT ![kind] = Absent]
        /\ fd' = FollowInode(kind)
        /\ file' = [file EXCEPT ![p] = IF kind = "receipt" THEN "bundle" ELSE "journal"]
        /\ journal' = [journal EXCEPT ![p] = IF kind = "claim" THEN "claim_committed" ELSE @]
        /\ Goto(p, CASE kind = "receipt" -> "promote"
                     [] kind = "bundle" -> "cas"
                     [] kind = "claim" -> "open"
                     [] OTHER -> "verify")
    /\ UNCHANGED <<executing, content, owner, seen, crashes>>

\* Steps 4 and 5: receipt, bundle and then the journal as artifacts_committed;
\* the terminal claim and then the journal as claim_committed.
Promote(p) ==
    /\ pc[p] = "promote"
    /\ LET kind == file[p] IN
        \/ /\ staged[kind] # Absent
           /\ disk' = [disk EXCEPT ![kind] = staged[kind]]
           /\ staged' = [staged EXCEPT ![kind] = Absent]
           /\ fd' = FollowInode(kind)
           /\ file' = [file EXCEPT ![p] = IF kind = "receipt" THEN "bundle" ELSE "journal"]
           /\ journal' = [journal EXCEPT ![p] = CASE kind = "bundle" -> "artifacts_committed"
                                                  [] kind = "claim" -> "claim_committed"
                                                  [] OTHER -> journal[p]]
           /\ Goto(p, CASE kind = "receipt" -> "promote"
                        [] kind \in {"bundle", "claim"} -> "open"
                        [] kind = "journal" /\ journal[p] = "artifacts_committed" -> "cas"
                        [] OTHER -> "verify")
           /\ UNCHANGED <<content, owner, seen>>
        \/ /\ staged[kind] = Absent
           /\ Halt(p)
           /\ UNCHANGED storage
    /\ UNCHANGED <<executing, crashes>>

\* Step 5, the terminal CAS guard: a claimed claim is finalized, a claim already
\* terminal with this receipt only needs the journal, anything else refuses.
CasGuard(p) ==
    /\ pc[p] = "cas"
    /\ LET found == disk["claim"] IN
        \/ /\ found.state = "claimed"
           /\ seen' = [seen EXCEPT ![p] = found]
           /\ file' = [file EXCEPT ![p] = "claim"]
           /\ Goto(p, "open")
           /\ UNCHANGED <<fd, content, owner, journal>>
        \/ /\ found.state = STATUS_TO_CLAIM_STATE[content[p].status]
           /\ found.content = content[p]
           /\ journal' = [journal EXCEPT ![p] = "claim_committed"]
           /\ file' = [file EXCEPT ![p] = "journal"]
           /\ Goto(p, "open")
           /\ UNCHANGED <<fd, content, owner, seen>>
        \/ /\ found.state # "claimed"
           /\ \/ found.state # STATUS_TO_CLAIM_STATE[content[p].status]
              \/ found.content # content[p]
           /\ Halt(p)
    /\ UNCHANGED <<storage, executing, crashes>>

\* _verify_durable_cross_links: the four published files belong together.
CrossLinked(what) ==
    /\ disk["receipt"].state = "written" /\ disk["receipt"].content = what
    /\ disk["bundle"].state = "written" /\ disk["bundle"].content = what
    /\ disk["claim"].state = STATUS_TO_CLAIM_STATE[what.status]
    /\ disk["claim"].content = what
    /\ disk["journal"].state = "claim_committed"
    /\ disk["journal"].content = what

\* Mutant: the journal is cleaned up after the verification.
VerifyAndCleanUp(p) ==
    /\ pc[p] = "verify"
    /\ \/ /\ CrossLinked(content[p])
          /\ disk' = [disk EXCEPT !["journal"] = Absent]
          /\ Goto(p, "done")
          /\ UNCHANGED finalizing
       \/ /\ ~ CrossLinked(content[p])
          /\ Halt(p)
          /\ UNCHANGED disk
    /\ UNCHANGED <<staged, executing, crashes>>

Verify(p) ==
    /\ pc[p] = "verify"
    /\ \/ /\ CrossLinked(content[p])
          /\ Goto(p, "done")
          /\ UNCHANGED finalizing
       \/ /\ ~ CrossLinked(content[p])
          /\ Halt(p)
    /\ UNCHANGED <<storage, executing, crashes>>

\* Mutant: a dying finalizer resets the claim to what its claimant wrote.
CrashResetsClaim(p) ==
    /\ pc[p] \notin {"idle", "done", "stopped"}
    /\ crashes < MaxCrashes
    /\ crashes' = crashes + 1
    /\ disk' = IF pc[p] \in Finalizing /\ ClaimReadable
               THEN [disk EXCEPT !["claim"] = Claimed(disk["claim"].by)] ELSE disk
    /\ Halt(p)
    /\ UNCHANGED <<staged, executing>>

\* Mutant: a dying child releases its claim.
CrashReleasesClaim(p) ==
    /\ pc[p] \notin {"idle", "done", "stopped"}
    /\ crashes < MaxCrashes
    /\ crashes' = crashes + 1
    /\ disk' = IF p \in Executors THEN [disk EXCEPT !["claim"] = Absent] ELSE disk
    /\ Halt(p)
    /\ UNCHANGED <<staged, executing>>

\* The parent's deadline, a kill, or an I/O error at any point.
Crash(p) ==
    /\ pc[p] \notin {"idle", "done", "stopped"}
    /\ crashes < MaxCrashes
    /\ crashes' = crashes + 1
    /\ Halt(p)
    /\ UNCHANGED <<storage, executing>>

-----------------------------------------------------------------------------
Execute(p) ==
    \/ Load(p) \/ Evaluate(p) \/ OpenClaim(p) \/ WriteClaim(p) \/ ConfirmClaim(p)
    \/ DispatchBatch(p) \/ Conclude(p)

Finalize(p) ==
    \/ Acquire(p) \/ WriteJournal(p) \/ ConfirmJournal(p) \/ Open(p) \/ Fill(p)
    \/ Promote(p) \/ CasGuard(p) \/ Verify(p)

Next ==
    \/ \E p \in Executors : Execute(p)
    \/ \E p \in Repeaters : Repeat(p)
    \/ \E p \in Recoverers, what \in Content : Recover(p, what)
    \/ \E p \in Procs : Finalize(p) \/ FailExclusive(p) \/ Unlink(p) \/ Crash(p)

Spec == Init /\ [][Next]_vars

\* What the agreement of overlapping finalizers rests on: recovery waits until no
\* finalizer lives, or a journal that others could read is not taken back.  Without
\* either, a recovery may work on under a journal whose creator then fails to sync
\* it and removes it, and the next caller begins a second transaction.
Steady == \A p \in Procs : pc[p] = "syncJournal" => pc'[p] # "unlinkJournal"
Orderly == SoloRecovery \/ Steady

OrderlySpec == Init /\ [][Next /\ Orderly]_vars

\* A live process keeps running.  Nobody need ever start one: neither a child, nor
\* a repeated call, nor a recovery.
Fairness == \A p \in Procs : WF_vars(Finalize(p))

FairSpec == Spec /\ Fairness

-----------------------------------------------------------------------------
(* Properties *)

Labels == {"idle", "evaluate", "claim", "writeClaim", "syncClaim", "unlinkClaim",
           "dispatch", "done", "stopped"} \cup Finalizing

\* Type correctness of the directory and of the memory of every process.
TypeOK ==
    /\ disk \in [Kinds -> File]
    /\ staged \in [Kinds -> File]
    /\ invoked \in [Ops -> Nat]
    /\ crashes \in 0 .. MaxCrashes
    /\ pc \in [Procs -> Labels]
    /\ file \in [Procs -> Kinds]
    /\ fd \in [Procs -> {"none", "tmp", "final", "gone"}]
    /\ stamp \in [Procs -> Times \cup {None}]
    /\ batch \in [Procs -> 1 .. Len(Batches) + 1]
    /\ results \in [Procs -> [Ops -> {"none", "succeeded", "failed"}]]
    /\ extra \in [Procs -> BOOLEAN]
    /\ content \in [Procs -> Content \cup {None}]
    /\ owner \in [Procs -> Procs \cup {None}]
    /\ journal \in [Procs -> JournalStates]
    /\ seen \in [Procs -> File]

\* Single use (consumption_claim.py): whatever children race, crash or are killed
\* by the parent, and however often finalization is recovered, the adapter of an
\* approved operation is invoked at most once for a ticket.
AtMostOneInvocation == \A o \in Ops : invoked[o] <= 1

\* Claim before dispatch (controlled_dispatch.py:61-81): when an adapter is invoked
\* the claim of that very child is already published, stamped before expires_at.
DispatchUnderClaim ==
    [][invoked' # invoked =>
        \E p \in Executors :
            /\ pc[p] = "dispatch"
            /\ disk["claim"].state = "claimed"
            /\ disk["claim"].by = p
            /\ disk["claim"].stamp < ExpiresAt]_vars

\* A terminal claim is never rewritten, neither reopened nor given another receipt
\* (receipt.py, step 5).
TerminalClaimIsFinal ==
    [][disk["claim"].state \in Terminal => disk'["claim"] = disk["claim"]]_vars

\* The journal of a transaction only moves forward and keeps its owner and its
\* receipt, or its creator takes it back while it is preparing: then nothing was
\* staged or published under it and the claim is open (receipt.py, steps 3 to 5,
\* m8r_filesystem_safety.py:478-501).
JournalRank == [preparing |-> 1, artifacts_committed |-> 2, claim_committed |-> 3]
JournalOnlyAdvances ==
    [][LET before == disk["journal"]
           after  == disk'["journal"]
       IN before.state \in JournalStates =>
            \/ /\ after.state \in JournalStates
               /\ after.by = before.by /\ after.content = before.content
               /\ JournalRank[before.state] <= JournalRank[after.state]
            \/ /\ after = Absent
               /\ before.state = "preparing"
               /\ disk["claim"].state = "claimed"
               /\ disk["receipt"] = Absent /\ disk["bundle"] = Absent
               /\ \A k \in Kinds : staged[k] = Absent]_vars

\* Write-ahead order (receipt.py, steps 4 and 5): artifacts_committed is published
\* only over a complete receipt and bundle of this transaction, a terminal claim
\* only under artifacts_committed or later, claim_committed only over that claim.
Backed(what) ==
    /\ disk["receipt"].state = "written" /\ disk["receipt"].content = what
    /\ disk["bundle"].state = "written" /\ disk["bundle"].content = what
CommitOrder ==
    LET j == disk["journal"]
        c == disk["claim"]
    IN /\ j.state \in {"artifacts_committed", "claim_committed"} => Backed(j.content)
       /\ c.state \in Terminal =>
            /\ Backed(c.content)
            /\ c.content = j.content
            /\ c.state = STATUS_TO_CLAIM_STATE[j.content.status]
            /\ j.state \in {"artifacts_committed", "claim_committed"}
       /\ j.state = "claim_committed" => c.state \in Terminal

\* All published artifacts that parse belong to one transaction: claim, journal,
\* receipt and bundle never name two different receipts, whichever caller wrote
\* them and however the writers overlapped (receipt.py:355-363).
OneTransaction ==
    \A k, l \in Kinds :
        disk[k].content # None /\ disk[l].content # None
            => disk[k].content = disk[l].content

\* A claim under which an operation was invoked is never given back: the file does
\* not disappear, and a claim that named a receipt does not return to claimed, also
\* when several finalizers write over each other.  A readable claim that a failing
\* fsync takes back is unused (consumption_claim.py:165-194, receipt.py:437-471,
\* m8r_filesystem_safety.py:478-501).
UsedClaimIsKept ==
    [][LET before == disk["claim"]
           after  == disk'["claim"]
       IN before.state \in {"claimed"} \cup Terminal =>
            /\ after.state = "absent" =>
                 \A o \in Ops : invoked[o] = 0 /\ invoked'[o] = 0
            /\ before.state \in Terminal => after.state \notin {"absent", "claimed"}]_vars

\* The terminal claim tells what really happened: every operation was invoked and
\* answered, the claim is a success only if all of them succeeded and a failure only
\* if none did, and its receipt is not dated before it, whoever finalized it
\* (evidence_aggregation.py:170-175, receipt.py:109-118).
HonestOutcome ==
    LET c == disk["claim"]
        succeeded == {o \in Ops : results[c.by][o] = "succeeded"}
    IN c.state \in Terminal =>
        /\ \A o \in Ops : invoked[o] = 1 /\ results[c.by][o] # "none"
        /\ c.state = "consumed_success" <=> succeeded = Ops
        /\ c.state = "consumed_failed" <=> succeeded = {}
        /\ c.stamp <= c.content.at

\* A caller that was told the finalization succeeded finds the four files complete
\* and cross-linked for good (receipt.py:494-551).
ReportedSuccessIsDurable ==
    \A p \in Procs : pc[p] = "done" => CrossLinked(content[p])

\* A finalization is interrupted from outside only: whatever an earlier attempt left
\* behind, its own checks never refuse it, unless the journal names another receipt
\* (receipt.py:3-11 and 366-374, steps 4 and 5).
OnlyCrashesInterrupt ==
    [][\A p \in Procs :
        pc[p] \in Attempting /\ pc'[p] \in {"idle", "stopped"} =>
            \/ crashes' # crashes
            \/ /\ disk["journal"].state \in JournalStates
               /\ disk["journal"].content # content[p]]_vars

\* The documented contract of concurrent finalization
\* (tests/unit/test_m8r_05b_03_receipt.py:475-479): exactly one owner stages,
\* promotes and mutates the claim; a second caller is refused or only verifies.
Mutating == {"open", "fill", "promote", "cas"}
SingleMutationOwner ==
    \A p, q \in Procs : pc[p] \in Mutating /\ pc[q] \in Mutating => p = q

\* An attempt completes (receipt.py:3-11): whatever earlier attempts left behind, a
\* finalization or a recovery that runs until the next crash reports success, unless
\* the journal names another receipt.
AttemptCompletes ==
    \A p \in Procs : \A n \in 0 .. MaxCrashes :
        pc[p] \in Attempting /\ crashes = n ~>
            \/ pc[p] = "done"
            \/ crashes > n
            \/ disk["journal"].content \notin {None, content[p]}

\* The directory implements the ticket the owner approved (SingleUseTicket): the
\* holder is the child named by the published claim.  A torn claim holds nothing, nor
\* does one that its child may still take back.
Holder ==
    IF ClaimReadable /\ pc[disk["claim"].by] \notin {"syncClaim", "unlinkClaim"}
    THEN disk["claim"].by ELSE None
Ticket == INSTANCE SingleUseTicket WITH
    Holders <- Executors,
    holder  <- Holder,
    uses    <- invoked,
    answers <- IF Holder = None THEN [o \in Ops |-> "none"] ELSE results[Holder],
    outcome <- IF disk["claim"].state \in Terminal THEN disk["claim"].state ELSE "open"

\* Whatever the children and the recovery do, the ticket keeps its promise: one
\* holder, each operation used at most once and under the claim, one outcome that
\* is the aggregate of the answers (controlled_dispatch.py, orchestrator.py).
ImplementsTicket == Ticket!Spec
=============================================================================
