-------------------------- MODULE ServiceLifecycle --------------------------
(***************************************************************************)
(* The `start` and `stop` commands of one service port.  Every command is  *)
(* a process of its own; the commands share the ownership file of the port *)
(* (service-<port>.json), the port, and the service processes they launch. *)
(* Source: scripts/tw_market_lifecycle.py, _start to _serve.               *)
(*                                                                         *)
(* A service is named by the command that launched it: a pid together with *)
(* its creation token and executable stands for one process.               *)
(***************************************************************************)
EXTENDS Naturals, FiniteSets

CONSTANTS
    Starters,       \* invocations of `start`
    Stoppers,       \* invocations of `stop`
    MaxCrashes,     \* bound: commands killed
    MaxFaults,      \* bound: failures of Popen, of the token or of the record
    None

Commands == Starters \cup Stoppers

ASSUME LifecycleAssumption ==
    /\ Starters \cap Stoppers = {} /\ None \notin Commands
    /\ MaxCrashes \in Nat /\ MaxFaults \in Nat

VARIABLES
    owner,      \* the ownership file
    child,      \* the service of each `start`
    pc,         \* where each command is
    seen,       \* the record that a command has read and not judged yet
    target,     \* the service a `stop` is about to signal
    result,     \* the status each command ended with
    crashes, faults

vars == <<owner, child, pc, seen, target, result, crashes, faults>>

\* "created" is the file after O_EXCL and before its content is written.
Record == [state : {"created", "starting", "running"}, by : Starters]

Starting == {"judge", "unlink", "port", "create", "write", "confirm", "spawn", "record",
             "poll", "health", "cleanup", "discard", "discard_again"}
Stopping == {"judge", "signal", "discard_again"}
Working == Starting \cup Stopping
Results == {"STARTED", "ALREADY_RUNNING", "START_IN_PROGRESS", "START_FAILED",
            "PORT_OCCUPIED_NOT_OWNED", "STALE_PROCESS_OWNERSHIP",
            "NOT_RUNNING", "STOPPED", "ERROR"}

ASSUME NoneAssumption == None \notin Record /\ None \notin Results

Alive(c) == child[c] \in {"launched", "serving"}
PortOpen == \E c \in Starters : child[c] = "serving"

\* _owner_state: does the record name a live creator or a live service?  A file
\* without content is an error.
Live(r) ==
    \/ r.state = "starting" /\ pc[r.by] \in Working
    \/ r.state = "running" /\ Alive(r.by)

-----------------------------------------------------------------------------
Init ==
    /\ owner = None
    /\ child = [c \in Starters |-> "none"]
    /\ pc = [c \in Commands |-> "idle"]
    /\ seen = [c \in Commands |-> None]
    /\ target = [c \in Stoppers |-> None]
    /\ result = [c \in Commands |-> None]
    /\ crashes = 0 /\ faults = 0

Go(c, place) == pc' = [pc EXCEPT ![c] = place] /\ UNCHANGED result

End(c, status) ==
    /\ pc' = [pc EXCEPT ![c] = "done"]
    /\ result' = [result EXCEPT ![c] = status]

-----------------------------------------------------------------------------
(* start *)

ReadForStart(c) ==
    /\ pc[c] = "idle"
    /\ Go(c, IF owner = None THEN "port" ELSE "judge")
    /\ seen' = [seen EXCEPT ![c] = owner]
    /\ UNCHANGED <<owner, child, target, crashes, faults>>

\* _owner_state of the record that was read.
JudgeForStart(c) ==
    /\ pc[c] = "judge"
    /\ IF ~ Live(seen[c]) THEN Go(c, "unlink")
       ELSE End(c, IF seen[c].state = "running" THEN "ALREADY_RUNNING" ELSE "START_IN_PROGRESS")
    /\ seen' = [seen EXCEPT ![c] = None]
    /\ UNCHANGED <<owner, child, target, crashes, faults>>

\* _safe_unlink removes whatever record is there by now.
UnlinkStale(c) ==
    /\ pc[c] = "unlink"
    /\ IF owner = None THEN End(c, "STALE_PROCESS_OWNERSHIP") ELSE Go(c, "port")
    /\ owner' = None
    /\ UNCHANGED <<child, seen, target, crashes, faults>>

CheckPort(c) ==
    /\ pc[c] = "port"
    /\ IF PortOpen THEN End(c, "PORT_OCCUPIED_NOT_OWNED") ELSE Go(c, "create")
    /\ UNCHANGED <<owner, child, seen, target, crashes, faults>>

\* atomic_create_text_exclusive: O_EXCL, then the content, each followed by a check
\* that the path still leads to this file.
CreateReservation(c) ==
    /\ pc[c] = "create"
    /\ IF owner # None
       THEN End(c, "START_IN_PROGRESS") /\ UNCHANGED owner
       ELSE Go(c, "write") /\ owner' = [state |-> "created", by |-> c]
    /\ UNCHANGED <<child, seen, target, crashes, faults>>

OwnFile(c) == owner # None /\ owner.by = c

WriteReservation(c) ==
    /\ pc[c] = "write"
    /\ IF OwnFile(c)
       THEN Go(c, "confirm") /\ owner' = [owner EXCEPT !.state = "starting"]
       ELSE /\ End(c, IF owner = None THEN "ERROR" ELSE "START_FAILED")
            /\ UNCHANGED owner
    /\ UNCHANGED <<child, seen, target, crashes, faults>>

ConfirmReservation(c) ==
    /\ pc[c] = "confirm"
    /\ IF OwnFile(c) THEN Go(c, "spawn") ELSE End(c, "START_FAILED")
    /\ UNCHANGED <<owner, child, seen, target, crashes, faults>>

Spawn(c) ==
    /\ pc[c] = "spawn"
    /\ Go(c, "record")
    /\ child' = [child EXCEPT ![c] = "launched"]
    /\ UNCHANGED <<owner, seen, target, crashes, faults>>

\* Popen raises OSError.
LaunchFails(c) ==
    /\ pc[c] = "spawn" /\ faults < MaxFaults
    /\ Go(c, "discard_again")
    /\ faults' = faults + 1
    /\ UNCHANGED <<owner, child, seen, target, crashes>>

\* The child's creation token cannot be read: it is terminated.
IdentityUnavailable(c) ==
    /\ pc[c] = "record" /\ faults < MaxFaults
    /\ Go(c, "discard_again")
    /\ child' = [child EXCEPT ![c] = "gone"]
    /\ faults' = faults + 1
    /\ UNCHANGED <<owner, seen, target, crashes>>

\* Mutant: the child is announced before it is recorded.
RecordAfterwards(c) ==
    /\ pc[c] = "record"
    /\ Go(c, "poll")
    /\ UNCHANGED <<owner, child, seen, target, crashes, faults>>

\* atomic_write_text replaces whatever record is there.
RecordService(c) ==
    /\ pc[c] = "record"
    /\ Go(c, "poll")
    /\ owner' = [state |-> "running", by |-> c]
    /\ UNCHANGED <<child, seen, target, crashes, faults>>

\* The record cannot be written; the child is left alone.
RecordFails(c) ==
    /\ pc[c] = "record" /\ faults < MaxFaults
    /\ Go(c, "discard_again")
    /\ faults' = faults + 1
    /\ UNCHANGED <<owner, child, seen, target, crashes>>

\* The wait: has the child exited, then, does anybody answer on the port.
PollChild(c) ==
    /\ pc[c] = "poll"
    /\ Go(c, IF Alive(c) THEN "health" ELSE "discard_again")
    /\ UNCHANGED <<owner, child, seen, target, crashes, faults>>

Healthy(c) ==
    /\ pc[c] = "health" /\ PortOpen
    /\ End(c, "STARTED")
    /\ UNCHANGED <<owner, child, seen, target, crashes, faults>>

NotYetHealthy(c) ==
    /\ pc[c] = "health"
    /\ Go(c, "poll")
    /\ UNCHANGED <<owner, child, seen, target, crashes, faults>>

\* Mutant: the wait has no deadline.
WaitForEver(c) ==
    /\ pc[c] = "poll" /\ Alive(c)
    /\ Go(c, "health")
    /\ UNCHANGED <<owner, child, seen, target, crashes, faults>>

\* The deadline of 15 seconds, tested before each round.
GiveUp(c) ==
    /\ pc[c] = "poll"
    /\ Go(c, "cleanup")
    /\ UNCHANGED <<owner, child, seen, target, crashes, faults>>

\* _cleanup_start_timeout: the child is terminated and the file removed, by
\* _terminate_owned and once more by its caller; once only if the child was gone.
TerminateChild(c) ==
    /\ pc[c] = "cleanup"
    /\ Go(c, "discard") \/ (~ Alive(c) /\ Go(c, "discard_again"))
    /\ child' = [child EXCEPT ![c] = "gone"]
    /\ UNCHANGED <<owner, seen, target, crashes, faults>>

Discard(c) ==
    /\ pc[c] = "discard"
    /\ Go(c, "discard_again")
    /\ owner' = None
    /\ UNCHANGED <<child, seen, target, crashes, faults>>

-----------------------------------------------------------------------------
(* stop *)

ReadForStop(c) ==
    /\ pc[c] = "idle"
    /\ \/ /\ owner = None
          /\ End(c, IF PortOpen THEN "PORT_OCCUPIED_NOT_OWNED" ELSE "NOT_RUNNING")
          /\ UNCHANGED seen
       \/ /\ owner # None /\ owner.state = "created"
          /\ End(c, "STALE_PROCESS_OWNERSHIP")
          /\ UNCHANGED seen
       \/ /\ owner # None /\ owner.state # "created"
          /\ Go(c, "judge")
          /\ seen' = [seen EXCEPT ![c] = owner]
    /\ UNCHANGED <<owner, child, target, crashes, faults>>

\* _starting_creator_matches and _process_matches of the record that was read, whatever
\* record is there by now.
JudgeForStop(c) ==
    /\ pc[c] = "judge"
    /\ \/ /\ ~ Live(seen[c])
          /\ Go(c, "discard_again") /\ UNCHANGED target
       \/ /\ Live(seen[c]) /\ seen[c].state = "starting"
          /\ End(c, "START_IN_PROGRESS") /\ UNCHANGED target
       \/ /\ Live(seen[c]) /\ seen[c].state = "running"
          /\ Go(c, "signal") /\ target' = [target EXCEPT ![c] = seen[c].by]
    /\ seen' = [seen EXCEPT ![c] = None]
    /\ UNCHANGED <<owner, child, crashes, faults>>

\* Mutant: the record goes before the service.
SignalLater(c) ==
    /\ pc[c] = "signal"
    /\ Go(c, "discard_again")
    /\ UNCHANGED <<owner, child, seen, target, crashes, faults>>

\* _terminate_owned: SIGTERM, SIGKILL.  A service that is already gone is an
\* uncaught ProcessLookupError when it is gone before pidfd_open.
Signal(c) ==
    /\ pc[c] = "signal"
    /\ \/ Go(c, "discard_again")
       \/ ~ Alive(target[c]) /\ End(c, "ERROR")
    /\ child' = [child EXCEPT ![target[c]] = "gone"]
    /\ UNCHANGED <<owner, seen, target, crashes, faults>>

-----------------------------------------------------------------------------
\* The last unlink of a command, whatever record is there by now.
DiscardAgain(c) ==
    /\ pc[c] = "discard_again"
    /\ End(c, IF c \in Starters THEN "START_FAILED"
              ELSE IF target[c] = None THEN "STALE_PROCESS_OWNERSHIP" ELSE "STOPPED")
    /\ owner' = None
    /\ UNCHANGED <<child, seen, target, crashes, faults>>

-----------------------------------------------------------------------------
(* Services and crashes *)

\* Mutant: the port is shared.
BindAnyway(c) ==
    /\ child[c] = "launched"
    /\ child' = [child EXCEPT ![c] = "serving"]
    /\ UNCHANGED <<owner, pc, seen, target, result, crashes, faults>>

\* uvicorn binds the port or, when it is taken, exits.
Bind(c) ==
    /\ child[c] = "launched"
    /\ child' = [child EXCEPT ![c] = IF PortOpen THEN "gone" ELSE "serving"]
    /\ UNCHANGED <<owner, pc, seen, target, result, crashes, faults>>

Exit(c) ==
    /\ Alive(c)
    /\ child' = [child EXCEPT ![c] = "gone"]
    /\ UNCHANGED <<owner, pc, seen, target, result, crashes, faults>>

\* A command is killed; a service it launched has its own session and lives on.
Crash(c) ==
    /\ pc[c] \in Working /\ crashes < MaxCrashes
    /\ pc' = [pc EXCEPT ![c] = "crashed"]
    /\ crashes' = crashes + 1
    /\ UNCHANGED <<owner, child, seen, target, result, faults>>

Start(c) ==
    \/ ReadForStart(c) \/ JudgeForStart(c) \/ UnlinkStale(c) \/ CheckPort(c)
    \/ CreateReservation(c) \/ WriteReservation(c) \/ ConfirmReservation(c)
    \/ Spawn(c) \/ RecordService(c)
    \/ PollChild(c) \/ Healthy(c) \/ NotYetHealthy(c) \/ GiveUp(c)
    \/ TerminateChild(c) \/ Discard(c) \/ DiscardAgain(c)

Stop(c) == ReadForStop(c) \/ JudgeForStop(c) \/ Signal(c) \/ DiscardAgain(c)

Next ==
    \/ \E c \in Starters :
        \/ Start(c)
        \/ LaunchFails(c) \/ IdentityUnavailable(c) \/ RecordFails(c)
        \/ Bind(c) \/ Exit(c)
    \/ \E c \in Stoppers : Stop(c)
    \/ \E c \in Commands : Crash(c)

Spec == Init /\ [][Next]_vars

\* The operator: commands overlap until a second start is given, and from then on they
\* are given one at a time.  Starts that overlap, or one that overlaps a stop of an
\* earlier service, lose records.
OneAtATime == \A c \in Commands : pc[c] \notin Working
FirstStart == \A c, d \in Starters : pc[c] # "idle" /\ pc[d] # "idle" => c = d
Given == \A c \in Commands : pc[c] = "idle" /\ pc'[c] # "idle" => OneAtATime \/ FirstStart'

\* So does a stop that has read the reservation of a start and judges its creator only
\* after that start has recorded its service and ended.  A stop that judges at once what
\* it reads never has a service recorded in between.
Judging(c) == c \in Stoppers /\ pc[c] = "judge"
Prompt ==
    \A c \in Starters : pc[c] = "record" /\ pc'[c] = "poll" => ~ \E t \in Stoppers : Judging(t)

Ordered == Given /\ Prompt

OrderedSpec == Init /\ [][Next /\ Ordered]_vars

\* A command that was given runs, and a deadline passes.
Continue(c) == pc[c] \in Working /\ IF c \in Starters THEN Start(c) ELSE Stop(c)
FairOrderedSpec ==
    /\ OrderedSpec
    /\ \A c \in Commands : WF_vars(Continue(c))
    /\ \A c \in Starters : SF_vars(GiveUp(c))

-----------------------------------------------------------------------------
(* Properties *)

\* Type correctness, and at most one service has the port.
TypeOK ==
    /\ owner \in Record \cup {None}
    /\ child \in [Starters -> {"none", "launched", "serving", "gone"}]
    /\ pc \in [Commands -> {"idle", "done", "crashed"} \cup Working]
    /\ \A c \in Stoppers : pc[c] \in {"idle", "done", "crashed"} \cup Stopping
    /\ seen \in [Commands -> Record \cup {None}]
    /\ target \in [Stoppers -> Starters \cup {None}]
    /\ result \in [Commands -> Results \cup {None}]
    /\ Cardinality({c \in Starters : child[c] = "serving"}) <= 1
    /\ crashes \in 0 .. MaxCrashes /\ faults \in 0 .. MaxFaults

\* A service that `start` reported as STARTED can be stopped as long as it lives: the
\* ownership file names it, whatever happened to other commands
\* (tw_market_lifecycle.py:480-495, 529-574).
StartedStaysStoppable ==
    \A c \in Starters :
        result[c] = "STARTED" /\ Alive(c) => owner = [state |-> "running", by |-> c]

\* The record of a live creator or of a live service is only ever changed by the
\* command that wrote it (docs/governance/phase_l/
\* PHASE_L_L1_A1_MINIMUM_RUNTIME_LIFECYCLE_STATUS_DOCTOR_2026-10-13.md, "A live
\* matching creator returns START_IN_PROGRESS").
LiveRecordKept ==
    [][owner # None /\ Live(owner) /\ owner' # owner => pc'[owner.by] # pc[owner.by]]_vars

\* Every command that was given ends (tw_market_lifecycle.py:466-500).
CommandsEnd == \A c \in Commands : pc[c] \in Working ~> pc[c] \notin Working
=============================================================================
