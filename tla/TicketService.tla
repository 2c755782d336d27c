---------------------------- MODULE TicketService ----------------------------
(***************************************************************************)
(* The market actions of the Local Service: admission through the resource *)
(* gate, issuance of a single-use execution ticket as a control package,   *)
(* and its use by an execute-once child.  Services on different ports      *)
(* share the control root; each has one event loop, and an action that is  *)
(* past the reading of its body keeps the loop until it has its answer.    *)
(* Source: server/resource_boundaries.py, server/services/unified_mode_b2.py, *)
(* unified_mode_b2_execution.py and unified_local_operator_action.py.      *)
(*                                                                         *)
(* All invocations carry one and the same request, the case the issuance   *)
(* time is there for: two tickets are the same exactly when they were      *)
(* issued by the same kind of owner for the same time.                     *)
(***************************************************************************)
EXTENDS Naturals, FiniteSets

CONSTANTS
    Service,
    Authorize, Fetch, Execute, Read,    \* the invocations, by route
    Artifacts,      \* the number of artifacts before the manifest
    Limit,          \* MAX_RESOURCE_INTENSIVE_CONCURRENCY
    MaxSecond, MaxMicro, MaxStops,      \* bounds: wall clock, bumps, services killed
    None

Action == Authorize \cup Fetch \cup Execute
Invocation == Action \cup Read

ASSUME TicketServiceAssumption ==
    /\ Artifacts \in Nat \ {0} /\ Limit \in Nat \ {0}
    /\ MaxSecond \in Nat /\ MaxMicro \in Nat /\ MaxStops \in Nat
    /\ Authorize \cap Fetch = {} /\ Execute \cap (Authorize \cup Fetch) = {}
    /\ Read \cap Action = {} /\ None \notin Invocation
    /\ IsFiniteSet(Invocation) /\ Invocation \cap (1..(Artifacts + 1)) = {}

VARIABLES
    clock,      \* the wall clock, in seconds; it is stepped both ways
    active,     \* the gate's count, per service
    loop,       \* the invocation that holds the event loop, per service
    last,       \* _last_local_action_issued_at, per service
    stops,      \* how often each service was killed and started again
    package,    \* the files of each control directory
    claimed,    \* the tickets that were claimed
    pc, at, life,       \* of each invocation: step, service and its life
    now, ticket, next,  \* the time it sampled, its ticket, the artifact it writes next
    child,      \* of each invocation: what its child has come to
    answer

gate == <<active, loop>>
local == <<at, life, now, next>>
vars == <<clock, gate, last, stops, package, claimed, pc, local, ticket, child, answer>>

Time == (0..MaxSecond) \X (0..MaxMicro)
Ticket == [by : {"workbench", "local_action"}, time : Time]
Manifest == Artifacts + 1
File == 1..Manifest
Child == {"running", "won", "refused"}
Reply == {"limited", "read", "invalid", "refused", "conflict", "ticket", "executed", "timeout"}

ASSUME NoneAssumption == None \notin Time \cup Child \cup Reply

NotAfter(t, u) == t[1] < u[1] \/ (t[1] = u[1] /\ t[2] <= u[2])

-----------------------------------------------------------------------------
Init ==
    /\ clock = 0
    /\ active = [s \in Service |-> 0]
    /\ loop = [s \in Service |-> None]
    /\ last = [s \in Service |-> None]
    /\ stops = [s \in Service |-> 0]
    /\ package = [t \in Ticket |-> {}]
    /\ claimed = {}
    /\ pc = [i \in Invocation |-> "new"]
    /\ at = [i \in Invocation |-> None]
    /\ life = [i \in Invocation |-> 0]
    /\ ticket = [i \in Invocation |-> None]
    /\ now = [i \in Invocation |-> 0]
    /\ next = [i \in Invocation |-> 1]
    /\ child = [i \in Invocation |-> None]
    /\ answer = [i \in Invocation |-> None]

Go(i, step) == pc' = [pc EXCEPT ![i] = step] /\ UNCHANGED answer

\* The handler has its answer and gives the loop back; the gate is still held.
Answer(i, a) ==
    /\ pc' = [pc EXCEPT ![i] = "leave"]
    /\ answer' = [answer EXCEPT ![i] = a]
    /\ loop' = [loop EXCEPT ![at[i]] = None]
    /\ UNCHANGED active
Keep(i, step) == Go(i, step) /\ UNCHANGED gate

-----------------------------------------------------------------------------
(* ResourceAdmissionMiddleware *)

\* classify_request sends the light reads past the gate.
Arrive(i, s) ==
    /\ pc[i] = "new"
    /\ at' = [at EXCEPT ![i] = s] /\ life' = [life EXCEPT ![i] = stops[s]]
    /\ \/ i \in Read /\ Go(i, "light") /\ UNCHANGED active
       \/ /\ i \in Action /\ active[s] < Limit
          /\ Go(i, "body") /\ active' = [active EXCEPT ![s] = @ + 1]
       \/ /\ i \in Action /\ active[s] >= Limit
          /\ pc' = [pc EXCEPT ![i] = "done"] /\ answer' = [answer EXCEPT ![i] = "limited"]
          /\ UNCHANGED active
    /\ UNCHANGED <<clock, loop, last, stops, package, claimed, now, ticket, next, child>>

ReadLight(i) ==
    /\ pc[i] = "light" /\ loop[at[i]] = None
    /\ pc' = [pc EXCEPT ![i] = "done"] /\ answer' = [answer EXCEPT ![i] = "read"]
    /\ UNCHANGED <<clock, gate, last, stops, package, claimed, local, ticket, child>>

First(i) == CASE i \in Authorize -> "issue" [] i \in Fetch -> "sample" [] i \in Execute -> "child"

\* The body is complete: the handler runs.  The id of an execution comes with it.
BodyRead(i) ==
    /\ pc[i] = "body" /\ loop[at[i]] = None
    /\ loop' = [loop EXCEPT ![at[i]] = i]
    /\ Go(i, First(i))
    /\ IF i \in Execute
       THEN /\ \E t \in Ticket : ticket' = [ticket EXCEPT ![i] = t]
            /\ child' = [child EXCEPT ![i] = "running"]
       ELSE UNCHANGED <<ticket, child>>
    /\ UNCHANGED <<clock, active, last, stops, package, claimed, local>>

\* Mutant: the body is read outside the try that gives the slot back.
BodyFailsOutside(i) ==
    /\ pc[i] = "body"
    /\ pc' = [pc EXCEPT ![i] = "done"] /\ answer' = [answer EXCEPT ![i] = "invalid"]
    /\ UNCHANGED <<clock, gate, last, stops, package, claimed, local, ticket, child>>

\* The client goes away, or the body is too large or no request.
BodyFails(i) ==
    /\ pc[i] = "body"
    /\ pc' = [pc EXCEPT ![i] = "leave"] /\ answer' = [answer EXCEPT ![i] = "invalid"]
    /\ UNCHANGED <<clock, gate, last, stops, package, claimed, local, ticket, child>>

Leave(i) ==
    /\ pc[i] = "leave"
    /\ Go(i, "done")
    /\ active' = [active EXCEPT ![at[i]] = @ - 1]
    /\ UNCHANGED <<clock, loop, last, stops, package, claimed, local, ticket, child>>

-----------------------------------------------------------------------------
(* Issuance *)

Issue(i, by, t) == ticket' = [ticket EXCEPT ![i] = [by |-> by, time |-> t]]

\* build_mode_b2_authorization: the time is in whole seconds.  The preview may have
\* become stale or may not be authorizable.
IssueAuthorization(i) ==
    /\ pc[i] = "issue"
    /\ \/ Keep(i, "check") /\ Issue(i, "workbench", <<clock, 0>>)
       \/ Answer(i, "refused") /\ UNCHANGED ticket
    /\ UNCHANGED <<clock, last, stops, package, claimed, local, child>>

SampleTime(i) ==
    /\ pc[i] = "sample"
    /\ \/ Keep(i, "stamp") /\ now' = [now EXCEPT ![i] = clock]
       \/ Answer(i, "refused") /\ UNCHANGED now
    /\ UNCHANGED <<clock, last, stops, package, claimed, at, life, next, ticket, child>>

\* Mutant: the sampled time is only compared for equality.
NextTimeUnequal(s, t) ==
    IF last[s] = t THEN <<last[s][1], last[s][2] + 1>> ELSE t

\* _next_local_action_issuance_time, under its lock.
NextTime(s, t) ==
    IF last[s] # None /\ NotAfter(t, last[s]) THEN <<last[s][1], last[s][2] + 1>> ELSE t

StampTime(i) ==
    /\ pc[i] = "stamp"
    /\ LET t == NextTime(at[i], <<now[i], 0>>) IN
       /\ t[2] <= MaxMicro
       /\ Issue(i, "local_action", t)
       /\ last' = [last EXCEPT ![at[i]] = t]
    /\ Keep(i, "check")
    /\ UNCHANGED <<clock, stops, package, claimed, local, child>>

\* _write_control_package: any file, a temporary one too, is a conflict.
CheckPackage(i) ==
    /\ pc[i] = "check"
    /\ IF package[ticket[i]] = {} THEN Keep(i, "exists") ELSE Answer(i, "conflict")
    /\ UNCHANGED <<clock, last, stops, package, claimed, local, ticket, child>>

\* No room on the disk: nothing was written.
NoCapacity(i) ==
    /\ pc[i] = "exists" /\ next[i] = 1
    /\ Answer(i, "refused")
    /\ UNCHANGED <<clock, last, stops, package, claimed, local, ticket, child>>

\* Mutant: the manifest is the first file.
ReplaceManifestFirst(i) ==
    /\ pc[i] = "replace"
    /\ package' = [package EXCEPT ![ticket[i]] =
           (@ \ {i}) \cup {IF next[i] = 1 THEN Manifest ELSE next[i] - 1}]
    /\ next' = [next EXCEPT ![i] = @ + 1]
    /\ IF next[i] # Manifest THEN Keep(i, "exists")
       ELSE IF i \in Fetch THEN Keep(i, "launch") ELSE Answer(i, "ticket")
    /\ UNCHANGED <<clock, last, stops, claimed, at, life, now, ticket, child>>

\* atomic_write_text without overwriting: a check, a temporary file, a replace.
StageFile(i) ==
    /\ pc[i] = "exists"
    /\ IF next[i] \in package[ticket[i]]
       THEN Answer(i, "conflict") /\ UNCHANGED package
       ELSE Keep(i, "replace") /\ package' = [package EXCEPT ![ticket[i]] = @ \cup {i}]
    /\ UNCHANGED <<clock, last, stops, claimed, local, ticket, child>>

ReplaceFile(i) ==
    /\ pc[i] = "replace"
    /\ package' = [package EXCEPT ![ticket[i]] = (@ \ {i}) \cup {next[i]}]
    /\ next' = [next EXCEPT ![i] = @ + 1]
    /\ IF next[i] # Manifest THEN Keep(i, "exists")
       ELSE IF i \in Fetch THEN Keep(i, "launch") ELSE Answer(i, "ticket")
    /\ UNCHANGED <<clock, last, stops, claimed, at, life, now, ticket, child>>

-----------------------------------------------------------------------------
(* Execution *)

\* Mutant: the child reads the claim and writes it unconditionally.
ClaimAnyway(i) ==
    /\ child[i] = "running"
    /\ IF Manifest \in package[ticket[i]]
       THEN /\ claimed' = claimed \cup {ticket[i]}
            /\ child' = [child EXCEPT ![i] = "won"]
       ELSE child' = [child EXCEPT ![i] = "refused"] /\ UNCHANGED claimed
    /\ UNCHANGED <<clock, gate, last, stops, package, pc, local, ticket, answer>>

LaunchChild(i) ==
    /\ pc[i] = "launch"
    /\ Keep(i, "child")
    /\ child' = [child EXCEPT ![i] = "running"]
    /\ UNCHANGED <<clock, last, stops, package, claimed, local, ticket>>

\* execute_once: the package must be whole and the claim is exclusive.  The child goes
\* on when its service is killed.
ClaimTicket(i) ==
    /\ child[i] = "running"
    /\ IF Manifest \in package[ticket[i]] /\ ticket[i] \notin claimed
       THEN /\ claimed' = claimed \cup {ticket[i]}
            /\ child' = [child EXCEPT ![i] = "won"]
       ELSE child' = [child EXCEPT ![i] = "refused"] /\ UNCHANGED claimed
    /\ UNCHANGED <<clock, gate, last, stops, package, pc, local, ticket, answer>>

ChildEnds(i) ==
    /\ pc[i] = "child" /\ child[i] # "running"
    /\ \/ child[i] = "won" /\ Answer(i, "executed")
       \/ Answer(i, "refused")
    /\ UNCHANGED <<clock, last, stops, package, claimed, local, ticket, child>>

\* Mutant: the child is waited for without a deadline.
NoDeadline(i) ==
    /\ pc[i] = "child" /\ child[i] # "running"
    /\ Answer(i, "timeout")
    /\ UNCHANGED <<clock, last, stops, package, claimed, local, ticket, child>>

\* The deadline kills the child wherever it is.
Deadline(i) ==
    /\ pc[i] = "child"
    /\ Answer(i, "timeout")
    /\ child' = [child EXCEPT ![i] = IF @ = "running" THEN None ELSE @]
    /\ UNCHANGED <<clock, last, stops, package, claimed, local, ticket>>

-----------------------------------------------------------------------------
Working == {"light", "body", "issue", "sample", "stamp", "check", "exists", "replace",
            "launch", "child", "leave"}

\* The process dies and is started again; its control directories stay as they are.
Restart(s) ==
    /\ stops[s] < MaxStops
    /\ stops' = [stops EXCEPT ![s] = @ + 1]
    /\ active' = [active EXCEPT ![s] = 0]
    /\ loop' = [loop EXCEPT ![s] = None]
    /\ last' = [last EXCEPT ![s] = None]
    /\ pc' = [i \in Invocation |-> IF at[i] = s /\ pc[i] \in Working THEN "done" ELSE pc[i]]
    /\ UNCHANGED <<clock, package, claimed, local, ticket, child, answer>>

SetClock ==
    /\ clock' \in (0..MaxSecond) \ {clock}
    /\ UNCHANGED <<gate, last, stops, package, claimed, pc, local, ticket, child, answer>>

Write(i) == CheckPackage(i) \/ NoCapacity(i) \/ StageFile(i) \/ ReplaceFile(i)
Handle(i) ==
    \/ ReadLight(i) \/ BodyRead(i) \/ BodyFails(i) \/ Leave(i)
    \/ IssueAuthorization(i) \/ SampleTime(i) \/ StampTime(i) \/ Write(i)
    \/ LaunchChild(i) \/ ChildEnds(i) \/ Deadline(i)

Next ==
    \/ \E i \in Invocation : Handle(i) \/ ClaimTicket(i) \/ \E s \in Service : Arrive(i, s)
    \/ \E s \in Service : Restart(s)
    \/ SetClock

Spec == Init /\ [][Next]_vars

\* A running service goes on with what it admitted, and a body is completed or given up
\* by the client.  The child may hang for ever: the deadline is finite.
FairSpec == Spec /\ \A i \in Invocation : WF_vars(Handle(i))

-----------------------------------------------------------------------------
(* Properties *)

TypeOK ==
    /\ clock \in 0..MaxSecond
    /\ active \in [Service -> 0..Limit]
    /\ loop \in [Service -> Action \cup {None}]
    /\ last \in [Service -> Time \cup {None}]
    /\ stops \in [Service -> 0..MaxStops]
    /\ package \in [Ticket -> SUBSET (File \cup Invocation)]
    /\ claimed \subseteq Ticket
    /\ pc \in [Invocation -> Working \cup {"new", "done"}]
    /\ at \in [Invocation -> Service \cup {None}]
    /\ life \in [Invocation -> 0..MaxStops]
    /\ now \in [Invocation -> 0..MaxSecond]
    /\ ticket \in [Invocation -> Ticket \cup {None}]
    /\ next \in [Invocation -> 1..(Manifest + 1)]
    /\ child \in [Invocation -> Child \cup {None}]
    /\ answer \in [Invocation -> Reply \cup {None}]

Holds(i, s) == at[i] = s /\ i \in Action /\ pc[i] \in Working

\* The gate counts exactly the actions its service is working on, on every path out of
\* them, so that it admits neither too many nor, after a failure, too few.
GateCountsActions ==
    \A s \in Service : active[s] = Cardinality({i \in Invocation : Holds(i, s)})

\* Two local actions of one life of a service never get the same ticket, whatever the
\* clock does.
LocalActionsDistinct ==
    \A i, j \in Fetch :
        i # j /\ at[i] = at[j] /\ life[i] = life[j] /\ ticket[i] # None => ticket[i] # ticket[j]

\* A manifest stands for a complete package, wherever its writers were killed.
ManifestMeansWhole ==
    \A t \in Ticket : Manifest \in package[t] => File \subseteq package[t]

\* An invocation that was given a ticket, or had one executed, has its whole package;
\* a ticket is executed for one invocation only.
TicketsAreSingleUse ==
    \A i, j \in Invocation :
        /\ child[i] = "won" => File \subseteq package[ticket[i]]
        /\ answer[i] = "ticket" => File \subseteq package[ticket[i]]
        /\ child[i] = "won" /\ child[j] = "won" /\ i # j => ticket[i] # ticket[j]

\* A light read is not admitted by the gate but waits for the loop, which an action keeps
\* while its child runs: it is answered, or lost with its service.
ReadsAreAnswered == \A i \in Read : pc[i] = "light" ~> pc[i] = "done"
=============================================================================
