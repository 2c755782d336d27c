----------------------- MODULE ServiceLifecycleProofs -----------------------
(***************************************************************************)
(* Proofs about ServiceLifecycle for every set of commands and every       *)
(* number of crashes and failures.                                         *)
(***************************************************************************)
EXTENDS ServiceLifecycle, FiniteSetTheorems, TLAPS

\* The type of every variable, and one service on the port.
Types ==
    /\ owner \in Record \cup {None}
    /\ child \in [Starters -> {"none", "launched", "serving", "gone"}]
    /\ pc \in [Commands -> {"idle", "done", "crashed"} \cup Working]
    /\ \A c \in Stoppers : pc[c] \in {"idle", "done", "crashed"} \cup Stopping
    /\ seen \in [Commands -> Record \cup {None}]
    /\ target \in [Stoppers -> Starters \cup {None}]
    /\ result \in [Commands -> Results \cup {None}]
    /\ crashes \in 0 .. MaxCrashes /\ faults \in 0 .. MaxFaults

OnePort == \A c, d \in Starters : child[c] = "serving" /\ child[d] = "serving" => c = d

\* A stop that is about to signal has somebody to signal, one that judges has read a
\* record.
Targeted ==
    /\ \A c \in Stoppers : pc[c] = "signal" => target[c] \in Starters
    /\ \A c \in Commands : pc[c] = "judge" => seen[c] # None

TypeInv == Types /\ OnePort /\ Targeted

\* The invariant implies type correctness.
LEMMA TypeInvImpliesTypeOK == TypeInv => TypeOK
<1> SUFFICES ASSUME TypeInv PROVE TypeOK
  OBVIOUS
<1> DEFINE S == {c \in Starters : child[c] = "serving"}
<1>1. Cardinality(S) <= 1
  <2>1. CASE S = {}
    BY <2>1, FS_EmptySet
  <2>2. CASE S # {}
    <3>1. PICK c \in S : TRUE
      BY <2>2
    <3>2. S = {c}
      BY <3>1 DEF TypeInv, OnePort
    <3>3. Cardinality({c}) = 1
      BY FS_Singleton
    <3> HIDE DEF S
    <3> QED BY <3>2, <3>3
  <2> QED BY <2>1, <2>2
<1> QED BY <1>1 DEF TypeInv, Types, TypeOK

\* Nothing runs and nothing is served at the beginning.
LEMMA TypeInit == Init => TypeInv
BY LifecycleAssumption
   DEF Init, TypeInv, Types, OnePort, Targeted, Commands, Working, Starting, Stopping

\* Moving on and ending keep the types of pc and result.
LEMMA MoveType ==
    ASSUME TypeInv, NEW c \in Commands,
           \/ \E place \in Starting : Go(c, place) /\ c \in Starters
           \/ \E place \in Stopping : Go(c, place)
           \/ \E status \in Results : End(c, status)
    PROVE  /\ pc' \in [Commands -> {"idle", "done", "crashed"} \cup Working]
           /\ \A d \in Stoppers : pc'[d] \in {"idle", "done", "crashed"} \cup Stopping
           /\ result' \in [Commands -> Results \cup {None}]
           /\ \A d \in Commands : d # c => pc'[d] = pc[d] /\ result'[d] = result[d]
BY LifecycleAssumption DEF TypeInv, Types, Go, End, Working, Commands

\* Every step of a start keeps the invariant.
LEMMA StartType ==
    ASSUME TypeInv, NEW c \in Starters, Start(c) \/ LaunchFails(c)
                                          \/ IdentityUnavailable(c) \/ RecordFails(c)
    PROVE  TypeInv'
<1> USE DEF TypeInv
<1>0. c \in Commands /\ c \notin Stoppers
  BY LifecycleAssumption DEF Commands
<1>1. ASSUME \/ CheckPort(c) \/ ConfirmReservation(c)
             \/ PollChild(c) \/ Healthy(c) \/ NotYetHealthy(c) \/ GiveUp(c)
             \/ LaunchFails(c) \/ RecordFails(c)
      PROVE  TypeInv'
  <2>1. /\ \/ \E place \in Starting : Go(c, place)
           \/ \E status \in Results : End(c, status)
        /\ pc'[c] # "judge" /\ UNCHANGED <<owner, child, seen, target, crashes>>
        /\ faults' \in 0 .. MaxFaults
    BY <1>0, <1>1, LifecycleAssumption DEF Go, End, CheckPort, ConfirmReservation, PollChild, Healthy,
                NotYetHealthy, GiveUp, LaunchFails, RecordFails, Starting, Results, Types
  <2> QED BY <1>0, <2>1, MoveType DEF Types, OnePort, Targeted, Commands
<1>2. ASSUME UnlinkStale(c) \/ CreateReservation(c) \/ WriteReservation(c)
             \/ RecordService(c) \/ Discard(c) \/ DiscardAgain(c)
      PROVE  TypeInv'
  <2>1. /\ \/ \E place \in Starting : Go(c, place)
           \/ \E status \in Results : End(c, status)
        /\ pc'[c] # "judge" /\ UNCHANGED <<child, seen, target, crashes, faults>>
    BY <1>0, <1>2 DEF UnlinkStale, CreateReservation, WriteReservation, RecordService,
                Discard, DiscardAgain, Starting, Results, Go, End, Types
  <2>2. owner' \in Record \cup {None}
    BY <1>2 DEF UnlinkStale, CreateReservation, WriteReservation, RecordService,
                Discard, DiscardAgain, OwnFile, Record, Types
  <2> QED BY <1>0, <2>1, <2>2, MoveType DEF Types, OnePort, Targeted, Commands
<1>3. ASSUME Spawn(c) \/ IdentityUnavailable(c) \/ TerminateChild(c)
      PROVE  TypeInv'
  <2>1. /\ \E place \in Starting : Go(c, place)
        /\ pc'[c] # "judge" /\ UNCHANGED <<owner, seen, target, crashes>>
        /\ faults' \in 0 .. MaxFaults
    BY <1>0, <1>3, LifecycleAssumption
    DEF Spawn, IdentityUnavailable, TerminateChild, Starting, Go, Types
  <2>2. \E s \in {"launched", "gone"} : child' = [child EXCEPT ![c] = s]
    BY <1>3 DEF Spawn, IdentityUnavailable, TerminateChild
  <2> QED BY <1>0, <2>1, <2>2, MoveType DEF Types, OnePort, Targeted, Commands
<1>4. CASE ReadForStart(c)
  <2>1. /\ \E place \in Starting : Go(c, place)
        /\ UNCHANGED <<owner, child, target, crashes, faults>>
        /\ pc'[c] = "judge" => seen'[c] # None
        /\ seen' = [seen EXCEPT ![c] = owner]
    BY <1>0, <1>4 DEF ReadForStart, Starting, Go, Types
  <2>2. /\ seen' \in [Commands -> Record \cup {None}]
        /\ \A d \in Commands : d # c => seen'[d] = seen[d]
    BY <1>0, <2>1 DEF Types
  <2> QED BY <1>0, <2>1, <2>2, MoveType DEF Types, OnePort, Targeted, Commands
<1>5. CASE JudgeForStart(c)
  <2>1. /\ \/ \E place \in Starting : Go(c, place)
           \/ \E status \in Results : End(c, status)
        /\ pc'[c] # "judge" /\ UNCHANGED <<owner, child, target, crashes, faults>>
        /\ seen' = [seen EXCEPT ![c] = None]
    BY <1>0, <1>5 DEF JudgeForStart, Starting, Results, Go, End, Types
  <2>2. /\ seen' \in [Commands -> Record \cup {None}]
        /\ \A d \in Commands : d # c => seen'[d] = seen[d]
    BY <1>0, <2>1 DEF Types
  <2> QED BY <1>0, <2>1, <2>2, MoveType DEF Types, OnePort, Targeted, Commands
<1> QED BY <1>1, <1>2, <1>3, <1>4, <1>5 DEF Start

\* Every step of a stop keeps the invariant.
LEMMA StopType ==
    ASSUME TypeInv, NEW c \in Stoppers, Stop(c)
    PROVE  TypeInv'
<1> USE DEF TypeInv
<1>0. c \in Commands /\ c \notin Starters
  BY LifecycleAssumption DEF Commands
<1>1. CASE ReadForStop(c)
  <2>1. /\ \/ \E place \in Stopping : Go(c, place)
           \/ \E status \in Results : End(c, status)
        /\ pc'[c] # "signal" /\ UNCHANGED <<owner, child, target, crashes, faults>>
        /\ pc'[c] = "judge" => seen'[c] # None
        /\ seen' = seen \/ seen' = [seen EXCEPT ![c] = owner]
    BY <1>0, <1>1 DEF ReadForStop, Stopping, Results, Go, End, Types
  <2>2. /\ seen' \in [Commands -> Record \cup {None}]
        /\ \A d \in Commands : d # c => seen'[d] = seen[d]
    BY <1>0, <2>1 DEF Types
  <2> QED BY <1>0, <2>1, <2>2, MoveType DEF Types, OnePort, Targeted, Commands
<1>4. CASE JudgeForStop(c)
  <2>1. /\ \/ \E place \in Stopping : Go(c, place)
           \/ \E status \in Results : End(c, status)
        /\ pc'[c] # "judge" /\ UNCHANGED <<owner, child, crashes, faults>>
        /\ seen' = [seen EXCEPT ![c] = None]
    BY <1>0, <1>4 DEF JudgeForStop, Stopping, Results, Go, End, Types
  <2>2. /\ seen' \in [Commands -> Record \cup {None}]
        /\ \A d \in Commands : d # c => seen'[d] = seen[d]
    BY <1>0, <2>1 DEF Types
  <2>3. seen[c] \in Record
    BY <1>0, <1>4 DEF JudgeForStop, Targeted, Types
  <2>4. /\ target' \in [Stoppers -> Starters \cup {None}]
        /\ \A d \in Stoppers : d # c => target'[d] = target[d]
        /\ pc'[c] = "signal" => target'[c] \in Starters
    BY <1>0, <1>4, <2>3 DEF JudgeForStop, Go, End, Types, Record
  <2> QED BY <1>0, <2>1, <2>2, <2>4, MoveType DEF Types, OnePort, Targeted, Commands
<1>2. CASE Signal(c)
  <2>1. /\ \/ \E place \in Stopping : Go(c, place)
           \/ \E status \in Results : End(c, status)
        /\ pc'[c] \notin {"signal", "judge"}
        /\ UNCHANGED <<owner, seen, target, crashes, faults>>
    BY <1>0, <1>2 DEF Signal, Go, End, Stopping, Results, Types
  <2>2. child' = [child EXCEPT ![target[c]] = "gone"] /\ target[c] \in Starters
    BY <1>2 DEF Signal, Targeted
  <2> QED BY <1>0, <2>1, <2>2, MoveType DEF Types, OnePort, Targeted, Commands
<1>3. CASE DiscardAgain(c)
  <2>1. /\ \E status \in Results : End(c, status)
        /\ pc'[c] \notin {"signal", "judge"}
        /\ owner' = None
        /\ UNCHANGED <<child, seen, target, crashes, faults>>
    BY <1>0, <1>3 DEF DiscardAgain, End, Results, Types
  <2> QED BY <1>0, <2>1, MoveType DEF Types, OnePort, Targeted, Commands
<1> QED BY <1>1, <1>2, <1>3, <1>4 DEF Stop

\* The invariant is inductive.
LEMMA TypeStep == TypeInv /\ [Next]_vars => TypeInv'
<1> SUFFICES ASSUME TypeInv, [Next]_vars PROVE TypeInv'
  OBVIOUS
<1> USE DEF TypeInv
<1>1. ASSUME NEW c \in Starters, Start(c) \/ LaunchFails(c)
                                  \/ IdentityUnavailable(c) \/ RecordFails(c)
      PROVE  TypeInv'
  BY <1>1, StartType
<1>2. ASSUME NEW c \in Starters, Bind(c) \/ Exit(c)
      PROVE  TypeInv'
  BY <1>2 DEF Bind, Exit, PortOpen, Types, OnePort, Targeted
<1>3. ASSUME NEW c \in Stoppers, Stop(c)
      PROVE  TypeInv'
  BY <1>3, StopType
<1>4. ASSUME NEW c \in Commands, Crash(c)
      PROVE  TypeInv'
  BY <1>4, LifecycleAssumption DEF Crash, Types, OnePort, Targeted, Commands
<1>5. CASE UNCHANGED vars
  BY <1>5 DEF vars, Types, OnePort, Targeted
<1> QED BY <1>1, <1>2, <1>3, <1>4, <1>5 DEF Next

\* Type correctness, and at most one service on the port.
THEOREM TypeCorrect == Spec => []TypeOK
<1>1. Spec => []TypeInv
  BY TypeInit, TypeStep, PTL DEF Spec
<1> QED BY <1>1, TypeInvImpliesTypeOK, PTL
-----------------------------------------------------------------------------
(***************************************************************************)
(* Commands in order.  Who is about to write or unlink the ownership file  *)
(* has no live record of somebody else before it (Yields), and that stays  *)
(* so until it does: what a command judges is the record that is there     *)
(* (Reading), once a stop has read a record no start is on its way to      *)
(* reserve, and once it has judged it none is on its way to record a       *)
(* service (Settled), and one command works at a time from the second      *)
(* start on (Distinct).                                                    *)
(***************************************************************************)

\* The places of a start before its reservation is written, and before its service is
\* recorded.
Reserving == {"judge", "unlink", "port", "create", "write"}
Early == Reserving \cup {"confirm", "spawn", "record"}

Unreported == \A c \in Commands : pc[c] # "done" => result[c] = None

Distinct ==
    \/ FirstStart
    \/ \A c, d \in Commands : pc[c] \in Working /\ pc[d] \in Working => c = d

\* A record is that of a start that was given; a reservation has its content once it is
\* written, and a service is recorded when it is known.
Told(r) ==
    /\ pc[r.by] # "idle"
    /\ r.state # "created" => pc[r.by] \notin Reserving
    /\ r.state = "running" => pc[r.by] \notin Early

Authored == owner # None => Told(owner)

Reading ==
    \A c \in Commands : pc[c] = "judge" =>
        /\ owner \in {None, seen[c]}
        /\ Told(seen[c])
        /\ c \in Stoppers => seen[c].state # "created"

Settled ==
    \A t \in Stoppers : pc[t] \in Stopping =>
        /\ \E c \in Starters : pc[c] # "idle"
        /\ \A c \in Starters :
              pc[c] \notin Reserving /\ (pc[t] # "judge" => pc[c] \notin Early)

\* The service that a start waits for is recorded, or dead.
Recorded ==
    \A c \in Starters : pc[c] \in {"poll", "health"} =>
        owner = [state |-> "running", by |-> c] \/ ~ Alive(c)

\* A stop aims at the service that the file names.
Aimed ==
    \A t \in Stoppers : pc[t] = "signal" =>
        owner = None \/ owner = [state |-> "running", by |-> target[t]]

Yields ==
    \A c \in Commands : pc[c] \in Working \ {"signal", "judge"} =>
        owner = None \/ owner.by = c \/ ~ Live(owner)

OrderInv ==
    /\ Unreported /\ Distinct /\ Authored /\ Reading /\ Settled /\ Recorded /\ Aimed /\ Yields
    /\ StartedStaysStoppable

\* At the beginning nothing works and nothing was reported.
LEMMA OrderInit == Init => OrderInv
BY LifecycleAssumption
   DEF Init, OrderInv, Unreported, Distinct, FirstStart, Authored, Reading, Settled, Recorded, Aimed, Yields,
       StartedStaysStoppable, Alive, Commands, Working, Starting, Stopping

\* A step of a command.
Act(c) ==
    \/ c \in Starters /\ (Start(c) \/ LaunchFails(c) \/ IdentityUnavailable(c) \/ RecordFails(c))
    \/ c \in Stoppers /\ Stop(c)

\* A step moves one command, writes or removes one record, and revives no service.
LEMMA ActFacts ==
    ASSUME TypeInv, NEW c \in Commands, Act(c)
    PROVE  /\ pc[c] = "idle" \/ pc[c] \in Working
           /\ pc'[c] # "idle" /\ pc'[c] # pc[c]
           /\ pc'[c] # "done" => result'[c] = result[c]
           /\ \A d \in Commands : d # c => pc'[d] = pc[d] /\ result'[d] = result[d]
           /\ \A t \in Stoppers : t # c => target'[t] = target[t]
           /\ \A d \in Commands : d # c => seen'[d] = seen[d]
           /\ owner' # owner => pc[c] \in Working \ {"signal", "judge"}
           /\ owner' \notin {owner, None} =>
                /\ c \in Starters /\ pc[c] \in Early /\ owner'.by = c
                /\ owner'.state = "running" => pc'[c] = "poll"
                /\ pc[c] \in {"create", "write", "record"}
                /\ pc[c] = "record" => pc'[c] = "poll"
                /\ owner'.state # "created" => pc'[c] \notin Reserving
           /\ \A d \in Starters : Alive(d)' => Alive(d) \/ (d = c /\ pc[c] = "spawn")
           /\ c \in Starters => pc[c] # "signal"
<1>1. CASE c \in Starters
  <2>1. c \notin Stoppers
    BY <1>1, LifecycleAssumption
  <2>2. \/ \E place \in Starting : Go(c, place) /\ place # pc[c]
        \/ \E status \in Results : End(c, status)
    BY <1>1, <2>1
       DEF Act, Start, ReadForStart, JudgeForStart, UnlinkStale, CheckPort, CreateReservation, WriteReservation,
           ConfirmReservation, Spawn, RecordService, PollChild, Healthy, NotYetHealthy, GiveUp,
           TerminateChild, Discard, DiscardAgain, LaunchFails, IdentityUnavailable, RecordFails,
           Starting, Results
  <2>3. /\ pc[c] \in {"idle"} \cup Starting
        /\ target' = target
    BY <1>1, <2>1
       DEF Act, Start, ReadForStart, JudgeForStart, UnlinkStale, CheckPort, CreateReservation, WriteReservation,
           ConfirmReservation, Spawn, RecordService, PollChild, Healthy, NotYetHealthy, GiveUp,
           TerminateChild, Discard, DiscardAgain, LaunchFails, IdentityUnavailable, RecordFails,
           Starting
  <2>4. /\ owner' # owner => pc[c] \in Starting \ {"judge"}
        /\ owner' \notin {owner, None} =>
                /\ pc[c] \in Early /\ owner'.by = c
                /\ owner'.state = "running" => pc'[c] = "poll"
                /\ pc[c] \in {"create", "write", "record"}
                /\ pc[c] = "record" => pc'[c] = "poll"
                /\ owner'.state # "created" => pc'[c] \notin Reserving
    BY <1>1, <2>1
       DEF Act, Start, ReadForStart, JudgeForStart, UnlinkStale, CheckPort, CreateReservation, WriteReservation,
           ConfirmReservation, Spawn, RecordService, PollChild, Healthy, NotYetHealthy, GiveUp,
           TerminateChild, Discard, DiscardAgain, LaunchFails, IdentityUnavailable, RecordFails,
           Starting, Early, Reserving, OwnFile, Go, End, TypeInv, Types, Record, Commands
  <2>5. \/ child' = child
        \/ child' = [child EXCEPT ![c] = "launched"] /\ pc[c] = "spawn"
        \/ child' = [child EXCEPT ![c] = "gone"]
    BY <1>1, <2>1
       DEF Act, Start, ReadForStart, JudgeForStart, UnlinkStale, CheckPort, CreateReservation, WriteReservation,
           ConfirmReservation, Spawn, RecordService, PollChild, Healthy, NotYetHealthy, GiveUp,
           TerminateChild, Discard, DiscardAgain, LaunchFails, IdentityUnavailable, RecordFails
  <2>6. \A d \in Starters : Alive(d)' => Alive(d) \/ (d = c /\ pc[c] = "spawn")
    BY <1>1, <2>5 DEF Alive, TypeInv, Types
  <2>7. /\ pc'[c] # "idle" /\ pc'[c] # pc[c] /\ (pc'[c] # "done" => result'[c] = result[c])
        /\ \A d \in Commands : d # c => pc'[d] = pc[d] /\ result'[d] = result[d]
    BY <2>2, <2>3 DEF Go, End, TypeInv, Types, Starting
  <2>8. "signal" \notin Starting /\ Starting \subseteq Working
    BY DEF Starting, Working
  <2>9. seen' = seen \/ \E x : seen' = [seen EXCEPT ![c] = x]
    BY <1>1, <2>1
       DEF Act, Start, ReadForStart, JudgeForStart, UnlinkStale, CheckPort, CreateReservation,
           WriteReservation, ConfirmReservation, Spawn, RecordService, PollChild, Healthy,
           NotYetHealthy, GiveUp, TerminateChild, Discard, DiscardAgain, LaunchFails,
           IdentityUnavailable, RecordFails
  <2>10. \A d \in Commands : d # c => seen'[d] = seen[d]
    BY <2>9 DEF TypeInv, Types
  <2> QED BY <1>1, <2>3, <2>4, <2>6, <2>7, <2>8, <2>10
<1>2. CASE c \in Stoppers
  <2>1. c \notin Starters
    BY <1>2, LifecycleAssumption
  <2>2. \/ \E place \in Stopping : Go(c, place) /\ place # pc[c]
        \/ \E status \in Results : End(c, status)
    BY <1>2, <2>1 DEF Act, Stop, ReadForStop, JudgeForStop, Signal, DiscardAgain, Stopping, Results
  <2>3. /\ pc[c] \in {"idle"} \cup Stopping
        /\ owner' # owner => owner' = None /\ pc[c] = "discard_again"
        /\ target' = target \/ \E x : target' = [target EXCEPT ![c] = x]
        /\ seen' = seen \/ \E x : seen' = [seen EXCEPT ![c] = x]
        /\ child' = child \/ \E d : child' = [child EXCEPT ![d] = "gone"]
    BY <1>2, <2>1 DEF Act, Stop, ReadForStop, JudgeForStop, Signal, DiscardAgain, Stopping
  <2>4. /\ \A t \in Stoppers : t # c => target'[t] = target[t]
        /\ \A d \in Commands : d # c => seen'[d] = seen[d]
    BY <2>3 DEF TypeInv, Types
  <2>5. \A d \in Starters : Alive(d)' => Alive(d)
    BY <2>3 DEF Alive, TypeInv, Types
  <2>6. /\ pc'[c] # "idle" /\ pc'[c] # pc[c] /\ (pc'[c] # "done" => result'[c] = result[c])
        /\ \A d \in Commands : d # c => pc'[d] = pc[d] /\ result'[d] = result[d]
    BY <2>2, <2>3 DEF Go, End, TypeInv, Types, Stopping
  <2>7. Stopping \subseteq Working /\ "discard_again" \notin {"signal", "judge"}
    BY DEF Stopping, Working
  <2> QED BY <2>3, <2>4, <2>5, <2>6, <2>7, <1>2, <2>1 DEF Stopping
<1> QED BY <1>1, <1>2 DEF Commands

\* Where a start goes, and what it reports.
LEMMA StartFacts ==
    ASSUME TypeInv, NEW c \in Starters, Act(c)
    PROVE  /\ pc'[c] \in Early => pc[c] \in Early \cup {"idle"}
           /\ pc'[c] \in Reserving => pc[c] \in Reserving \cup {"idle"}
           /\ pc[c] = "idle" =>
                /\ owner' = owner /\ child' = child
                /\ pc'[c] # "judge" => owner = None
           /\ pc'[c] = "judge" => pc[c] = "idle" /\ seen'[c] = owner
           /\ pc[c] = "judge" =>
                /\ owner' = owner /\ child' = child
                /\ pc'[c] \in Working => ~ Live(seen[c])
           /\ pc'[c] \in {"poll", "health"} =>
                \/ owner' = [state |-> "running", by |-> c]
                \/ pc[c] \in {"poll", "health"} /\ owner' = owner
           /\ pc'[c] = "done" /\ result'[c] = "STARTED" =>
                pc[c] = "health" /\ owner' = owner /\ child' = child
<1>0. c \notin Stoppers /\ c \in Commands
  BY LifecycleAssumption DEF Commands
<1>1. ASSUME \/ UnlinkStale(c) \/ CheckPort(c) \/ CreateReservation(c)
             \/ WriteReservation(c) \/ ConfirmReservation(c) \/ Spawn(c)
             \/ LaunchFails(c) \/ IdentityUnavailable(c) \/ RecordFails(c)
             \/ GiveUp(c) \/ TerminateChild(c) \/ Discard(c) \/ DiscardAgain(c)
      PROVE  /\ pc'[c] \in Early => pc[c] \in Early
             /\ pc'[c] \in Reserving => pc[c] \in Reserving
             /\ pc[c] \notin {"idle", "judge"} /\ pc'[c] \notin {"judge", "poll", "health"}
             /\ pc'[c] = "done" => result'[c] # "STARTED"
  BY <1>0, <1>1
     DEF UnlinkStale, CheckPort, CreateReservation, WriteReservation, ConfirmReservation, Spawn,
         LaunchFails, IdentityUnavailable, RecordFails, GiveUp, TerminateChild, Discard,
         DiscardAgain, Early, Reserving, Go, End, TypeInv, Types
<1>2. CASE ReadForStart(c)
  BY <1>0, <1>2 DEF ReadForStart, Go, TypeInv, Types, Early, Reserving
<1>5. CASE JudgeForStart(c)
  BY <1>0, <1>5 DEF JudgeForStart, Go, End, TypeInv, Types, Early, Reserving, Working, Starting,
                    Stopping
<1>3. CASE RecordService(c) \/ PollChild(c) \/ NotYetHealthy(c)
  BY <1>0, <1>3 DEF RecordService, PollChild, NotYetHealthy, Go, TypeInv, Types, Early, Reserving
<1>4. CASE Healthy(c)
  BY <1>0, <1>4 DEF Healthy, End, TypeInv, Types, Early, Reserving
<1> QED BY <1>0, <1>1, <1>2, <1>3, <1>4, <1>5 DEF Act, Start

\* What a stop has read, what it has judged, and whom it has killed, when it goes on.
LEMMA StopFacts ==
    ASSUME TypeInv, NEW c \in Stoppers, Act(c)
    PROVE  /\ \A d \in Starters : pc'[d] = pc[d] /\ result'[d] = result[d]
           /\ pc[c] = "idle" /\ pc'[c] \in Stopping =>
                /\ owner' = owner /\ child' = child /\ owner # None
                /\ pc'[c] = "judge" /\ seen'[c] = owner /\ owner.state # "created"
           /\ pc'[c] = "judge" => pc[c] = "idle"
           /\ pc[c] = "judge" =>
                /\ owner' = owner /\ child' = child
                /\ pc'[c] \in Stopping =>
                      \/ /\ pc'[c] = "signal" /\ target'[c] = seen[c].by
                         /\ seen[c].state = "running" /\ Live(seen[c])
                      \/ pc'[c] = "discard_again" /\ ~ Live(seen[c])
           /\ pc'[c] = "signal" => pc[c] = "judge"
           /\ pc[c] \notin {"idle", "judge"} /\ pc'[c] \in Stopping =>
                /\ pc[c] = "signal" /\ pc'[c] = "discard_again"
                /\ owner' = owner /\ child'[target[c]] = "gone"
<1>0. c \notin Starters /\ c \in Commands
  BY LifecycleAssumption DEF Commands
<1>1. \A d \in Starters : pc'[d] = pc[d] /\ result'[d] = result[d]
  BY <1>0, ActFacts DEF Commands
<1>2. CASE ReadForStop(c)
  <2>1. pc[c] = "idle" /\ owner' = owner /\ child' = child
    BY <1>2 DEF ReadForStop
  <2>2. CASE pc'[c] \in Stopping
    <3>1. \A status : ~ End(c, status)
      BY <1>0, <2>2 DEF End, TypeInv, Types, Stopping
    <3>2. /\ owner # None /\ owner.state # "created" /\ Go(c, "judge")
          /\ seen' = [seen EXCEPT ![c] = owner]
      BY <1>2, <3>1 DEF ReadForStop
    <3> QED BY <1>0, <1>1, <2>1, <3>2 DEF Go, TypeInv, Types
  <2>3. CASE pc'[c] \notin Stopping
    BY <1>1, <2>1, <2>3 DEF Stopping
  <2> QED BY <2>2, <2>3
<1>5. CASE JudgeForStop(c)
  <2>1. pc[c] = "judge" /\ owner' = owner /\ child' = child
    BY <1>5 DEF JudgeForStop
  <2>2. CASE pc'[c] \in Stopping
    <3>1. \A status : ~ End(c, status)
      BY <1>0, <2>2 DEF End, TypeInv, Types, Stopping
    <3>2. \/ ~ Live(seen[c]) /\ Go(c, "discard_again")
          \/ /\ seen[c].state = "running" /\ Live(seen[c]) /\ Go(c, "signal")
             /\ target' = [target EXCEPT ![c] = seen[c].by]
      BY <1>5, <3>1 DEF JudgeForStop
    <3> QED BY <1>0, <1>1, <2>1, <3>2 DEF Go, TypeInv, Types
  <2>3. CASE pc'[c] \notin Stopping
    BY <1>1, <2>1, <2>3 DEF Stopping
  <2> QED BY <2>2, <2>3
<1>3. CASE Signal(c)
  <2>1. /\ pc[c] = "signal" /\ owner' = owner /\ target[c] \in Starters
        /\ child' = [child EXCEPT ![target[c]] = "gone"]
    BY <1>3 DEF Signal, TypeInv, Targeted
  <2>2. child'[target[c]] = "gone"
    BY <2>1 DEF TypeInv, Types
  <2>3. pc'[c] \in {"discard_again", "done"}
    BY <1>0, <1>3 DEF Signal, Go, End, TypeInv, Types
  <2> QED BY <1>1, <2>1, <2>2, <2>3 DEF Stopping
<1>4. CASE DiscardAgain(c)
  BY <1>0, <1>1, <1>4 DEF DiscardAgain, End, TypeInv, Types, Stopping
<1> QED BY <1>0, <1>2, <1>3, <1>4, <1>5 DEF Act, Stop

\* A step can disturb a record of a live creator or service only if it is its own.
LEMMA OnlyOwnLive ==
    ASSUME TypeInv, Yields, NEW c \in Commands, Act(c), owner # None, Live(owner), owner' # owner
    PROVE  owner.by = c
BY ActFacts DEF Yields

\* Two commands that overlap do so before a second start is given.
LEMMA Overlap ==
    ASSUME TypeInv, Distinct, Ordered, NEW c \in Commands, Act(c),
           NEW d \in Commands \ {c}, pc[d] \in Working
    PROVE  FirstStart'
<1>1. CASE pc[c] = "idle"
  BY <1>1, ActFacts DEF Ordered, Given, OneAtATime
<1>2. CASE pc[c] \in Working
  <2>1. FirstStart /\ pc[c] # "idle"
    BY <1>2 DEF Distinct, Working, Starting, Stopping
  <2> QED BY <2>1, ActFacts DEF FirstStart, Commands
<1> QED BY <1>1, <1>2, ActFacts

\* Beside a stop that has read a record, a start is past reserving, and writes no record.
LEMMA BesideStop ==
    ASSUME TypeInv, Distinct, Settled, Ordered, NEW c \in Starters, Act(c),
           NEW t \in Stoppers, pc[t] \in Stopping
    PROVE  /\ pc[c] \in Working \ Reserving
           /\ pc[t] # "judge" => pc[c] \notin Early
           /\ owner' \in {owner, None}
<1>1. c \in Commands /\ t \in Commands \ {c} /\ pc[t] \in Working
  BY LifecycleAssumption DEF Commands, Working
<1>2. FirstStart'
  BY <1>1, Overlap
<1>3. PICK d \in Starters : pc[d] # "idle"
  BY DEF Settled
<1>4. pc'[d] # "idle" /\ pc'[c] # "idle"
  BY <1>1, <1>3, ActFacts DEF Commands
<1>5. pc[c] # "idle"
  BY <1>2, <1>3, <1>4 DEF FirstStart
<1>6. pc[c] \in Working \ Reserving /\ (pc[t] # "judge" => pc[c] \notin Early)
  BY <1>1, <1>5, ActFacts DEF Settled
<1>7. ~ (pc[c] = "record" /\ pc'[c] = "poll")
  <2>1. CASE pc[t] = "judge"
    BY <2>1 DEF Ordered, Prompt, Judging
  <2>2. CASE pc[t] # "judge"
    BY <1>6, <2>2 DEF Early
  <2> QED BY <2>1, <2>2
<1>8. owner' \notin {owner, None} => pc[c] \in Reserving \/ (pc[c] = "record" /\ pc'[c] = "poll")
  BY <1>1, ActFacts DEF Reserving
<1> QED BY <1>6, <1>7, <1>8

\* What a command in order leaves to every other command, and to itself.
LEMMA YieldsStep ==
    ASSUME TypeInv, TypeInv', OrderInv, Authored', Ordered, NEW c \in Commands, Act(c)
    PROVE  Yields'
<1> SUFFICES ASSUME NEW d \in Commands, pc'[d] \in Working \ {"signal", "judge"},
                    owner' # None, owner'.by # d
             PROVE  ~ Live(owner)'
  BY DEF Yields, Live, Alive
<1>0. /\ owner'.by \in Starters /\ owner'.by \in Commands
      /\ owner # None => owner.by \in Starters /\ owner.by \in Commands
  BY DEF TypeInv, Types, Record, Commands
<1>1. CASE d # c
  <2>1. pc[d] \in Working \ {"signal", "judge"} /\ FirstStart' /\ pc'[d] # "idle"
    <3>1. pc'[d] = pc[d]
      BY <1>1, ActFacts
    <3>2. pc[d] \in Working /\ pc[d] # "idle"
      BY <3>1 DEF Working, Starting, Stopping
    <3> QED BY <1>1, <3>1, <3>2, Overlap DEF OrderInv
  <2>2. CASE d \in Starters
    <3>1. pc'[owner'.by] # "idle"
      BY DEF Authored, Told
    <3> QED BY <1>0, <2>1, <2>2, <3>1 DEF FirstStart
  <2>3. CASE d \in Stoppers
    <3>1. pc[d] \in Stopping /\ pc[d] # "judge" /\ d \notin Starters
      BY <2>1, <2>3, LifecycleAssumption DEF TypeInv, Types, Working, Starting, Stopping
    <3>2. c \in Starters => pc[c] \in Working \ Early
      BY <2>3, <3>1, BesideStop DEF OrderInv
    <3>7. "spawn" \in Early
      BY DEF Early
    <3>3. owner' = owner
      BY <3>2, ActFacts
    <3>4. ~ Live(owner)
      BY <1>0, <2>1, <3>1, <3>3 DEF OrderInv, Yields
    <3>5. Alive(owner.by)' => Alive(owner.by)
      BY <1>0, <3>2, <3>3, <3>7, ActFacts
    <3>6. pc'[owner.by] \in Working => pc[owner.by] \in Working
      <4>1. CASE owner.by = c
        BY <1>0, <3>2, <3>3, <4>1
      <4>2. CASE owner.by # c
        BY <1>0, <3>3, <4>2, ActFacts
      <4> QED BY <4>1, <4>2
    <3> QED BY <3>3, <3>4, <3>5, <3>6 DEF Live, Alive
  <2> QED BY <2>2, <2>3 DEF Commands
<1>2. CASE d = c
  <2>1. owner' = owner
    BY <1>2, ActFacts
  <2>2. CASE c \in Starters
    <3>1. ~ Live(owner)
      <4>1. CASE pc[c] = "idle"
        BY <1>2, <2>1, <2>2, <4>1, StartFacts
      <4>2. CASE pc[c] = "judge"
        <5>1. ~ Live(seen[c])
          BY <1>2, <2>2, <4>2, StartFacts
        <5>2. owner = seen[c]
          BY <2>1, <4>2 DEF OrderInv, Reading
        <5> QED BY <5>1, <5>2
      <4>3. CASE pc[c] \in Working \ {"judge"}
        <5>1. pc[c] # "signal"
          BY <2>2, ActFacts
        <5> QED BY <1>2, <2>1, <4>3, <5>1 DEF OrderInv, Yields
      <4> QED BY <4>1, <4>2, <4>3, ActFacts
    <3>2. pc'[owner.by] = pc[owner.by] /\ (Alive(owner.by)' => Alive(owner.by))
      BY <1>0, <1>2, <2>1, ActFacts
    <3> QED BY <2>1, <3>1, <3>2 DEF Live, Alive
  <2>3. CASE c \in Stoppers
    <3>1. pc'[c] \in Stopping /\ c \notin Starters
      BY <1>2, <2>3, LifecycleAssumption DEF TypeInv, Types, Working, Starting, Stopping
    <3>2. pc'[owner.by] = pc[owner.by] /\ (Alive(owner.by)' => Alive(owner.by))
      BY <1>0, <2>1, <3>1, ActFacts
    <3>3. CASE pc[c] \in {"idle", "judge"}
      <4>1. pc[c] = "judge" /\ ~ Live(seen[c])
        BY <1>2, <2>3, <3>1, <3>3, StopFacts
      <4>2. owner = seen[c]
        BY <2>1, <4>1 DEF OrderInv, Reading
      <4> QED BY <2>1, <3>2, <4>1, <4>2 DEF Live, Alive
    <3>4. CASE pc[c] \notin {"idle", "judge"}
      <4>1. pc[c] = "signal" /\ child'[target[c]] = "gone"
        BY <2>3, <3>1, <3>4, StopFacts
      <4>2. owner = [state |-> "running", by |-> target[c]]
        BY <2>1, <2>3, <4>1 DEF OrderInv, Aimed
      <4> QED BY <2>1, <4>1, <4>2 DEF Live, Alive
    <3> QED BY <3>3, <3>4
  <2> QED BY <2>2, <2>3 DEF Commands
<1> QED BY <1>1, <1>2

\* A step of a command given in order keeps the invariant.
LEMMA ActStep ==
    ASSUME TypeInv, TypeInv', OrderInv, Ordered, NEW c \in Commands, Act(c)
    PROVE  OrderInv'
<1>0. Starters \subseteq Commands /\ Stoppers \subseteq Commands /\ Stopping \subseteq Working
      /\ Starters \cap Stoppers = {}
  BY LifecycleAssumption DEF Commands, Working
<1>1. Unreported'
  BY ActFacts DEF OrderInv, Unreported, Working, Starting, Stopping
<1>2. Distinct'
  <2>1. CASE \E d \in Commands \ {c} : pc[d] \in Working
    BY <2>1, Overlap DEF OrderInv, Distinct
  <2>2. CASE ~ \E d \in Commands \ {c} : pc[d] \in Working
    BY <2>2, ActFacts DEF Distinct
  <2> QED BY <2>1, <2>2
<1>10. ASSUME NEW r \in Record, Told(r) PROVE Told(r)'
  <2>1. r.by \in Starters /\ pc[r.by] # "idle"
    BY <1>10 DEF Told, Record
  <2>2. CASE r.by = c
    BY <1>10, <2>1, <2>2, ActFacts, StartFacts DEF Told
  <2>3. CASE r.by # c
    BY <1>0, <1>10, <2>1, <2>3, ActFacts DEF Told
  <2> QED BY <2>2, <2>3
<1>3. Authored'
  <2> SUFFICES ASSUME owner' # None
               PROVE  Told(owner)'
    BY DEF Authored
  <2>1. CASE owner' = owner
    BY <1>10, <2>1 DEF OrderInv, Authored, TypeInv, Types, Told
  <2>2. CASE owner' # owner
    BY <2>2, ActFacts DEF Early, Reserving, Told
  <2> QED BY <2>1, <2>2
<1>11. Reading'
  <2> SUFFICES ASSUME NEW d \in Commands, pc'[d] = "judge"
               PROVE  /\ owner' \in {None, seen'[d]}
                      /\ Told(seen[d])'
                      /\ d \in Stoppers => seen'[d].state # "created"
    BY DEF Reading, Told
  <2>1. CASE d = c
    <3>1. pc[c] = "idle" /\ owner' = owner /\ seen'[c] = owner /\ owner \in Record
          /\ (c \in Stoppers => owner.state # "created")
      <4>1. CASE c \in Starters
        <5>1. pc[c] = "idle" /\ owner' = owner /\ seen'[c] = owner
          BY <2>1, <4>1, StartFacts
        <5>2. seen'[c] # None
          BY <2>1 DEF TypeInv, Targeted
        <5> QED BY <1>0, <4>1, <5>1, <5>2 DEF TypeInv, Types
      <4>2. CASE c \in Stoppers
        BY <2>1, <4>2, StopFacts DEF Stopping, TypeInv, Types
      <4> QED BY <4>1, <4>2 DEF Commands
    <3>2. Told(owner)
      BY <3>1, NoneAssumption DEF OrderInv, Authored
    <3>3. Told(owner)'
      BY <1>3, <3>1, NoneAssumption DEF Authored
    <3> QED BY <2>1, <3>1, <3>3 DEF Told
  <2>2. CASE d # c
    <3>1. pc[d] = "judge" /\ seen'[d] = seen[d] /\ seen[d] \in Record
      BY <2>2, ActFacts DEF TypeInv, Types, Targeted
    <3>2. /\ owner \in {None, seen[d]} /\ Told(seen[d])
          /\ d \in Stoppers => seen[d].state # "created"
      BY <3>1 DEF OrderInv, Reading
    <3>3. owner' \in {owner, None}
      <4>1. CASE c \in Stoppers
        BY <1>0, <4>1, ActFacts
      <4>2. CASE c \in Starters /\ d \in Stoppers
        BY <3>1, <4>2, BesideStop DEF OrderInv, Stopping
      <4>3. CASE c \in Starters /\ d \in Starters
        <5>1. "judge" \in Working /\ pc'[d] # "idle" /\ pc'[c] # "idle"
          BY ActFacts DEF Working, Starting
        <5>2. FirstStart'
          BY <2>2, <3>1, <5>1, Overlap DEF OrderInv
        <5> QED BY <2>2, <4>3, <5>1, <5>2 DEF FirstStart
      <4> QED BY <4>1, <4>2, <4>3 DEF Commands
    <3>4. Told(seen[d])'
      <4>1. PICK r \in Record : r = seen[d]
        BY <3>1
      <4>2. Told(r)'
        BY <1>10, <3>2, <4>1
      <4> QED BY <3>1, <4>1, <4>2 DEF Told
    <3> QED BY <3>1, <3>2, <3>3, <3>4
  <2> QED BY <2>1, <2>2
<1>4. Settled'
  <2> SUFFICES ASSUME NEW t \in Stoppers, pc'[t] \in Stopping
               PROVE  /\ \E d \in Starters : pc'[d] # "idle"
                      /\ \A d \in Starters :
                            pc'[d] \notin Reserving /\ (pc'[t] # "judge" => pc'[d] \notin Early)
    BY DEF Settled
  <2>0. /\ "idle" \notin Early /\ "idle" \notin Reserving
        /\ Reserving \subseteq Working /\ Early \subseteq Working
    BY DEF Early, Reserving, Working, Starting
  <2>1. CASE t # c
    <3>1. pc[t] \in Stopping /\ pc'[t] = pc[t]
      BY <1>0, <2>1, ActFacts
    <3>2. PICK d \in Starters : pc[d] # "idle"
      BY <3>1 DEF OrderInv, Settled
    <3>3. pc'[d] # "idle"
      BY <1>0, <3>2, ActFacts
    <3>4. ASSUME NEW e \in Starters
          PROVE  pc'[e] \notin Reserving /\ (pc[t] # "judge" => pc'[e] \notin Early)
      <4>1. CASE e = c
        <5>1. /\ pc[c] \in Working \ Reserving /\ (pc[t] # "judge" => pc[c] \notin Early)
              /\ "idle" \notin Working
          BY <3>1, <4>1, BesideStop DEF OrderInv, Working, Starting, Stopping
        <5> QED BY <4>1, <5>1, StartFacts
      <4>2. CASE e # c
        BY <1>0, <3>1, <4>2, ActFacts DEF OrderInv, Settled
      <4> QED BY <4>1, <4>2
    <3> QED BY <3>1, <3>3, <3>4
  <2>2. CASE t = c /\ pc[c] \notin {"idle", "judge"}
    BY <2>2, StopFacts DEF OrderInv, Settled, Stopping
  <2>3. CASE t = c /\ pc[c] = "idle"
    <3>1. /\ \A d \in Starters : pc'[d] = pc[d]
          /\ owner \in Record /\ owner.state # "created" /\ pc'[c] = "judge"
      BY <2>3, StopFacts DEF TypeInv, Types
    <3>2. owner.by \in Starters /\ pc[owner.by] # "idle" /\ pc[owner.by] \notin Reserving
      BY <3>1, NoneAssumption DEF OrderInv, Authored, Told, Record
    <3>3. ASSUME NEW d \in Starters PROVE pc[d] \notin Reserving
      <4>1. OneAtATime \/ FirstStart'
        BY <1>0, <2>3, ActFacts DEF Ordered, Given
      <4>2. CASE OneAtATime
        BY <1>0, <2>0, <4>2 DEF OneAtATime
      <4>3. CASE FirstStart'
        BY <2>0, <3>1, <3>2, <4>3 DEF FirstStart
      <4> QED BY <4>1, <4>2, <4>3
    <3> QED BY <2>3, <3>1, <3>2, <3>3
  <2>4. CASE t = c /\ pc[c] = "judge"
    <3>1. /\ \A d \in Starters : pc'[d] = pc[d]
          /\ pc[c] \in Stopping /\ c \in Stoppers /\ seen[c] \in Record
          /\ ~ Live(seen[c]) \/ seen[c].state = "running"
      BY <2>4, StopFacts DEF Stopping, TypeInv, Types, Targeted
    <3>2. /\ \E d \in Starters : pc[d] # "idle"
          /\ \A d \in Starters : pc[d] \notin Reserving
      BY <3>1 DEF OrderInv, Settled
    <3>3. seen[c].by \in Starters /\ pc[seen[c].by] # "idle" /\ pc[seen[c].by] \notin Early
      <4>1. Told(seen[c]) /\ seen[c].state # "created" /\ seen[c].by \in Starters
        BY <2>4, <3>1 DEF OrderInv, Reading, Record
      <4>2. CASE seen[c].state = "running"
        BY <4>1, <4>2 DEF Told
      <4>3. CASE seen[c].state # "running"
        <5>1. seen[c].state = "starting"
          BY <3>1, <4>1, <4>3 DEF Record
        <5>2. pc[seen[c].by] \notin Working
          BY <3>1, <5>1 DEF Live
        <5> QED BY <2>0, <4>1, <5>2 DEF Told
      <4> QED BY <4>2, <4>3
    <3>4. ASSUME NEW d \in Starters PROVE pc[d] \notin Early
      <4>1. CASE FirstStart
        BY <2>0, <3>3, <4>1 DEF FirstStart
      <4>2. CASE \A x, y \in Commands : pc[x] \in Working /\ pc[y] \in Working => x = y
        BY <1>0, <2>0, <3>1, <4>2
      <4> QED BY <4>1, <4>2 DEF OrderInv, Distinct
    <3> QED BY <2>4, <3>1, <3>2, <3>4
  <2> QED BY <2>1, <2>2, <2>3, <2>4
<1>5. ASSUME NEW d \in Starters, d # c, Alive(d), owner = [state |-> "running", by |-> d]
      PROVE  owner' = owner
  <2>1. owner # None /\ Live(owner) /\ owner.by = d
    BY <1>5, NoneAssumption DEF Live, Record
  <2> QED BY <1>5, <2>1, OnlyOwnLive DEF OrderInv
<1>6. Recorded'
  <2> SUFFICES ASSUME NEW d \in Starters, pc'[d] \in {"poll", "health"}, Alive(d)'
               PROVE  owner' = [state |-> "running", by |-> d]
    BY DEF Recorded, Alive
  <2>1. CASE d = c
    <3>1. \/ owner' = [state |-> "running", by |-> c]
          \/ pc[c] \in {"poll", "health"} /\ owner' = owner
      BY <2>1, StartFacts
    <3>2. pc[c] \in {"poll", "health"} => Alive(c)
      BY <2>1, ActFacts
    <3> QED BY <2>1, <3>1, <3>2 DEF OrderInv, Recorded
  <2>2. CASE d # c
    <3>1. pc[d] \in {"poll", "health"} /\ Alive(d)
      BY <1>0, <2>2, ActFacts
    <3> QED BY <1>5, <2>2, <3>1 DEF OrderInv, Recorded
  <2> QED BY <2>1, <2>2
<1>7. Aimed'
  <2> SUFFICES ASSUME NEW t \in Stoppers, pc'[t] = "signal", owner' # None
               PROVE  owner' = [state |-> "running", by |-> target'[t]]
    BY DEF Aimed
  <2>1. "signal" \in Stopping
    BY DEF Stopping
  <2>2. CASE t = c
    <3>1. /\ pc[c] = "judge" /\ owner' = owner /\ target'[c] = seen[c].by
          /\ seen[c].state = "running"
      BY <2>1, <2>2, StopFacts
    <3>2. owner = seen[c] /\ owner \in Record
      BY <3>1, <2>2 DEF OrderInv, Reading, TypeInv, Types
    <3> QED BY <2>2, <3>1, <3>2 DEF Record
  <2>3. CASE t # c
    <3>1. pc[t] = "signal" /\ target'[t] = target[t]
      BY <1>0, <2>3, ActFacts
    <3>2. c \in Starters => pc[c] \notin Early
      BY <2>1, <3>1, BesideStop DEF OrderInv
    <3>3. owner' = owner
      BY <3>2, ActFacts
    <3> QED BY <3>1, <3>3 DEF OrderInv, Aimed
  <2> QED BY <2>2, <2>3
<1>8. Yields'
  BY <1>3, YieldsStep
<1>9. StartedStaysStoppable'
  <2> SUFFICES ASSUME NEW d \in Starters, result'[d] = "STARTED", Alive(d)'
               PROVE  owner' = [state |-> "running", by |-> d]
    BY DEF StartedStaysStoppable, Alive
  <2>1. CASE d = c
    <3>1. pc'[c] = "done"
      BY <1>1, <2>1, NoneAssumption DEF Unreported, Results
    <3>2. pc[c] = "health" /\ owner' = owner /\ child' = child
      BY <2>1, <3>1, StartFacts
    <3> QED BY <2>1, <3>2 DEF OrderInv, Recorded, Alive
  <2>2. CASE d # c
    <3>1. result[d] = "STARTED" /\ Alive(d)
      BY <1>0, <2>2, ActFacts
    <3> QED BY <1>5, <2>2, <3>1 DEF OrderInv, StartedStaysStoppable
  <2> QED BY <2>1, <2>2
<1> QED BY <1>1, <1>2, <1>3, <1>4, <1>6, <1>7, <1>8, <1>9, <1>11 DEF OrderInv

\* The invariant is inductive.
LEMMA OrderStep ==
    ASSUME TypeInv, OrderInv, [Next /\ Ordered]_vars
    PROVE  OrderInv'
<1>1. ASSUME NEW c \in Commands, Act(c), Ordered PROVE OrderInv'
  <2>1. TypeInv'
    BY TypeStep
  <2> QED BY <1>1, <2>1, ActStep
<1>2. ASSUME NEW c \in Starters, Bind(c) \/ Exit(c)
      PROVE  OrderInv'
  <2>1. /\ UNCHANGED <<owner, pc, seen, target, result>>
        /\ \A d \in Starters : Alive(d)' => Alive(d)
    BY <1>2 DEF Bind, Exit, Alive, TypeInv, Types
  <2>2. /\ (Unreported /\ Distinct /\ Authored /\ Reading /\ Settled /\ Aimed)'
    BY <2>1 DEF OrderInv, Unreported, Distinct, FirstStart, Authored, Told, Reading, Settled, Aimed
  <2>3. Recorded' /\ StartedStaysStoppable'
    BY <2>1 DEF OrderInv, Recorded, StartedStaysStoppable
  <2>4. Yields'
    <3>1. owner # None => owner.by \in Starters
      BY DEF TypeInv, Types, Record
    <3> QED BY <2>1, <3>1 DEF OrderInv, Yields, Live
  <2> QED BY <2>2, <2>3, <2>4 DEF OrderInv
<1>3. ASSUME NEW c \in Commands, Crash(c)
      PROVE  OrderInv'
  <2>1. /\ UNCHANGED <<owner, child, seen, target, result>>
        /\ pc[c] \in Working /\ pc' = [pc EXCEPT ![c] = "crashed"]
    BY <1>3 DEF Crash
  <2>2. /\ "crashed" \notin Working \cup Early \cup Stopping
        /\ pc[c] \notin {"idle", "done"}
    BY <2>1 DEF Working, Starting, Stopping, Early, Reserving
  <2>3. /\ \A d \in Commands : pc'[d] = pc[d] \/ (d = c /\ pc'[d] = "crashed")
        /\ pc'[c] = "crashed"
    BY <2>1 DEF TypeInv, Types
  <2>4. Unreported' /\ Distinct'
    BY <2>1, <2>2, <2>3 DEF OrderInv, Unreported, Distinct, FirstStart, Commands
  <2>5. Authored' /\ Settled' /\ Reading'
    <3>1. \A r \in Record : r.by \in Commands
      BY DEF Record, Commands
    <3>2. "crashed" \notin Reserving /\ "crashed" # "judge"
      BY DEF Reserving
    <3>3. \A r \in Record : Told(r) => Told(r)'
      BY <2>2, <2>3, <3>1, <3>2 DEF Told
    <3>4. Authored'
      BY <2>1, <3>3 DEF OrderInv, Authored, Told, TypeInv, Types
    <3>5. Settled'
      BY <2>1, <2>2, <2>3, <3>2 DEF OrderInv, Settled, Commands
    <3>6. Reading'
      <4> SUFFICES ASSUME NEW d \in Commands, pc'[d] = "judge"
                   PROVE  /\ owner' \in {None, seen'[d]}
                          /\ Told(seen[d])'
                          /\ d \in Stoppers => seen'[d].state # "created"
        BY DEF Reading, Told
      <4>1. pc[d] = "judge" /\ seen[d] \in Record /\ seen'[d] = seen[d] /\ owner' = owner
        BY <2>1, <2>3, <3>2 DEF TypeInv, Types, Targeted
      <4>2. PICK r \in Record : r = seen[d]
        BY <4>1
      <4>3. Told(r)'
        BY <3>3, <4>1, <4>2 DEF OrderInv, Reading
      <4> QED BY <4>1, <4>2, <4>3 DEF OrderInv, Reading, Told
    <3> QED BY <3>4, <3>5, <3>6
  <2>6. Recorded' /\ Aimed' /\ StartedStaysStoppable'
    BY <2>1, <2>3 DEF OrderInv, Recorded, Aimed, StartedStaysStoppable, Alive, Commands
  <2>7. Yields'
    <3>1. owner # None => owner.by \in Commands
      BY DEF TypeInv, Types, Record, Commands
    <3> QED BY <2>1, <2>2, <2>3, <3>1 DEF OrderInv, Yields, Live, Alive
  <2> QED BY <2>4, <2>5, <2>6, <2>7 DEF OrderInv
<1>4. CASE UNCHANGED vars
  BY <1>4 DEF vars, OrderInv, Unreported, Distinct, FirstStart, Authored, Told, Reading, Settled,
              Recorded, Aimed,
              Yields, Live, StartedStaysStoppable, Alive
<1>5. Next => \/ \E c \in Commands : Act(c) \/ Crash(c)
              \/ \E c \in Starters : Bind(c) \/ Exit(c)
  BY DEF Next, Act, Commands
<1> QED BY <1>1, <1>2, <1>3, <1>4, <1>5

\* Until a second start is given stops may come at any moment, unless one has read the
\* file and not judged it yet when the start records its service; after it commands come
\* one at a time.  Then a service that was reported as started is named by the ownership
\* file as long as it lives, whatever command is killed and whatever call fails.
THEOREM OrderedStaysStoppable == OrderedSpec => []StartedStaysStoppable
<1>1. Init => TypeInv /\ OrderInv
  BY TypeInit, OrderInit
<1>2. TypeInv /\ OrderInv /\ [Next /\ Ordered]_vars => (TypeInv /\ OrderInv)'
  BY TypeStep, OrderStep
<1>3. OrderInv => StartedStaysStoppable
  BY DEF OrderInv
<1> QED BY <1>1, <1>2, <1>3, PTL DEF OrderedSpec

\* In the same order, nobody but the command that wrote it changes the record of a live
\* creator or of a live service.
THEOREM OrderedKeepsLiveRecords == OrderedSpec => LiveRecordKept
<1>1. Init => TypeInv /\ OrderInv
  BY TypeInit, OrderInit
<1>2. TypeInv /\ OrderInv /\ [Next /\ Ordered]_vars => (TypeInv /\ OrderInv)'
  BY TypeStep, OrderStep
<1>3. ASSUME TypeInv, OrderInv, [Next /\ Ordered]_vars
      PROVE  [owner # None /\ Live(owner) /\ owner' # owner => pc'[owner.by] # pc[owner.by]]_vars
  <2>1. ASSUME NEW c \in Commands, Act(c), owner # None, Live(owner), owner' # owner
        PROVE  pc'[owner.by] # pc[owner.by]
    BY <1>3, <2>1, OnlyOwnLive, ActFacts DEF OrderInv
  <2>2. Next => \/ \E c \in Commands : Act(c) \/ Crash(c)
                \/ \E c \in Starters : Bind(c) \/ Exit(c)
    BY DEF Next, Act, Commands
  <2>3. ASSUME \/ \E c \in Commands : Crash(c)
               \/ \E c \in Starters : Bind(c) \/ Exit(c)
        PROVE  owner' = owner
    BY <2>3 DEF Crash, Bind, Exit
  <2> QED BY <1>3, <2>1, <2>2, <2>3 DEF vars
<1> QED BY <1>1, <1>2, <1>3, PTL DEF OrderedSpec, LiveRecordKept
=============================================================================
