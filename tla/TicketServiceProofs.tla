------------------------ MODULE TicketServiceProofs ------------------------
(***************************************************************************)
(* Proofs about TicketService for every number of services, invocations,   *)
(* artifacts and restarts, and every wall clock.                           *)
(***************************************************************************)
EXTENDS TicketService, FiniteSetTheorems, TLAPS

Steps == Working \cup {"new", "done"}

Types ==
    /\ clock \in 0..MaxSecond
    /\ active \in [Service -> Int]
    /\ loop \in [Service -> Action \cup {None}]
    /\ last \in [Service -> Time \cup {None}]
    /\ stops \in [Service -> 0..MaxStops]
    /\ package \in [Ticket -> SUBSET (File \cup Invocation)]
    /\ claimed \subseteq Ticket
    /\ pc \in [Invocation -> Steps]
    /\ at \in [Invocation -> Service \cup {None}]
    /\ life \in [Invocation -> 0..MaxStops]
    /\ now \in [Invocation -> 0..MaxSecond]
    /\ ticket \in [Invocation -> Ticket \cup {None}]
    /\ next \in [Invocation -> 1..(Manifest + 1)]
    /\ child \in [Invocation -> Child \cup {None}]
    /\ answer \in [Invocation -> Reply \cup {None}]

\* Where an invocation can be, and what it has by then.
Placed(i) ==
    /\ pc[i] \in Working => at[i] \in Service /\ life[i] = stops[at[i]]
    /\ pc[i] = "light" => i \in Read
    /\ pc[i] \in Working \ {"light"} => i \in Action
    /\ pc[i] \in {"sample", "stamp", "launch"} => i \in Fetch
    /\ pc[i] = "issue" => i \in Authorize
    /\ pc[i] \notin {"child", "leave", "done"} => child[i] = None
    /\ pc[i] \notin {"leave", "done"} => answer[i] = None
    /\ pc[i] \in {"new", "light", "body", "issue", "sample", "stamp", "check"} => next[i] = 1
    /\ pc[i] \in {"exists", "replace"} => next[i] \in File

\* Who writes, executes or has executed has a ticket.
Ticketed(i) ==
    \/ pc[i] \in {"check", "exists", "replace", "launch", "child"}
    \/ child[i] # None
    \/ answer[i] = "ticket"
    => ticket[i] \in Ticket

\* The files that a writer has behind it are in its package, and so is the whole package
\* of a ticket that was given or claimed.
Written(i) ==
    /\ pc[i] \in {"exists", "replace"} => 1..(next[i] - 1) \subseteq package[ticket[i]]
    /\ answer[i] = "ticket" => File \subseteq package[ticket[i]]
    /\ child[i] = "won" => ticket[i] \in claimed /\ File \subseteq package[ticket[i]]

\* The local actions of the present life of a service were stamped up to its last time.
Stamped(i) ==
    i \in Fetch /\ ticket[i] # None =>
        /\ ticket[i] \in Ticket /\ at[i] \in Service /\ life[i] <= stops[at[i]]
        /\ life[i] = stops[at[i]] => last[at[i]] \in Time /\ NotAfter(ticket[i].time, last[at[i]])
        /\ pc[i] \notin {"new", "light", "body", "sample", "stamp"}

InvocationInv(i) == Placed(i) /\ Ticketed(i) /\ Written(i) /\ Stamped(i)

OneWinner ==
    \A i, j \in Invocation :
        child[i] = "won" /\ child[j] = "won" /\ i # j => ticket[i] # ticket[j]

Gate == \A s \in Service : active[s] <= Limit

Inv == /\ Types
       /\ \A i \in Invocation : InvocationInv(i)
       /\ OneWinner /\ LocalActionsDistinct /\ ManifestMeansWhole
       /\ Gate /\ GateCountsActions

-----------------------------------------------------------------------------
(* Data *)

LEMMA Bounds ==
    /\ Artifacts \in Nat \ {0} /\ Manifest = Artifacts + 1 /\ Manifest \in File /\ 1 \in File
    /\ File \subseteq 1..(Manifest + 1) /\ 1 \in 1..(Manifest + 1)
    /\ Invocation \cap File = {}
    /\ 0 \in 0..MaxSecond /\ 0 \in 0..MaxStops /\ 0 \in 0..MaxMicro
BY TicketServiceAssumption DEF Manifest, File

\* The routes are distinct.
LEMMA Routes ==
    /\ Authorize \subseteq Action /\ Fetch \subseteq Action /\ Execute \subseteq Action
    /\ Action \subseteq Invocation /\ Read \subseteq Invocation
    /\ \A i \in Action : i \notin Read
    /\ \A i \in Authorize : i \notin Fetch
BY TicketServiceAssumption DEF Action, Invocation

\* Times are totally ordered.
LEMMA TimeOrder ==
    /\ \A t \in Time : t[1] \in Nat /\ t[2] \in Nat /\ t = <<t[1], t[2]>>
    /\ \A t \in Time : NotAfter(t, t)
    /\ \A t, u, v \in Time : NotAfter(t, u) /\ NotAfter(u, v) => NotAfter(t, v)
    /\ \A t, u \in Time : NotAfter(t, u) \/ NotAfter(u, t)
<1>1. \A t \in Time : t[1] \in Nat /\ t[2] \in Nat /\ t = <<t[1], t[2]>>
  BY TicketServiceAssumption DEF Time
<1> QED BY <1>1 DEF NotAfter

\* The next time is later than the last one and not before the sampled one.
LEMMA NextTimeLater ==
    ASSUME Types, NEW s \in Service, NEW t \in Time, NextTime(s, t) \in Time
    PROVE  last[s] # None => /\ NotAfter(last[s], NextTime(s, t))
                             /\ ~NotAfter(NextTime(s, t), last[s])
<1>1. ASSUME last[s] # None PROVE last[s] \in Time
  BY <1>1 DEF Types
<1>2. CASE last[s] # None /\ NotAfter(t, last[s])
  BY <1>1, <1>2, TimeOrder DEF NextTime, NotAfter
<1>3. CASE last[s] # None /\ ~NotAfter(t, last[s])
  BY <1>1, <1>3, TimeOrder DEF NextTime
<1> QED BY <1>2, <1>3

\* Nobody has arrived at the beginning.
LEMMA InvInit == Init => Inv
<1> SUFFICES ASSUME Init PROVE Inv
  OBVIOUS
<1>1. Types
  BY Bounds, TicketServiceAssumption DEF Init, Types, Steps
<1>2. ASSUME NEW i \in Invocation PROVE InvocationInv(i)
  BY NoneAssumption DEF Init, InvocationInv, Placed, Ticketed, Written, Stamped, Working, Child,
     Reply
<1>3. OneWinner /\ LocalActionsDistinct /\ ManifestMeansWhole
  BY NoneAssumption, Routes DEF Init, OneWinner, LocalActionsDistinct, ManifestMeansWhole, Child
<1>4. Gate /\ GateCountsActions
  <2>1. \A s \in Service : {i \in Invocation : Holds(i, s)} = {}
    BY DEF Init, Holds, Working
  <2>2. \A s \in Service : active[s] = 0
    BY DEF Init
  <2>3. Gate
    BY <2>2, TicketServiceAssumption DEF Gate
  <2>4. Cardinality({}) = 0
    BY FS_EmptySet
  <2> QED BY <2>1, <2>2, <2>3, <2>4 DEF GateCountsActions
<1> QED BY <1>1, <1>2, <1>3, <1>4 DEF Inv

-----------------------------------------------------------------------------
(* A step of one invocation beside the others *)

Act(i) == Handle(i) \/ ClaimTicket(i) \/ \E s \in Service : Arrive(i, s)

\* An invocation changes its own variables only.
LEMMA OthersStay ==
    ASSUME Types, NEW i \in Invocation, Act(i), NEW j \in Invocation, j # i
    PROVE  /\ pc'[j] = pc[j] /\ at'[j] = at[j] /\ life'[j] = life[j] /\ next'[j] = next[j]
           /\ ticket'[j] = ticket[j] /\ child'[j] = child[j] /\ answer'[j] = answer[j]
BY DEF Types, Act, Handle, ClaimTicket, Arrive, ReadLight, BodyRead, BodyFails, Leave,
       IssueAuthorization, SampleTime, StampTime, Write, CheckPackage, NoCapacity, StageFile,
       ReplaceFile, LaunchChild, ChildEnds, Deadline, Go, Keep, Answer, Issue, local

\* Files stay in their packages, and only a stamp moves the last time of a service.
LEMMA SharedStays ==
    ASSUME Types, NEW i \in Invocation, Act(i)
    PROVE  /\ UNCHANGED <<clock, stops>> /\ claimed \subseteq claimed'
           /\ \A t \in Ticket : package[t] \cap File \subseteq package'[t]
           /\ UNCHANGED last \/ StampTime(i)
<1>1. CASE StageFile(i)
  BY <1>1 DEF StageFile, Types, local
<1>2. CASE ReplaceFile(i)
  BY <1>2, Bounds DEF ReplaceFile, Types
<1>3. CASE ClaimTicket(i)
  BY <1>3 DEF ClaimTicket, local
<1>4. CASE ~StageFile(i) /\ ~ReplaceFile(i) /\ ~ClaimTicket(i)
  <2>1. UNCHANGED <<clock, stops, claimed, package>> /\ (UNCHANGED last \/ StampTime(i))
    BY <1>4 DEF Act, Handle, Arrive, ReadLight, BodyRead, BodyFails, Leave,
       IssueAuthorization, SampleTime, StampTime, Write, CheckPackage, NoCapacity,
       LaunchChild, ChildEnds, Deadline
  <2> QED BY <2>1
<1> QED BY <1>1, <1>2, <1>3, <1>4

\* A step leaves what was said about another invocation.
LEMMA OthersKept ==
    ASSUME Inv, NEW i \in Invocation, Act(i), NEW j \in Invocation, j # i,
           StampTime(i) => /\ at[i] \in Service
                           /\ last' = [last EXCEPT ![at[i]] = NextTime(at[i], <<now[i], 0>>)]
                           /\ NextTime(at[i], <<now[i], 0>>) \in Time
                           /\ last[at[i]] # None =>
                                  NotAfter(last[at[i]], NextTime(at[i], <<now[i], 0>>))
    PROVE  InvocationInv(j)'
<1>1. Types /\ InvocationInv(j)
  BY DEF Inv
<1>2. /\ pc'[j] = pc[j] /\ at'[j] = at[j] /\ life'[j] = life[j] /\ next'[j] = next[j]
      /\ ticket'[j] = ticket[j] /\ child'[j] = child[j] /\ answer'[j] = answer[j]
  BY <1>1, OthersStay
<1>3. /\ UNCHANGED stops /\ claimed \subseteq claimed'
      /\ \A t \in Ticket : package[t] \cap File \subseteq package'[t]
  BY <1>1, SharedStays
<1>4. Placed(j)' /\ Ticketed(j)'
  BY <1>1, <1>2, <1>3 DEF InvocationInv, Placed, Ticketed
<1>5. Written(j)'
  <2>1. pc[j] \in {"exists", "replace"} => 1..(next[j] - 1) \subseteq File
    BY <1>1, Bounds DEF InvocationInv, Placed, File
  <2>2. /\ pc[j] \in {"exists", "replace"} => ticket[j] \in Ticket
        /\ answer[j] = "ticket" \/ child[j] = "won" => ticket[j] \in Ticket
    BY <1>1, NoneAssumption DEF InvocationInv, Ticketed, Child
  <2> QED BY <1>1, <1>2, <1>3, <2>1, <2>2 DEF InvocationInv, Written
<1>6. Stamped(j)'
  <2>1. SUFFICES ASSUME j \in Fetch, ticket[j] # None, life[j] = stops[at[j]]
                 PROVE  last'[at[j]] \in Time /\ NotAfter(ticket[j].time, last'[at[j]])
    BY <1>1, <1>2, <1>3 DEF InvocationInv, Stamped
  <2>2. /\ ticket[j] \in Ticket /\ at[j] \in Service /\ last[at[j]] \in Time
        /\ NotAfter(ticket[j].time, last[at[j]])
    BY <1>1, <2>1 DEF InvocationInv, Stamped
  <2>3. CASE UNCHANGED last
    BY <2>2, <2>3
  <2>4. CASE StampTime(i) /\ at[i] # at[j]
    BY <1>1, <2>2, <2>4 DEF Types
  <2>5. CASE StampTime(i) /\ at[i] = at[j]
    <3>1. last'[at[j]] = NextTime(at[i], <<now[i], 0>>)
      BY <1>1, <2>2, <2>5 DEF Types
    <3>2. NotAfter(last[at[j]], last'[at[j]]) /\ last'[at[j]] \in Time
      BY <2>2, <2>5, <3>1, NoneAssumption
    <3>3. ticket[j].time \in Time
      BY <2>2 DEF Ticket
    <3> QED BY <2>2, <3>2, <3>3, TimeOrder
  <2> QED BY <1>1, <2>3, <2>4, <2>5, SharedStays
<1> QED BY <1>4, <1>5, <1>6 DEF InvocationInv

-----------------------------------------------------------------------------
(* The invocation that takes the step *)

\* The handler goes on, or has its answer.
LEMMA KeepFacts ==
    ASSUME Types, NEW i \in Invocation, NEW s \in Steps, Keep(i, s)
    PROVE  /\ pc' \in [Invocation -> Steps] /\ pc'[i] = s
           /\ UNCHANGED <<answer, active, loop>>
BY DEF Types, Keep, Go, gate

LEMMA AnswerFacts ==
    ASSUME Types, NEW i \in Invocation, NEW a \in Reply, Answer(i, a)
    PROVE  /\ pc' \in [Invocation -> Steps] /\ pc'[i] = "leave"
           /\ answer' \in [Invocation -> Reply \cup {None}] /\ answer'[i] = a
           /\ loop' \in [Service -> Action \cup {None}] /\ UNCHANGED active
BY DEF Types, Answer, Steps, Working

\* An answer other than a ticket ends an invocation without a winning child.
LEMMA RefusedInv ==
    ASSUME Inv, NEW i \in Invocation, NEW a \in Reply \ {"ticket"}, Answer(i, a),
           pc[i] \in Working \ {"light"}, child'[i] \in {child[i], None},
           claimed' = claimed,
           UNCHANGED <<stops, last, package, at, life, next, ticket>>
    PROVE  InvocationInv(i)'
<1>1. Types /\ InvocationInv(i) /\ pc'[i] = "leave" /\ answer'[i] = a
  BY AnswerFacts DEF Inv
<1>2. Placed(i)' /\ Ticketed(i)' /\ Written(i)'
  BY <1>1, NoneAssumption DEF InvocationInv, Placed, Ticketed, Written, Working, Child
<1>3. Stamped(i)'
  BY <1>1 DEF InvocationInv, Stamped
<1> QED BY <1>2, <1>3 DEF InvocationInv

LEMMA ArriveStep ==
    ASSUME Inv, NEW i \in Invocation, NEW s \in Service, Arrive(i, s)
    PROVE  Types' /\ InvocationInv(i)' /\ UNCHANGED <<package, claimed, ticket, child>>
<1>1. /\ pc[i] = "new" /\ InvocationInv(i)
      /\ at' = [at EXCEPT ![i] = s] /\ life' = [life EXCEPT ![i] = stops[s]]
      /\ UNCHANGED <<clock, loop, last, stops, package, claimed, now, ticket, next, child>>
  BY DEF Arrive, Inv
<1>2. \/ i \in Read /\ Go(i, "light") /\ UNCHANGED active
      \/ i \in Action /\ Go(i, "body") /\ active' = [active EXCEPT ![s] = @ + 1]
      \/ /\ i \in Action /\ pc' = [pc EXCEPT ![i] = "done"]
         /\ answer' = [answer EXCEPT ![i] = "limited"] /\ UNCHANGED active
  BY DEF Arrive
<1>3. active' \in [Service -> Int] /\ answer' \in [Invocation -> Reply \cup {None}]
      /\ pc' \in [Invocation -> Steps]
  BY <1>2 DEF Inv, Types, Go, Reply, Steps, Working
<1>4. Types'
  BY <1>1, <1>3 DEF Inv, Types
<1>5. at'[i] = s /\ life'[i] = stops[s]
      /\ \/ i \in Read /\ pc'[i] = "light" /\ answer'[i] = answer[i]
         \/ i \in Action /\ pc'[i] = "body" /\ answer'[i] = answer[i]
         \/ pc'[i] = "done" /\ answer'[i] = "limited"
  BY <1>1, <1>2 DEF Inv, Types, Go
<1>6. Placed(i)' /\ Ticketed(i)' /\ Written(i)'
  BY <1>1, <1>5, NoneAssumption
     DEF InvocationInv, Placed, Ticketed, Written, Working, Child, Reply
<1>7. Stamped(i)'
  BY <1>1 DEF InvocationInv, Stamped
<1> QED BY <1>1, <1>4, <1>6, <1>7 DEF InvocationInv

\* Reading a body or a light route, giving up, and leaving.
LEMMA BodyStep ==
    ASSUME Inv, NEW i \in Invocation,
           ReadLight(i) \/ BodyRead(i) \/ BodyFails(i) \/ Leave(i)
    PROVE  /\ Types' /\ InvocationInv(i)' /\ UNCHANGED <<package, claimed>>
           /\ i \in Fetch => UNCHANGED ticket
           /\ child'[i] # "won" \/ (UNCHANGED child /\ ticket'[i] = ticket[i])
<1>1. InvocationInv(i) /\ Types
  BY DEF Inv
<1>2. CASE ReadLight(i)
  <2>1. Types' /\ pc'[i] = "done" /\ answer'[i] = "read" /\ pc[i] = "light"
        /\ UNCHANGED <<package, claimed, child, ticket, local, last, stops>>
    BY <1>1, <1>2 DEF ReadLight, Types, Steps, Reply, gate, local
  <2>2. Placed(i)' /\ Ticketed(i)' /\ Written(i)'
    BY <1>1, <2>1, NoneAssumption
       DEF InvocationInv, Placed, Ticketed, Written, Working, Child, Reply, local
  <2>3. Stamped(i)'
    BY <1>1, <2>1 DEF InvocationInv, Stamped, local
  <2> QED BY <2>1, <2>2, <2>3 DEF InvocationInv
<1>3. CASE BodyRead(i)
  <2>1. /\ pc[i] = "body" /\ i \in Action /\ at[i] \in Service /\ life[i] = stops[at[i]]
        /\ child[i] = None /\ answer[i] = None /\ next[i] = 1
        /\ UNCHANGED <<clock, active, last, stops, package, claimed, at, life, now, next>>
    BY <1>1, <1>3 DEF BodyRead, InvocationInv, Placed, local, Working
  <2>2. First(i) = IF i \in Authorize THEN "issue" ELSE IF i \in Fetch THEN "sample" ELSE "child"
    BY <2>1, TicketServiceAssumption DEF First, Action
  <2>3. pc' \in [Invocation -> Steps] /\ pc'[i] = First(i) /\ UNCHANGED answer
        /\ loop' \in [Service -> Action \cup {None}]
    BY <1>1, <1>3, <2>1, <2>2 DEF BodyRead, Types, Go, Steps, Working
  <2>4. CASE i \in Execute
    <3>1. PICK t \in Ticket : ticket' = [ticket EXCEPT ![i] = t]
      BY <1>3, <2>4 DEF BodyRead
    <3>2. child' = [child EXCEPT ![i] = "running"] /\ i \notin Fetch /\ i \notin Authorize
      BY <1>3, <2>4, TicketServiceAssumption DEF BodyRead
    <3>3. ticket'[i] = t /\ child'[i] = "running" /\ Types'
      BY <1>1, <2>1, <2>3, <3>1, <3>2 DEF Types, Child
    <3>4. pc'[i] = "child"
      BY <2>2, <2>3, <3>2
    <3>5. Placed(i)' /\ Ticketed(i)' /\ Written(i)' /\ Stamped(i)'
      BY <2>1, <2>3, <3>2, <3>3, <3>4, NoneAssumption
         DEF Placed, Ticketed, Written, Stamped, Child, Reply, Working
    <3> QED BY <2>1, <3>2, <3>3, <3>5 DEF InvocationInv
  <2>5. CASE i \notin Execute
    <3>1. UNCHANGED <<ticket, child>>
      BY <1>3, <2>5 DEF BodyRead
    <3>2. Types' /\ child'[i] # "won"
      BY <1>1, <2>1, <2>3, <3>1, NoneAssumption DEF Types, Child
    <3>3. \/ i \in Authorize /\ pc'[i] = "issue"
          \/ i \in Fetch /\ pc'[i] = "sample"
      BY <2>1, <2>2, <2>3, <2>5 DEF Action
    <3>4. Placed(i)'
      BY <1>1, <2>1, <2>3, <3>1, <3>3 DEF InvocationInv, Placed, Working
    <3>5. Ticketed(i)' /\ Written(i)'
      BY <1>1, <2>1, <2>3, <3>1, <3>3 DEF InvocationInv, Ticketed, Written
    <3>6. Stamped(i)'
      BY <1>1, <2>1, <3>1 DEF InvocationInv, Stamped
    <3> QED BY <2>1, <3>1, <3>2, <3>4, <3>5, <3>6 DEF InvocationInv
  <2> QED BY <2>4, <2>5
<1>4. CASE BodyFails(i)
  <2>1. Types' /\ pc'[i] = "leave" /\ answer'[i] = "invalid" /\ pc[i] = "body"
        /\ UNCHANGED <<package, claimed, child, ticket, local, last, stops>>
    BY <1>1, <1>4 DEF BodyFails, Types, Steps, Working, Reply, gate, local
  <2>2. Placed(i)' /\ Ticketed(i)' /\ Written(i)'
    BY <1>1, <2>1, NoneAssumption
       DEF InvocationInv, Placed, Ticketed, Written, Working, Child, Reply, local
  <2>3. Stamped(i)'
    BY <1>1, <2>1 DEF InvocationInv, Stamped, local
  <2> QED BY <2>1, <2>2, <2>3 DEF InvocationInv
<1>5. CASE Leave(i)
  <2>1. pc[i] = "leave" /\ at[i] \in Service
    BY <1>1, <1>5 DEF Leave, InvocationInv, Placed, Working
  <2>2. Types' /\ pc'[i] = "done"
        /\ UNCHANGED <<package, claimed, child, ticket, local, last, stops, answer>>
    BY <1>1, <1>5, <2>1 DEF Leave, Types, Go, Steps, local
  <2>3. InvocationInv(i)'
    BY <1>1, <2>1, <2>2, NoneAssumption
       DEF InvocationInv, Placed, Ticketed, Written, Stamped, Working, local
  <2> QED BY <2>2, <2>3
<1> QED BY <1>2, <1>3, <1>4, <1>5

-----------------------------------------------------------------------------
(* Issuance *)

LEMMA IssueStep ==
    ASSUME Inv, NEW i \in Invocation, IssueAuthorization(i) \/ SampleTime(i)
    PROVE  /\ Types' /\ InvocationInv(i)' /\ UNCHANGED <<package, claimed, child>>
           /\ i \in Fetch => UNCHANGED ticket
<1>1. InvocationInv(i) /\ Types
  BY DEF Inv
<1>2. ASSUME Keep(i, "check"), Issue(i, "workbench", <<clock, 0>>), pc[i] = "issue",
             UNCHANGED <<clock, last, stops, package, claimed, local, child>>
      PROVE  Types' /\ InvocationInv(i)'
  <2>1. pc' \in [Invocation -> Steps] /\ pc'[i] = "check" /\ UNCHANGED <<answer, active, loop>>
    BY <1>1, <1>2, KeepFacts DEF Steps, Working
  <2>2. [by |-> "workbench", time |-> <<clock, 0>>] \in Ticket
    BY <1>1, Bounds DEF Types, Ticket, Time
  <2>3. ticket' \in [Invocation -> Ticket \cup {None}] /\ ticket'[i] \in Ticket
    BY <1>1, <1>2, <2>2 DEF Types, Issue
  <2>4. Types'
    BY <1>1, <1>2, <2>1, <2>3 DEF Types, local
  <2>5. Placed(i)' /\ Ticketed(i)' /\ Written(i)'
    BY <1>1, <1>2, <2>1, <2>3, NoneAssumption
       DEF InvocationInv, Placed, Ticketed, Written, Working, local, Child, Reply
  <2>6. Stamped(i)'
    BY <1>1, <1>2, Routes DEF InvocationInv, Placed, Stamped
  <2> QED BY <2>4, <2>5, <2>6 DEF InvocationInv
<1>3. ASSUME Keep(i, "stamp"), now' = [now EXCEPT ![i] = clock], pc[i] = "sample",
             UNCHANGED <<clock, last, stops, package, claimed, at, life, next, ticket, child>>
      PROVE  Types' /\ InvocationInv(i)'
  <2>1. pc' \in [Invocation -> Steps] /\ pc'[i] = "stamp" /\ UNCHANGED <<answer, active, loop>>
    BY <1>1, <1>3, KeepFacts DEF Steps, Working
  <2>2. Types'
    BY <1>1, <1>3, <2>1 DEF Types
  <2>3. Placed(i)' /\ Ticketed(i)' /\ Written(i)' /\ Stamped(i)'
    BY <1>1, <1>3, <2>1, NoneAssumption
       DEF InvocationInv, Placed, Ticketed, Written, Stamped, Working, Child, Reply
  <2> QED BY <2>2, <2>3 DEF InvocationInv
<1>4. ASSUME Answer(i, "refused"), pc[i] \in {"issue", "sample"},
             UNCHANGED <<clock, last, stops, package, claimed, at, life, now, next, ticket, child>>
      PROVE  Types' /\ InvocationInv(i)'
  <2>1. Types'
    BY <1>1, <1>4, AnswerFacts DEF Types, Reply
  <2>2. InvocationInv(i)'
    BY <1>4, RefusedInv DEF Reply, Working
  <2> QED BY <2>1, <2>2
<1>5. CASE IssueAuthorization(i)
  <2>1. i \notin Fetch
    BY <1>1, <1>5, Routes DEF IssueAuthorization, InvocationInv, Placed
  <2> QED BY <1>2, <1>4, <1>5, <2>1 DEF IssueAuthorization, local
<1>6. CASE SampleTime(i)
  BY <1>3, <1>4, <1>6 DEF SampleTime
<1> QED BY <1>5, <1>6

LEMMA StampStep ==
    ASSUME Inv, NEW i \in Invocation, StampTime(i)
    PROVE  LET s == at[i]  t == NextTime(at[i], <<now[i], 0>>) IN
           /\ Types' /\ InvocationInv(i)' /\ UNCHANGED <<package, claimed, child>>
           /\ s \in Service /\ t \in Time /\ last' = [last EXCEPT ![s] = t]
           /\ ticket'[i] = [by |-> "local_action", time |-> t]
           /\ last[s] # None => NotAfter(last[s], t) /\ ~NotAfter(t, last[s])
<1> DEFINE s == at[i]  t == NextTime(at[i], <<now[i], 0>>)
<1>1. InvocationInv(i) /\ Types
  BY DEF Inv
<1>2. /\ pc[i] = "stamp" /\ t[2] <= MaxMicro /\ Issue(i, "local_action", t)
      /\ last' = [last EXCEPT ![s] = t] /\ Keep(i, "check")
      /\ UNCHANGED <<clock, stops, package, claimed, local, child>>
  BY DEF StampTime
<1>3. /\ s \in Service /\ i \in Fetch /\ child[i] = None /\ answer[i] = None
      /\ next[i] = 1 /\ life[i] = stops[s]
  BY <1>1, <1>2 DEF InvocationInv, Placed, Working
<1>4. <<now[i], 0>> \in Time
  BY <1>1, Bounds DEF Types, Time
<1>5. t \in Time
  <2>1. CASE last[s] # None /\ NotAfter(<<now[i], 0>>, last[s])
    <3>1. last[s] \in Time /\ t = <<last[s][1], last[s][2] + 1>>
      BY <1>1, <1>3, <2>1 DEF Types, NextTime
    <3>2. last[s][1] \in 0..MaxSecond /\ last[s][2] \in Nat
      BY <3>1, TicketServiceAssumption DEF Time
    <3>3. last[s][2] + 1 <= MaxMicro
      BY <1>2, <3>1
    <3>4. last[s][2] + 1 \in 0..MaxMicro
      BY <3>2, <3>3, TicketServiceAssumption
    <3> HIDE DEF t
    <3> QED BY <3>1, <3>2, <3>4 DEF Time
  <2>2. CASE ~(last[s] # None /\ NotAfter(<<now[i], 0>>, last[s]))
    BY <1>4, <2>2 DEF NextTime
  <2> QED BY <2>1, <2>2
<1>6. last[s] # None => NotAfter(last[s], t) /\ ~NotAfter(t, last[s])
  BY <1>1, <1>3, <1>4, <1>5, NextTimeLater
<1> HIDE DEF t
<1>7. pc' \in [Invocation -> Steps] /\ pc'[i] = "check" /\ UNCHANGED <<answer, active, loop>>
  BY <1>1, <1>2, KeepFacts DEF Steps, Working
<1>8. /\ ticket'[i] = [by |-> "local_action", time |-> t] /\ ticket'[i] \in Ticket
      /\ ticket' \in [Invocation -> Ticket \cup {None}]
  BY <1>1, <1>2, <1>5 DEF Issue, Types, Ticket
<1>9. last' \in [Service -> Time \cup {None}] /\ last'[s] = t
  BY <1>1, <1>2, <1>3, <1>5 DEF Types
<1>10. Types'
  BY <1>1, <1>2, <1>7, <1>8, <1>9 DEF Types, local
<1>11. Placed(i)' /\ Ticketed(i)' /\ Written(i)'
  BY <1>1, <1>2, <1>3, <1>7, <1>8, NoneAssumption
     DEF InvocationInv, Placed, Ticketed, Written, Working, local, Child, Reply
<1>12. Stamped(i)'
  <2>1. ticket'[i].time = t /\ NotAfter(t, t)
    BY <1>5, <1>8, TimeOrder
  <2>2. stops[s] <= stops[s]
    BY <1>1, <1>3, TicketServiceAssumption DEF Types
  <2> QED BY <1>2, <1>3, <1>5, <1>7, <1>8, <1>9, <2>1, <2>2 DEF Stamped, local
<1>13. InvocationInv(i)' /\ UNCHANGED <<package, claimed, child>>
  BY <1>2, <1>11, <1>12 DEF InvocationInv
<1>14. last' = [last EXCEPT ![s] = t]
  BY <1>2
<1> QED BY <1>3, <1>5, <1>6, <1>8, <1>10, <1>13, <1>14 DEF t

-----------------------------------------------------------------------------
(* The control package *)

\* Writing keeps a package with a manifest whole.
LEMMA WriteStep ==
    ASSUME Inv, NEW i \in Invocation, Write(i)
    PROVE  /\ Types' /\ InvocationInv(i)' /\ ManifestMeansWhole'
           /\ UNCHANGED <<claimed, ticket, child, last>>
<1>1. InvocationInv(i) /\ Types /\ ManifestMeansWhole
  BY DEF Inv
<1>2. /\ pc[i] \in {"check", "exists", "replace"} /\ ticket[i] \in Ticket
      /\ UNCHANGED <<clock, last, stops, claimed, at, life, now, ticket, child>>
  BY <1>1 DEF Write, CheckPackage, NoCapacity, StageFile, ReplaceFile, InvocationInv, Ticketed,
     local
<1>3. child[i] = None /\ answer[i] = None /\ i \in Action /\ at[i] \in Service
      /\ life[i] = stops[at[i]] /\ pc[i] \in Working \ {"light"}
  BY <1>1, <1>2 DEF InvocationInv, Placed, Working
<1>4. Stamped(i)' <=> (i \in Fetch /\ ticket[i] # None => pc'[i] \notin
          {"new", "light", "body", "sample", "stamp"})
  BY <1>1, <1>2 DEF InvocationInv, Stamped
<1>5. ASSUME NEW a \in Reply \ {"ticket"}, Answer(i, a), UNCHANGED <<next, package>>
      PROVE  Types' /\ InvocationInv(i)' /\ ManifestMeansWhole'
  <2>1. Types'
    BY <1>1, <1>2, <1>5, AnswerFacts DEF Types
  <2>2. InvocationInv(i)'
    BY <1>2, <1>3, <1>5, RefusedInv
  <2>3. ManifestMeansWhole'
    BY <1>1, <1>5 DEF ManifestMeansWhole
  <2> QED BY <2>1, <2>2, <2>3
<1>6. CASE CheckPackage(i) /\ Keep(i, "exists")
  <2>1. pc' \in [Invocation -> Steps] /\ pc'[i] = "exists" /\ UNCHANGED <<answer, active, loop>>
    BY <1>1, <1>6, KeepFacts DEF Steps, Working
  <2>2. UNCHANGED <<package, next>> /\ next[i] = 1
    BY <1>1, <1>6 DEF CheckPackage, local, InvocationInv, Placed
  <2>3. Types' /\ ManifestMeansWhole'
    BY <1>1, <1>2, <2>1, <2>2 DEF Types, ManifestMeansWhole
  <2>4. 1..(next[i] - 1) = {}
    BY <2>2
  <2>5. Placed(i)' /\ Ticketed(i)' /\ Written(i)' /\ Stamped(i)'
    BY <1>2, <1>3, <1>4, <2>1, <2>2, <2>4, Bounds, NoneAssumption
       DEF Placed, Ticketed, Written, Child, Reply
  <2> QED BY <1>2, <2>3, <2>5 DEF InvocationInv
<1>7. CASE StageFile(i) /\ Keep(i, "replace")
  <2>1. pc' \in [Invocation -> Steps] /\ pc'[i] = "replace" /\ UNCHANGED <<answer, active, loop>>
    BY <1>1, <1>7, KeepFacts DEF Steps, Working
  <2>2. /\ UNCHANGED next /\ next[i] \in File /\ 1..(next[i] - 1) \subseteq package[ticket[i]]
        /\ package' = [package EXCEPT ![ticket[i]] = @ \cup {i}] \/ UNCHANGED package
    BY <1>1, <1>7 DEF StageFile, local, InvocationInv, Placed, Written
  <2>3. package' \in [Ticket -> SUBSET (File \cup Invocation)]
    BY <1>1, <1>2, <2>2 DEF Types
  <2>4. \A t \in Ticket : package[t] \subseteq package'[t] /\ package'[t] \subseteq package[t] \cup {i}
    BY <1>1, <1>2, <2>2 DEF Types
  <2>5. Types' /\ ManifestMeansWhole'
    BY <1>1, <1>2, <2>1, <2>2, <2>3, <2>4, Bounds DEF Types, ManifestMeansWhole
  <2>6. Placed(i)' /\ Ticketed(i)' /\ Written(i)' /\ Stamped(i)'
    BY <1>2, <1>3, <1>4, <2>1, <2>2, <2>4, NoneAssumption
       DEF Placed, Ticketed, Written, Child, Reply, Working
  <2> QED BY <1>2, <2>5, <2>6 DEF InvocationInv
<1>8. CASE ReplaceFile(i)
  <2> DEFINE P == (package[ticket[i]] \ {i}) \cup {next[i]}
  <2>1. /\ pc[i] = "replace" /\ next' = [next EXCEPT ![i] = next[i] + 1]
        /\ package' = [package EXCEPT ![ticket[i]] = P]
        /\ \/ next[i] # Manifest /\ Keep(i, "exists")
           \/ next[i] = Manifest /\ i \in Fetch /\ Keep(i, "launch")
           \/ next[i] = Manifest /\ i \notin Fetch /\ Answer(i, "ticket")
    BY <1>8 DEF ReplaceFile
  <2>2. next[i] \in File /\ 1..(next[i] - 1) \subseteq package[ticket[i]] /\ i \notin File
    BY <1>1, <2>1, Bounds DEF InvocationInv, Placed, Written
  <2>3. next' \in [Invocation -> 1..(Manifest + 1)] /\ next'[i] = next[i] + 1
    BY <1>1, <2>1, <2>2, Bounds DEF Types, File
  <2>4. package'[ticket[i]] = P /\ \A t \in Ticket : t # ticket[i] => package'[t] = package[t]
    BY <1>1, <1>2, <2>1 DEF Types
  <2>5. P \in SUBSET (File \cup Invocation) /\ 1..next[i] \subseteq P
    <3>1. P \in SUBSET (File \cup Invocation)
      BY <1>1, <1>2, <2>2 DEF Types
    <3>2. \A k \in 1..next[i] : k \in 1..(next[i] - 1) \/ k = next[i]
      BY <2>2 DEF File
    <3>3. 1..next[i] \subseteq File
      BY <2>2, Bounds DEF File
    <3>4. ASSUME NEW k \in 1..next[i] PROVE k \in P
      <4>1. k # i
        BY <2>2, <3>3
      <4>2. CASE k = next[i]
        BY <4>2
      <4>3. CASE k \in 1..(next[i] - 1)
        BY <2>2, <4>1, <4>3
      <4> QED BY <3>2, <4>2, <4>3
    <3> QED BY <3>1, <3>4
  <2>6. package' \in [Ticket -> SUBSET (File \cup Invocation)]
    BY <1>1, <2>1, <2>5 DEF Types
  <2> HIDE DEF P
  <2>7. /\ pc' \in [Invocation -> Steps] /\ UNCHANGED active
        /\ answer' \in [Invocation -> Reply \cup {None}]
        /\ loop' \in [Service -> Action \cup {None}]
        /\ \/ next[i] # Manifest /\ pc'[i] = "exists" /\ answer'[i] = None
           \/ next[i] = Manifest /\ i \in Fetch /\ pc'[i] = "launch" /\ answer'[i] = None
           \/ next[i] = Manifest /\ pc'[i] = "leave" /\ answer'[i] = "ticket"
    <3>1. CASE next[i] # Manifest /\ Keep(i, "exists")
      BY <1>1, <1>3, <3>1, KeepFacts DEF Steps, Working, Types
    <3>2. CASE next[i] = Manifest /\ i \in Fetch /\ Keep(i, "launch")
      BY <1>1, <1>3, <3>2, KeepFacts DEF Steps, Working, Types
    <3>3. CASE next[i] = Manifest /\ i \notin Fetch /\ Answer(i, "ticket")
      BY <1>1, <3>3, AnswerFacts DEF Reply
    <3> QED BY <2>1, <3>1, <3>2, <3>3
  <2>8. Types'
    BY <1>1, <1>2, <2>3, <2>6, <2>7 DEF Types
  <2>9. next[i] = Manifest => File \subseteq P
    BY <2>5 DEF File
  <2>10. ManifestMeansWhole'
    <3>1. ASSUME Manifest \in P, next[i] # Manifest PROVE File \subseteq P
      <4>1. Manifest \in package[ticket[i]]
        BY <3>1 DEF P
      <4>2. File \subseteq package[ticket[i]]
        BY <1>1, <1>2, <4>1 DEF ManifestMeansWhole
      <4> QED BY <2>2, <4>2 DEF P
    <3> QED BY <1>1, <2>4, <2>9, <3>1 DEF ManifestMeansWhole
  <2>11. next[i] # Manifest => next'[i] \in File /\ 1..(next'[i] - 1) \subseteq P
    <3>1. next'[i] - 1 = next[i]
      BY <2>2, <2>3 DEF File
    <3>2. next[i] # Manifest => next'[i] \in File
      BY <2>2, <2>3, Bounds DEF File
    <3> QED BY <2>5, <3>1, <3>2
  <2>12. Placed(i)' /\ Ticketed(i)' /\ Written(i)' /\ Stamped(i)'
    BY <1>2, <1>3, <1>4, <2>4, <2>7, <2>9, <2>11, NoneAssumption
       DEF Placed, Ticketed, Written, Child, Reply, Working
  <2> QED BY <1>2, <2>8, <2>10, <2>12 DEF InvocationInv
<1>9. CASE \E a \in {"conflict", "refused"} : Answer(i, a) /\ UNCHANGED <<next, package>>
  BY <1>2, <1>5, <1>9 DEF Reply
<1>10. \/ CheckPackage(i) /\ Keep(i, "exists")
       \/ StageFile(i) /\ Keep(i, "replace")
       \/ ReplaceFile(i)
       \/ \E a \in {"conflict", "refused"} : Answer(i, a) /\ UNCHANGED <<next, package>>
  BY DEF Write, CheckPackage, NoCapacity, StageFile, local
<1> QED BY <1>2, <1>6, <1>7, <1>8, <1>9, <1>10

-----------------------------------------------------------------------------
(* Execution *)

LEMMA ExecuteStep ==
    ASSUME Inv, NEW i \in Invocation, LaunchChild(i) \/ ChildEnds(i) \/ Deadline(i)
    PROVE  /\ Types' /\ InvocationInv(i)' /\ UNCHANGED <<package, claimed, ticket>>
           /\ child'[i] # "won" \/ child'[i] = child[i]
<1>1. InvocationInv(i) /\ Types
  BY DEF Inv
<1>2. CASE LaunchChild(i)
  <2>1. /\ pc[i] = "launch" /\ child' = [child EXCEPT ![i] = "running"] /\ Keep(i, "child")
        /\ UNCHANGED <<clock, last, stops, package, claimed, at, life, now, next, ticket>>
    BY <1>2 DEF LaunchChild, local
  <2>2. pc' \in [Invocation -> Steps] /\ pc'[i] = "child" /\ UNCHANGED <<answer, active, loop>>
    BY <1>1, <2>1, KeepFacts DEF Steps, Working
  <2>3. child' \in [Invocation -> Child \cup {None}] /\ child'[i] = "running"
    BY <1>1, <2>1 DEF Types, Child
  <2>4. Types'
    BY <1>1, <2>1, <2>2, <2>3 DEF Types
  <2>5. Placed(i)' /\ Ticketed(i)' /\ Written(i)' /\ Stamped(i)'
    BY <1>1, <2>1, <2>2, <2>3, NoneAssumption, Routes
       DEF InvocationInv, Placed, Ticketed, Written, Stamped, Child, Reply, Working
  <2> QED BY <2>1, <2>3, <2>4, <2>5 DEF InvocationInv
<1>3. CASE ChildEnds(i) \/ Deadline(i)
  <2>1. PICK a \in {"executed", "refused", "timeout"} : Answer(i, a)
    BY <1>3 DEF ChildEnds, Deadline
  <2>2. /\ pc[i] = "child" /\ ticket[i] \in Ticket /\ child'[i] \in {child[i], None}
        /\ UNCHANGED <<clock, last, stops, package, claimed, at, life, now, next, ticket>>
        /\ child' \in [Invocation -> Child \cup {None}]
    BY <1>1, <1>3 DEF ChildEnds, Deadline, local, Types, InvocationInv, Ticketed
  <2>3. Types'
    BY <1>1, <2>1, <2>2, AnswerFacts DEF Types, Reply
  <2>4. InvocationInv(i)'
    BY <2>1, <2>2, RefusedInv DEF Reply, Working
  <2> QED BY <2>2, <2>3, <2>4, NoneAssumption DEF Child
<1> QED BY <1>2, <1>3

\* A child wins only a ticket that nobody had claimed.
LEMMA ClaimStep ==
    ASSUME Inv, NEW i \in Invocation, ClaimTicket(i)
    PROVE  /\ Types' /\ InvocationInv(i)' /\ UNCHANGED <<package, ticket, pc, at>>
           /\ child'[i] = "won" => ticket[i] \notin claimed
<1>1. InvocationInv(i) /\ Types /\ ManifestMeansWhole
  BY DEF Inv
<1>2. /\ child[i] = "running" /\ ticket[i] \in Ticket
      /\ UNCHANGED <<clock, active, loop, last, stops, package, pc, at, life, now, next, ticket,
                     answer>>
  BY <1>1, NoneAssumption DEF ClaimTicket, gate, local, InvocationInv, Ticketed, Child
<1>3. \/ /\ Manifest \in package[ticket[i]] /\ ticket[i] \notin claimed
         /\ claimed' = claimed \cup {ticket[i]} /\ child' = [child EXCEPT ![i] = "won"]
      \/ child' = [child EXCEPT ![i] = "refused"] /\ UNCHANGED claimed
  BY DEF ClaimTicket
<1>4. Types'
  BY <1>1, <1>2, <1>3 DEF Types, Child
<1>5. \/ /\ child'[i] = "won" /\ ticket[i] \in claimed' /\ ticket[i] \notin claimed
         /\ File \subseteq package[ticket[i]]
      \/ child'[i] = "refused"
  BY <1>1, <1>2, <1>3 DEF Types, ManifestMeansWhole
<1>6. Placed(i)' /\ Ticketed(i)' /\ Written(i)' /\ Stamped(i)'
  BY <1>1, <1>2, <1>5, NoneAssumption
     DEF InvocationInv, Placed, Ticketed, Written, Stamped, Child
<1> QED BY <1>2, <1>4, <1>5, <1>6 DEF InvocationInv

-----------------------------------------------------------------------------
(* The step as a whole *)

\* What a step does to its own invocation.
LEMMA ActFacts ==
    ASSUME Inv, NEW i \in Invocation, Act(i)
    PROVE  /\ Types' /\ InvocationInv(i)' /\ ManifestMeansWhole'
           /\ child'[i] = "won" => /\ ticket'[i] = ticket[i]
                                   /\ child[i] = "won" \/ ticket[i] \notin claimed
           /\ i \in Fetch => ticket'[i] = ticket[i] \/ StampTime(i)
<1>1. InvocationInv(i) /\ Types /\ ManifestMeansWhole
  BY DEF Inv
<1>2. UNCHANGED package => ManifestMeansWhole'
  BY <1>1 DEF ManifestMeansWhole
<1>3. CASE \E s \in Service : Arrive(i, s)
  BY <1>2, <1>3, ArriveStep
<1>4. CASE ReadLight(i) \/ BodyRead(i) \/ BodyFails(i) \/ Leave(i)
  BY <1>2, <1>4, BodyStep
<1>5. CASE IssueAuthorization(i) \/ SampleTime(i)
  <2>1. child[i] = None
    BY <1>1, <1>5 DEF IssueAuthorization, SampleTime, InvocationInv, Placed
  <2> QED BY <1>2, <1>5, <2>1, IssueStep, NoneAssumption DEF Child
<1>6. CASE StampTime(i)
  <2>1. child[i] = None
    BY <1>1, <1>6 DEF StampTime, InvocationInv, Placed
  <2>2. Types' /\ InvocationInv(i)' /\ UNCHANGED <<package, child>>
    BY <1>6, StampStep
  <2> QED BY <1>2, <1>6, <2>1, <2>2, NoneAssumption DEF Child
<1>7. CASE Write(i)
  BY <1>7, WriteStep
<1>8. CASE LaunchChild(i) \/ ChildEnds(i) \/ Deadline(i)
  BY <1>2, <1>8, ExecuteStep
<1>9. CASE ClaimTicket(i)
  BY <1>2, <1>9, ClaimStep
<1> QED BY <1>3, <1>4, <1>5, <1>6, <1>7, <1>8, <1>9 DEF Act, Handle

\* What a step leaves of the other invocations.
LEMMA OthersHold ==
    ASSUME Inv, NEW i \in Invocation, Act(i)
    PROVE  \A j \in Invocation \ {i} : InvocationInv(j)'
<1>1. StampTime(i) => /\ at[i] \in Service
                      /\ last' = [last EXCEPT ![at[i]] = NextTime(at[i], <<now[i], 0>>)]
                      /\ NextTime(at[i], <<now[i], 0>>) \in Time
                      /\ last[at[i]] # None =>
                             NotAfter(last[at[i]], NextTime(at[i], <<now[i], 0>>))
  BY StampStep
<1> QED BY <1>1, OthersKept

LEMMA OneWinnerStep ==
    ASSUME Inv, NEW i \in Invocation, Act(i)
    PROVE  OneWinner'
<1>1. SUFFICES ASSUME NEW j \in Invocation, NEW k \in Invocation,
                      child'[j] = "won", child'[k] = "won", j # k, ticket'[j] = ticket'[k]
               PROVE  FALSE
  BY DEF OneWinner
<1>2. \A m \in Invocation : child[m] = "won" => ticket[m] \in claimed
  BY DEF Inv, InvocationInv, Written
<1>3. \A m \in Invocation \ {i} : child'[m] = child[m] /\ ticket'[m] = ticket[m]
  BY OthersStay DEF Inv
<1>4. OneWinner
  BY DEF Inv
<1>5. child'[i] = "won" => ticket'[i] = ticket[i] /\ (child[i] = "won" \/ ticket[i] \notin claimed)
  BY ActFacts
<1> QED BY <1>1, <1>2, <1>3, <1>4, <1>5 DEF OneWinner

\* A new stamp is later than those of the same life.
LEMMA DistinctStep ==
    ASSUME Inv, NEW i \in Invocation, Act(i)
    PROVE  LocalActionsDistinct'
<1>1. Types /\ LocalActionsDistinct /\ \A m \in Invocation : InvocationInv(m)
  BY DEF Inv
<1>2. \A m \in Invocation \ {i} :
          ticket'[m] = ticket[m] /\ at'[m] = at[m] /\ life'[m] = life[m]
  BY <1>1, OthersStay
<1>3. i \in Fetch => ticket'[i] = ticket[i] \/ StampTime(i)
  BY ActFacts
<1>4. (at'[i] = at[i] /\ life'[i] = life[i]) \/ pc[i] = "new"
  BY DEF Act, Handle, ClaimTicket, Arrive, ReadLight, BodyRead, BodyFails, Leave,
       IssueAuthorization, SampleTime, StampTime, Write, CheckPackage, NoCapacity, StageFile,
       ReplaceFile, LaunchChild, ChildEnds, Deadline, local
<1>5. i \in Fetch /\ pc[i] = "new" => ticket[i] = None
  BY <1>1 DEF InvocationInv, Stamped
<1>6. ASSUME NEW k \in Fetch, k # i, i \in Fetch, StampTime(i), at'[i] = at'[k],
             life'[i] = life'[k], ticket'[k] = ticket'[i], ticket'[i] # None
      PROVE  FALSE
  <2> DEFINE s == at[i]  t == NextTime(at[i], <<now[i], 0>>)
  <2>1. pc[i] = "stamp" /\ at'[i] = at[i] /\ life'[i] = life[i] /\ life[i] = stops[s]
    BY <1>1, <1>6 DEF StampTime, local, InvocationInv, Placed, Working
  <2>2. /\ ticket'[i] = [by |-> "local_action", time |-> t] /\ t \in Time /\ ticket'[i] \in Ticket
        /\ last[s] # None => ~NotAfter(t, last[s])
    <3>1. StampTime(i)
      BY <1>6
    <3>2. /\ ticket'[i] = [by |-> "local_action", time |-> t] /\ t \in Time
          /\ last[s] # None => ~NotAfter(t, last[s])
      BY <3>1, StampStep
    <3> HIDE DEF t
    <3> QED BY <3>2 DEF Ticket
  <2> HIDE DEF t
  <2>3. k \in Invocation /\ ticket[k] = ticket'[i] /\ at[k] = s /\ life[k] = stops[s]
    BY <1>2, <1>6, <2>1, Routes
  <2>4. ticket[k] # None
    BY <1>6, <2>3
  <2>5. last[s] \in Time /\ NotAfter(ticket[k].time, last[s])
    BY <1>1, <1>6, <2>3, <2>4 DEF InvocationInv, Stamped
  <2> QED BY <2>2, <2>3, <2>5, NoneAssumption
<1>7. SUFFICES ASSUME NEW j \in Fetch, NEW k \in Fetch, j # k, at'[j] = at'[k],
                      life'[j] = life'[k], ticket'[j] # None, ticket'[j] = ticket'[k]
               PROVE  FALSE
  BY DEF LocalActionsDistinct
<1>8. CASE j = i \/ k = i
  BY <1>1, <1>2, <1>3, <1>4, <1>5, <1>6, <1>7, <1>8, Routes DEF LocalActionsDistinct
<1>9. CASE j # i /\ k # i
  BY <1>1, <1>2, <1>7, <1>9, Routes DEF LocalActionsDistinct
<1> QED BY <1>8, <1>9

-----------------------------------------------------------------------------
(* The gate *)

Holders(s) == {i \in Invocation : Holds(i, s)}

LEMMA HoldersFinite == \A s : IsFiniteSet(Holders(s)) /\ Cardinality(Holders(s)) \in Nat
<1>1. \A s : Holders(s) \subseteq Invocation
  BY DEF Holders
<1> QED BY <1>1, TicketServiceAssumption, FS_Subset, FS_CardinalityType

\* An action joins the holders when it is admitted and leaves them when it gives its slot
\* back; every other step keeps the holders and the count.
LEMMA GateStep ==
    ASSUME Inv, NEW i \in Invocation, Act(i)
    PROVE  Gate' /\ GateCountsActions'
<1>1. Types /\ Gate /\ InvocationInv(i)
  BY DEF Inv
<1>2. \A s \in Service : active[s] = Cardinality(Holders(s)) /\ active[s] <= Limit
  BY DEF Inv, Gate, GateCountsActions, Holders
<1>3. SUFFICES \A s \in Service : active'[s] = Cardinality(Holders(s)') /\ active'[s] <= Limit
  BY DEF Gate, GateCountsActions, Holders
<1>4. \A j \in Invocation \ {i} : \A s : Holds(j, s)' <=> Holds(j, s)
  BY <1>1, OthersStay DEF Holds
<1>5. ASSUME UNCHANGED active, \A s \in Service : Holds(i, s)' <=> Holds(i, s)
      PROVE  \A s \in Service : active'[s] = Cardinality(Holders(s)') /\ active'[s] <= Limit
  <2>1. \A s \in Service : Holders(s)' = Holders(s)
    BY <1>4, <1>5 DEF Holders
  <2> QED BY <1>2, <1>5, <2>1
<1>6. ASSUME NEW s \in Service, Arrive(i, s)
      PROVE  \A u \in Service : active'[u] = Cardinality(Holders(u)') /\ active'[u] <= Limit
  <2>1. pc[i] = "new" /\ at' = [at EXCEPT ![i] = s] /\ \A u : ~Holds(i, u)
    BY <1>6 DEF Arrive, Holds, Working
  <2>2. CASE /\ i \in Action /\ active[s] < Limit /\ Go(i, "body")
             /\ active' = [active EXCEPT ![s] = @ + 1]
    <3>1. pc'[i] = "body" /\ at'[i] = s
      BY <1>1, <2>1, <2>2 DEF Go, Types
    <3>2. Holders(s)' = Holders(s) \cup {i} /\ i \notin Holders(s)
      BY <1>4, <2>1, <2>2, <3>1 DEF Holders, Holds, Working
    <3>3. \A u \in Service \ {s} : Holders(u)' = Holders(u)
      BY <1>4, <2>1, <3>1 DEF Holders, Holds
    <3>4. Cardinality(Holders(s)') = Cardinality(Holders(s)) + 1
      BY <3>2, HoldersFinite, FS_AddElement
    <3>5. active'[s] = active[s] + 1 /\ \A u \in Service \ {s} : active'[u] = active[u]
      BY <1>1, <2>2 DEF Types
    <3>6. active'[s] <= Limit
      BY <1>1, <2>2, <3>5, TicketServiceAssumption DEF Types
    <3> QED BY <1>2, <3>3, <3>4, <3>5, <3>6
  <2>3. CASE UNCHANGED active /\ (i \notin Action \/ pc' = [pc EXCEPT ![i] = "done"])
    <3>1. \A u \in Service : ~Holds(i, u)'
      BY <1>1, <2>3 DEF Holds, Working, Types
    <3> QED BY <1>5, <2>1, <2>3, <3>1
  <2> QED BY <1>6, <2>2, <2>3, Routes DEF Arrive
<1>7. CASE Leave(i)
  <2>1. /\ pc[i] = "leave" /\ pc'[i] = "done" /\ at' = at /\ i \in Action /\ at[i] \in Service
        /\ active' = [active EXCEPT ![at[i]] = @ - 1]
    BY <1>1, <1>7 DEF Leave, Go, local, Types, InvocationInv, Placed, Working
  <2>2. Holders(at[i])' = Holders(at[i]) \ {i} /\ i \in Holders(at[i])
    BY <1>4, <2>1 DEF Holders, Holds, Working
  <2>3. \A u \in Service \ {at[i]} : Holders(u)' = Holders(u)
    BY <1>4, <2>1 DEF Holders, Holds
  <2>4. Cardinality(Holders(at[i])') = Cardinality(Holders(at[i])) - 1
    BY <2>2, HoldersFinite, FS_RemoveElement
  <2>5. active'[at[i]] = active[at[i]] - 1 /\ \A u \in Service \ {at[i]} : active'[u] = active[u]
    BY <1>1, <2>1 DEF Types
  <2>6. active'[at[i]] <= Limit
    BY <1>1, <1>2, <2>1, <2>5, TicketServiceAssumption DEF Types
  <2> QED BY <1>2, <2>1, <2>3, <2>4, <2>5, <2>6
<1>8. CASE ClaimTicket(i)
  BY <1>5, <1>8 DEF ClaimTicket, gate, local, Holds
<1>9. CASE ReadLight(i)
  <2>1. i \notin Action /\ UNCHANGED active
    BY <1>1, <1>9, Routes DEF ReadLight, InvocationInv, Placed, gate
  <2> QED BY <1>5, <2>1 DEF Holds
<1>10. ASSUME BodyRead(i) \/ BodyFails(i) \/ IssueAuthorization(i) \/ SampleTime(i)
              \/ StampTime(i) \/ Write(i) \/ LaunchChild(i) \/ ChildEnds(i) \/ Deadline(i)
       PROVE  \A s \in Service : active'[s] = Cardinality(Holders(s)') /\ active'[s] <= Limit
  <2>1. pc[i] \in Working /\ UNCHANGED <<active, at>>
    BY <1>10 DEF BodyRead, BodyFails, IssueAuthorization, SampleTime, StampTime, Write,
         CheckPackage, NoCapacity, StageFile, ReplaceFile, LaunchChild, ChildEnds, Deadline,
         Keep, Go, Answer, gate, local, Working
  <2>2. pc'[i] \in Working
    <3>1. CASE BodyRead(i)
      <4>1. i \in Action /\ pc[i] = "body"
        BY <1>1, <3>1 DEF BodyRead, InvocationInv, Placed, Working
      <4>2. First(i) \in Working
        <5>1. CASE i \in Authorize
          BY <5>1, TicketServiceAssumption DEF First, Working
        <5>2. CASE i \in Fetch
          BY <5>2, TicketServiceAssumption DEF First, Working
        <5>3. CASE i \in Execute
          BY <5>3, TicketServiceAssumption DEF First, Working
        <5> QED BY <4>1, <5>1, <5>2, <5>3 DEF Action
      <4>3. pc' = [pc EXCEPT ![i] = First(i)]
        BY <3>1 DEF BodyRead, Go
      <4> QED BY <1>1, <4>2, <4>3 DEF Types
    <3>2. CASE ~BodyRead(i)
      BY <1>1, <1>10, <3>2 DEF BodyFails, IssueAuthorization, SampleTime, StampTime, Write,
         CheckPackage, NoCapacity, StageFile, ReplaceFile, LaunchChild, ChildEnds, Deadline,
         Keep, Go, Answer, Working, Types
    <3> QED BY <3>1, <3>2
  <2> QED BY <1>5, <2>1, <2>2 DEF Holds
<1> QED BY <1>6, <1>7, <1>8, <1>9, <1>10 DEF Act, Handle

-----------------------------------------------------------------------------
(* The environment *)

\* What was working in a service that dies is over; everything on disk stays.
LEMMA RestartStep ==
    ASSUME Inv, NEW s \in Service, Restart(s)
    PROVE  Inv'
<1>1. Types /\ \A j \in Invocation : InvocationInv(j)
  BY DEF Inv
<1>2. /\ stops' = [stops EXCEPT ![s] = @ + 1] /\ stops[s] < MaxStops
      /\ active' = [active EXCEPT ![s] = 0] /\ loop' = [loop EXCEPT ![s] = None]
      /\ last' = [last EXCEPT ![s] = None]
      /\ pc' = [i \in Invocation |-> IF at[i] = s /\ pc[i] \in Working THEN "done" ELSE pc[i]]
      /\ UNCHANGED <<clock, package, claimed, at, life, now, next, ticket, child, answer>>
  BY DEF Restart, local
<1>3. stops' \in [Service -> 0..MaxStops] /\ stops'[s] = stops[s] + 1
  BY <1>1, <1>2, TicketServiceAssumption DEF Types
<1>4. Types'
  BY <1>1, <1>2, <1>3 DEF Types, Steps
<1>5. ASSUME NEW j \in Invocation PROVE InvocationInv(j)'
  <2>1. CASE at[j] = s /\ pc[j] \in Working
    <3>1. pc'[j] = "done"
      BY <1>2, <2>1
    <3>2. Placed(j)' /\ Ticketed(j)' /\ Written(j)'
      BY <1>1, <1>2, <3>1 DEF InvocationInv, Placed, Ticketed, Written, Working
    <3>3. life[j] = stops[s]
      BY <1>1, <2>1 DEF InvocationInv, Placed
    <3>4. Stamped(j)'
      BY <1>1, <1>2, <1>3, <2>1, <3>1, <3>3, TicketServiceAssumption DEF Types, Stamped
    <3> QED BY <3>2, <3>4 DEF InvocationInv
  <2>2. CASE ~(at[j] = s /\ pc[j] \in Working)
    <3>1. pc'[j] = pc[j]
      BY <1>2, <2>2
    <3>2. pc[j] \in Working => at[j] \in Service /\ stops'[at[j]] = stops[at[j]]
      BY <1>1, <1>2, <2>2 DEF InvocationInv, Placed, Types
    <3>3. Placed(j)' /\ Ticketed(j)' /\ Written(j)'
      BY <1>1, <1>2, <3>1, <3>2 DEF InvocationInv, Placed, Ticketed, Written
    <3>4. Stamped(j)'
      <4>1. SUFFICES ASSUME j \in Fetch, ticket[j] # None PROVE Stamped(j)'
        BY <1>2 DEF Stamped
      <4>2. /\ ticket[j] \in Ticket /\ at[j] \in Service /\ life[j] <= stops[at[j]]
            /\ pc[j] \notin {"new", "light", "body", "sample", "stamp"}
            /\ life[j] = stops[at[j]] =>
                   last[at[j]] \in Time /\ NotAfter(ticket[j].time, last[at[j]])
        BY <1>1, <4>1 DEF InvocationInv, Stamped
      <4>3. CASE at[j] = s
        <5>1. life[j] < stops'[s]
          BY <1>1, <1>3, <4>2, <4>3, TicketServiceAssumption DEF Types
        <5>2. life[j] \in Int /\ stops'[s] \in Int
          BY <1>1, <1>3, TicketServiceAssumption DEF Types
        <5> QED BY <1>2, <3>1, <4>2, <4>3, <5>1, <5>2 DEF Stamped
      <4>4. CASE at[j] # s
        <5>1. stops'[at[j]] = stops[at[j]] /\ last'[at[j]] = last[at[j]]
          BY <1>1, <1>2, <4>2, <4>4 DEF Types
        <5> QED BY <1>2, <3>1, <4>2, <5>1 DEF Stamped
      <4> QED BY <4>3, <4>4
    <3> QED BY <3>3, <3>4 DEF InvocationInv
  <2> QED BY <2>1, <2>2
<1>6. OneWinner' /\ LocalActionsDistinct' /\ ManifestMeansWhole'
  BY <1>2 DEF Inv, OneWinner, LocalActionsDistinct, ManifestMeansWhole
<1>7. Gate' /\ GateCountsActions'
  <2>1. \A u \in Service : active[u] = Cardinality(Holders(u)) /\ active[u] <= Limit
    BY DEF Inv, Gate, GateCountsActions, Holders
  <2>2. Holders(s)' = {}
    BY <1>2 DEF Holders, Holds, Working
  <2>3. \A u \in Service \ {s} : Holders(u)' = Holders(u)
    BY <1>2 DEF Holders, Holds
  <2>4. active'[s] = 0 /\ \A u \in Service \ {s} : active'[u] = active[u]
    BY <1>1, <1>2 DEF Types
  <2>5. Cardinality({}) = 0
    BY FS_EmptySet
  <2>6. \A u \in Service : active'[u] = Cardinality(Holders(u)') /\ active'[u] <= Limit
    BY <2>1, <2>2, <2>3, <2>4, <2>5, TicketServiceAssumption
  <2> QED BY <2>6 DEF Gate, GateCountsActions, Holders
<1> QED BY <1>4, <1>5, <1>6, <1>7 DEF Inv

\* The wall clock is not read by what is claimed here.
LEMMA QuietStep ==
    ASSUME Inv, SetClock \/ UNCHANGED vars
    PROVE  Inv'
<1>1. /\ UNCHANGED <<active, loop, last, stops, package, claimed, pc, at, life, now, next, ticket,
                     child, answer>>
      /\ clock' \in 0..MaxSecond
  BY DEF Inv, Types, SetClock, vars, gate, local
<1>2. Types'
  BY <1>1 DEF Inv, Types
<1>3. \A j \in Invocation : InvocationInv(j)'
  BY <1>1 DEF Inv, InvocationInv, Placed, Ticketed, Written, Stamped
<1>4. OneWinner' /\ LocalActionsDistinct' /\ ManifestMeansWhole'
  BY <1>1 DEF Inv, OneWinner, LocalActionsDistinct, ManifestMeansWhole
<1>5. Gate' /\ GateCountsActions'
  BY <1>1 DEF Inv, Gate, GateCountsActions, Holds
<1> QED BY <1>2, <1>3, <1>4, <1>5 DEF Inv

LEMMA InvNext == Inv /\ [Next]_vars => Inv'
<1> SUFFICES ASSUME Inv, [Next]_vars PROVE Inv'
  OBVIOUS
<1>1. ASSUME NEW i \in Invocation, Act(i) PROVE Inv'
  BY <1>1, ActFacts, OthersHold, OneWinnerStep, DistinctStep, GateStep DEF Inv
<1>2. ASSUME NEW s \in Service, Restart(s) PROVE Inv'
  BY <1>2, RestartStep
<1>3. CASE SetClock \/ UNCHANGED vars
  BY <1>3, QuietStep
<1> QED BY <1>1, <1>2, <1>3 DEF Next, Act

LEMMA InvMeans ==
    Inv => TypeOK /\ GateCountsActions /\ LocalActionsDistinct /\ ManifestMeansWhole
           /\ TicketsAreSingleUse
<1> SUFFICES ASSUME Inv
             PROVE  TypeOK /\ GateCountsActions /\ LocalActionsDistinct /\ ManifestMeansWhole
                    /\ TicketsAreSingleUse
  OBVIOUS
<1>1. \A s \in Service : active[s] \in 0..Limit
  <2>1. \A s \in Service : active[s] = Cardinality(Holders(s)) /\ active[s] <= Limit
    BY DEF Inv, Gate, GateCountsActions, Holders
  <2> QED BY <2>1, HoldersFinite, TicketServiceAssumption
<1>2. TypeOK
  BY <1>1 DEF Inv, Types, TypeOK, Steps
<1>3. TicketsAreSingleUse
  BY DEF Inv, InvocationInv, Written, OneWinner, TicketsAreSingleUse
<1> QED BY <1>2, <1>3 DEF Inv

-----------------------------------------------------------------------------
(* Theorems *)

\* The gate counts exactly the actions at work, the local actions of one life have
\* distinct tickets whatever the clock does, a manifest stands for a whole package, and a
\* ticket is executed for one invocation only, across services, kills and restarts.
THEOREM TicketSafety ==
    Spec => [](TypeOK /\ GateCountsActions /\ LocalActionsDistinct /\ ManifestMeansWhole
               /\ TicketsAreSingleUse)
<1>1. Init => Inv
  BY InvInit
<1>2. Inv /\ [Next]_vars => Inv'
  BY InvNext
<1> QED BY <1>1, <1>2, InvMeans, PTL DEF Spec

-----------------------------------------------------------------------------
(***************************************************************************)
(* The event loop, as far as it is safety: it is held by a handler that    *)
(* has only finitely many steps left.                                      *)
(***************************************************************************)

Handling == {"issue", "sample", "stamp", "check", "exists", "replace", "launch", "child"}

\* A service's loop is held by the one action that is handled there, and by nobody when
\* none is: no way out of a handler, and no restart, forgets to give it back.
LoopIsHeld ==
    \A s \in Service, i \in Invocation : loop[s] = i <=> at[i] = s /\ pc[i] \in Handling

\* The steps that an invocation has left at most before it is over.
StepsLeft(i) ==
    CASE pc[i] \in {"light", "leave"} -> 1
      [] pc[i] = "child" -> 2
      [] pc[i] = "launch" -> 3
      [] pc[i] = "replace" -> 2 * (Manifest + 1 - next[i]) + 2
      [] pc[i] = "exists" -> 2 * (Manifest + 1 - next[i]) + 3
      [] pc[i] = "check" -> 2 * Manifest + 4
      [] pc[i] \in {"issue", "stamp"} -> 2 * Manifest + 5
      [] pc[i] = "sample" -> 2 * Manifest + 6
      [] pc[i] = "body" -> 2 * Manifest + 7
      [] OTHER -> 0

\* A handler runs between the body and the end of an action.
LEMMA HandlingFacts ==
    /\ Handling \subseteq Working /\ "body" \notin Handling /\ "light" \notin Handling
    /\ "leave" \notin Handling /\ "new" \notin Handling /\ "done" \notin Handling
    /\ {"issue", "sample", "child"} \subseteq Handling
BY DEF Handling, Working

\* What a step of an invocation does to its place and to the loop: nothing that the loop
\* depends on, or it takes the free loop, or it goes on, or it gives the loop back.
LEMMA LoopMoves ==
    ASSUME Inv, NEW i \in Invocation, Act(i)
    PROVE  \/ UNCHANGED loop /\ pc[i] \notin Handling /\ pc'[i] \notin Handling
           \/ /\ i \in Action /\ at[i] \in Service /\ at'[i] = at[i] /\ loop[at[i]] = None
              /\ pc[i] \notin Handling /\ pc'[i] \in Handling
              /\ loop' = [loop EXCEPT ![at[i]] = i]
           \/ UNCHANGED <<loop, at>> /\ pc[i] \in Handling /\ pc'[i] \in Handling
           \/ /\ at[i] \in Service /\ at'[i] = at[i] /\ pc[i] \in Handling /\ pc'[i] \notin Handling
              /\ loop' = [loop EXCEPT ![at[i]] = None]
<1>1. Types /\ Placed(i) /\ pc \in [Invocation -> Steps]
  BY DEF Inv, InvocationInv, Types
<1>2. pc[i] \in Handling => at[i] \in Service
  BY <1>1, HandlingFacts DEF Placed
<1>3. ASSUME NEW a, Answer(i, a), UNCHANGED at, pc[i] \in Handling
      PROVE  /\ at[i] \in Service /\ at'[i] = at[i] /\ pc[i] \in Handling /\ pc'[i] \notin Handling
             /\ loop' = [loop EXCEPT ![at[i]] = None]
  BY <1>1, <1>2, <1>3, HandlingFacts DEF Answer
<1>4. ASSUME NEW s \in Handling, Keep(i, s), UNCHANGED at, pc[i] \in Handling
      PROVE  UNCHANGED <<loop, at>> /\ pc[i] \in Handling /\ pc'[i] \in Handling
  BY <1>1, <1>4 DEF Keep, Go, gate
<1>5. CASE \E s \in Service : Arrive(i, s)
  <2>1. UNCHANGED loop /\ pc[i] = "new" /\ pc'[i] \in {"light", "body", "done"}
    BY <1>1, <1>5 DEF Arrive, Go
  <2> QED BY <2>1, HandlingFacts
<1>6. CASE ReadLight(i) \/ BodyFails(i) \/ Leave(i)
  <2>1. UNCHANGED loop /\ pc[i] \in {"light", "body", "leave"} /\ pc'[i] \in {"leave", "done"}
    BY <1>1, <1>6 DEF ReadLight, BodyFails, Leave, Go, gate
  <2> QED BY <2>1, HandlingFacts
<1>7. CASE BodyRead(i)
  <2>1. /\ pc[i] = "body" /\ loop[at[i]] = None /\ pc'[i] = First(i) /\ UNCHANGED at
        /\ loop' = [loop EXCEPT ![at[i]] = i]
    BY <1>1, <1>7 DEF BodyRead, Go, local
  <2>2. i \in Action /\ at[i] \in Service
    BY <1>1, <2>1 DEF Placed, Working
  <2>3. First(i) \in {"issue", "sample", "child"}
    BY <2>2, Routes DEF First, Action
  <2> QED BY <2>1, <2>2, <2>3, HandlingFacts
<1>8. CASE IssueAuthorization(i) \/ SampleTime(i) \/ StampTime(i)
  <2>1. UNCHANGED at /\ pc[i] \in Handling
    BY <1>8 DEF IssueAuthorization, SampleTime, StampTime, local, Handling
  <2>2. (\E s \in Handling : Keep(i, s)) \/ \E a \in Reply : Answer(i, a)
    BY <1>8 DEF IssueAuthorization, SampleTime, StampTime, Handling, Reply
  <2> QED BY <1>3, <1>4, <2>1, <2>2
<1>9. CASE Write(i)
  <2>1. UNCHANGED at /\ pc[i] \in Handling
    BY <1>9 DEF Write, CheckPackage, NoCapacity, StageFile, ReplaceFile, local, Handling
  <2>2. (\E s \in Handling : Keep(i, s)) \/ \E a \in Reply : Answer(i, a)
    BY <1>9 DEF Write, CheckPackage, NoCapacity, StageFile, ReplaceFile, Handling, Reply
  <2> QED BY <1>3, <1>4, <2>1, <2>2
<1>10. CASE LaunchChild(i) \/ ChildEnds(i) \/ Deadline(i)
  <2>1. UNCHANGED at /\ pc[i] \in Handling
    BY <1>10 DEF LaunchChild, ChildEnds, Deadline, local, Handling
  <2>2. (\E s \in Handling : Keep(i, s)) \/ \E a \in Reply : Answer(i, a)
    BY <1>10 DEF LaunchChild, ChildEnds, Deadline, Handling, Reply
  <2> QED BY <1>3, <1>4, <2>1, <2>2
<1>11. CASE ClaimTicket(i)
  BY <1>11 DEF ClaimTicket, gate, local
<1> QED BY <1>5, <1>6, <1>7, <1>8, <1>9, <1>10, <1>11 DEF Act, Handle

\* A step of one invocation, and the death of a service, keep the loops.
LEMMA LoopStep ==
    ASSUME Inv, LoopIsHeld, NEW i \in Invocation, Act(i)
    PROVE  LoopIsHeld'
<1>1. loop \in [Service -> Action \cup {None}] /\ None \notin Invocation
  BY TicketServiceAssumption DEF Inv, Types
<1>2. \A j \in Invocation \ {i} : pc'[j] = pc[j] /\ at'[j] = at[j]
  BY OthersStay DEF Inv
<1>3. CASE UNCHANGED loop /\ pc[i] \notin Handling /\ pc'[i] \notin Handling
  BY <1>2, <1>3 DEF LoopIsHeld
<1>4. CASE /\ i \in Action /\ at[i] \in Service /\ at'[i] = at[i] /\ loop[at[i]] = None
           /\ pc[i] \notin Handling /\ pc'[i] \in Handling
           /\ loop' = [loop EXCEPT ![at[i]] = i]
  <2>1. loop'[at[i]] = i /\ \A s \in Service : s # at[i] => loop'[s] = loop[s]
    BY <1>1, <1>4
  <2> QED BY <1>1, <1>2, <1>4, <2>1 DEF LoopIsHeld
<1>5. CASE UNCHANGED <<loop, at>> /\ pc[i] \in Handling /\ pc'[i] \in Handling
  BY <1>2, <1>5 DEF LoopIsHeld
<1>6. CASE /\ at[i] \in Service /\ at'[i] = at[i] /\ pc[i] \in Handling /\ pc'[i] \notin Handling
           /\ loop' = [loop EXCEPT ![at[i]] = None]
  <2>1. loop[at[i]] = i
    BY <1>6 DEF LoopIsHeld
  <2>2. loop'[at[i]] = None /\ \A s \in Service : s # at[i] => loop'[s] = loop[s]
    BY <1>1, <1>6
  <2> QED BY <1>1, <1>2, <1>6, <2>1, <2>2 DEF LoopIsHeld
<1> QED BY <1>3, <1>4, <1>5, <1>6, LoopMoves

LEMMA LoopRestart ==
    ASSUME Inv, LoopIsHeld, NEW s \in Service, Restart(s)
    PROVE  LoopIsHeld'
<1>1. loop \in [Service -> Action \cup {None}] /\ None \notin Invocation
  BY TicketServiceAssumption DEF Inv, Types
<1>2. /\ loop' = [loop EXCEPT ![s] = None] /\ UNCHANGED at
      /\ pc' = [i \in Invocation |-> IF at[i] = s /\ pc[i] \in Working THEN "done" ELSE pc[i]]
  BY DEF Restart, local
<1>3. ASSUME NEW u \in Service, NEW i \in Invocation
      PROVE  loop'[u] = i <=> at'[i] = u /\ pc'[i] \in Handling
  <2>1. CASE u = s
    BY <1>1, <1>2, <2>1, HandlingFacts
  <2>2. CASE u # s
    BY <1>1, <1>2, <2>2 DEF LoopIsHeld
  <2> QED BY <2>1, <2>2
<1> QED BY <1>3 DEF LoopIsHeld

\* In every service the loop is held by exactly the action that is handled there.
THEOREM LoopIsNeverLost == Spec => []LoopIsHeld
<1>1. Init => LoopIsHeld
  <2> SUFFICES ASSUME Init PROVE LoopIsHeld
    OBVIOUS
  <2>1. None \notin Invocation /\ "new" \notin Handling
    BY TicketServiceAssumption, HandlingFacts
  <2> QED BY <2>1 DEF Init, LoopIsHeld
<1>2. Inv /\ LoopIsHeld /\ [Next]_vars => LoopIsHeld'
  <2> SUFFICES ASSUME Inv, LoopIsHeld, [Next]_vars PROVE LoopIsHeld'
    OBVIOUS
  <2>1. CASE SetClock \/ UNCHANGED vars
    BY <2>1 DEF SetClock, vars, gate, local, LoopIsHeld
  <2> QED BY <2>1, LoopStep, LoopRestart DEF Next, Act
<1> QED BY <1>1, <1>2, InvInit, InvNext, PTL DEF Spec

\* The number is one, and a writer is at a file of its package.
LEMMA StepsLeftFacts ==
    ASSUME Inv, NEW i \in Invocation
    PROVE  /\ StepsLeft(i) \in Nat /\ next[i] \in 1..(Manifest + 1)
           /\ pc[i] \in {"exists", "replace"} => next[i] <= Manifest
<1>1. /\ next[i] \in 1..(Manifest + 1) /\ Manifest \in Nat
      /\ pc[i] \in {"exists", "replace"} => next[i] <= Manifest
  BY Bounds DEF Inv, Types, InvocationInv, Placed, File
<1> QED BY <1>1 DEF StepsLeft

\* Every step of a handler brings it nearer to its end.
LEMMA HandleShortens ==
    ASSUME Inv, NEW i \in Invocation, Handle(i)
    PROVE  StepsLeft(i)' < StepsLeft(i)
<1>1. /\ pc \in [Invocation -> Steps] /\ Manifest \in Nat \ {0} /\ Placed(i)
      /\ next \in [Invocation -> 1..(Manifest + 1)]
  BY Bounds DEF Inv, Types, InvocationInv
<1>2. next[i] \in 1..(Manifest + 1) /\ (pc[i] \in {"exists", "replace"} => next[i] <= Manifest)
  BY StepsLeftFacts
<1>3. ASSUME NEW a, Answer(i, a), pc[i] \in Handling
      PROVE  StepsLeft(i)' < StepsLeft(i)
  <2>1. pc'[i] = "leave"
    BY <1>1, <1>3 DEF Answer
  <2>2. StepsLeft(i)' = 1
    BY <2>1 DEF StepsLeft
  <2>3. StepsLeft(i) > 1
    BY <1>1, <1>2, <1>3 DEF StepsLeft, Handling
  <2> QED BY <2>2, <2>3
<1>4. ASSUME NEW s \in Handling, Keep(i, s) PROVE pc'[i] = s
  BY <1>1, <1>4 DEF Keep, Go
<1>5. CASE ReadLight(i) \/ BodyFails(i) \/ Leave(i)
  <2>1. \/ pc[i] \in {"light", "leave"} /\ pc'[i] = "done"
        \/ pc[i] = "body" /\ pc'[i] = "leave"
    BY <1>1, <1>5 DEF ReadLight, BodyFails, Leave, Go
  <2> QED BY <1>1, <2>1 DEF StepsLeft
<1>6. CASE BodyRead(i)
  <2>1. pc[i] = "body" /\ pc'[i] = First(i)
    BY <1>1, <1>6 DEF BodyRead, Go
  <2>2. i \in Action
    BY <1>1, <2>1 DEF Placed, Working
  <2>3. First(i) \in {"issue", "sample", "child"}
    BY <2>2, Routes DEF First, Action
  <2> QED BY <1>1, <2>1, <2>3 DEF StepsLeft
<1>7. CASE IssueAuthorization(i) \/ SampleTime(i) \/ StampTime(i)
  <2>1. \/ pc[i] = "issue" /\ Keep(i, "check") /\ UNCHANGED next
        \/ pc[i] = "sample" /\ Keep(i, "stamp")
        \/ pc[i] = "stamp" /\ Keep(i, "check") /\ UNCHANGED next
        \/ pc[i] \in Handling /\ Answer(i, "refused")
    BY <1>7 DEF IssueAuthorization, SampleTime, StampTime, Handling, local
  <2>2. \/ pc[i] \in {"issue", "stamp"} /\ pc'[i] = "check"
        \/ pc[i] = "sample" /\ pc'[i] = "stamp"
        \/ pc[i] \in Handling /\ Answer(i, "refused")
    BY <1>4, <2>1 DEF Handling
  <2>3. CASE \/ pc[i] \in {"issue", "stamp"} /\ pc'[i] = "check"
             \/ pc[i] = "sample" /\ pc'[i] = "stamp"
    BY <1>1, <2>3 DEF StepsLeft
  <2> QED BY <1>3, <2>2, <2>3
<1>8. CASE CheckPackage(i) \/ NoCapacity(i) \/ StageFile(i)
  <2>1. \/ pc[i] = "check" /\ Keep(i, "exists") /\ UNCHANGED next
        \/ pc[i] = "exists" /\ Keep(i, "replace") /\ UNCHANGED next
        \/ pc[i] \in Handling /\ \E a \in Reply : Answer(i, a)
    BY <1>8 DEF CheckPackage, NoCapacity, StageFile, Handling, Reply, local
  <2>2. CASE pc[i] = "check" /\ Keep(i, "exists") /\ UNCHANGED next
    <3>1. pc'[i] = "exists" /\ next'[i] = 1
      BY <1>1, <1>4, <2>2 DEF Handling, Placed
    <3> QED BY <1>1, <2>2, <3>1 DEF StepsLeft
  <2>3. CASE pc[i] = "exists" /\ Keep(i, "replace") /\ UNCHANGED next
    <3>1. pc'[i] = "replace" /\ next'[i] = next[i]
      BY <1>4, <2>3 DEF Handling
    <3> QED BY <1>1, <1>2, <2>3, <3>1 DEF StepsLeft
  <2> QED BY <1>3, <2>1, <2>2, <2>3
<1>9. CASE ReplaceFile(i)
  <2>1. /\ pc[i] = "replace" /\ next'[i] = next[i] + 1
        /\ Keep(i, "exists") \/ Keep(i, "launch") \/ Answer(i, "ticket")
    BY <1>1, <1>9 DEF ReplaceFile
  <2>2. CASE Keep(i, "exists")
    <3>1. pc'[i] = "exists"
      BY <1>4, <2>2 DEF Handling
    <3> QED BY <1>1, <1>2, <2>1, <3>1 DEF StepsLeft
  <2>3. CASE Keep(i, "launch")
    <3>1. pc'[i] = "launch"
      BY <1>4, <2>3 DEF Handling
    <3> QED BY <1>1, <1>2, <2>1, <3>1 DEF StepsLeft
  <2>4. CASE Answer(i, "ticket")
    BY <1>3, <2>1, <2>4 DEF Handling
  <2> QED BY <2>1, <2>2, <2>3, <2>4
<1>10. CASE LaunchChild(i) \/ ChildEnds(i) \/ Deadline(i)
  <2>1. \/ pc[i] = "launch" /\ Keep(i, "child")
        \/ pc[i] \in Handling /\ \E a \in Reply : Answer(i, a)
    BY <1>10 DEF LaunchChild, ChildEnds, Deadline, Handling, Reply
  <2>2. CASE pc[i] = "launch" /\ Keep(i, "child")
    <3>1. pc'[i] = "child"
      BY <1>4, <2>2 DEF Handling
    <3> QED BY <2>2, <3>1 DEF StepsLeft
  <2> QED BY <1>3, <2>1, <2>2
<1> QED BY <1>5, <1>6, <1>7, <1>8, <1>9, <1>10 DEF Handle, Write

\* The steps of the others, and the death of a service, add nothing.
LEMMA NothingIsAdded ==
    ASSUME Inv, [Next]_vars, NEW i \in Invocation, ~ Handle(i), pc[i] # "new"
    PROVE  StepsLeft(i)' <= StepsLeft(i)
<1>1. StepsLeft(i) \in Nat /\ Types
  BY StepsLeftFacts DEF Inv
<1>2. CASE pc'[i] = pc[i] /\ next'[i] = next[i]
  <2>1. StepsLeft(i)' = StepsLeft(i)
    BY <1>2 DEF StepsLeft
  <2> QED BY <1>1, <2>1
<1>3. CASE pc'[i] = "done"
  <2>1. StepsLeft(i)' = 0
    BY <1>3 DEF StepsLeft
  <2> QED BY <1>1, <2>1
<1>4. ASSUME NEW j \in Invocation, Act(j) PROVE pc'[i] = pc[i] /\ next'[i] = next[i]
  <2>1. CASE j # i
    BY <1>1, <1>4, <2>1, OthersStay
  <2>2. CASE j = i
    <3>1. ClaimTicket(i)
      BY <1>4, <2>2 DEF Act, Arrive
    <3> QED BY <3>1 DEF ClaimTicket, local
  <2> QED BY <2>1, <2>2
<1>5. ASSUME NEW s \in Service, Restart(s)
      PROVE  pc'[i] = "done" \/ (pc'[i] = pc[i] /\ next'[i] = next[i])
  BY <1>5 DEF Restart, local
<1>6. CASE SetClock \/ UNCHANGED vars
  <2>1. pc'[i] = pc[i] /\ next'[i] = next[i]
    BY <1>6 DEF SetClock, vars, local
  <2> QED BY <1>2, <2>1
<1> QED BY <1>2, <1>3, <1>4, <1>5, <1>6 DEF Next, Act

\* An invocation is over after finitely many steps of its handler, and what the others do
\* adds none.
THEOREM HandlingIsFinite ==
    Spec => [][\A i \in Invocation :
                 /\ Handle(i) => StepsLeft(i)' < StepsLeft(i)
                 /\ pc[i] # "new" => StepsLeft(i)' <= StepsLeft(i)]_vars
<1> DEFINE Shorter == \A i \in Invocation :
                        /\ Handle(i) => StepsLeft(i)' < StepsLeft(i)
                        /\ pc[i] # "new" => StepsLeft(i)' <= StepsLeft(i)
<1>1. ASSUME Inv, [Next]_vars PROVE Shorter
  <2>1. ASSUME NEW i \in Invocation PROVE StepsLeft(i) \in Nat /\ StepsLeft(i)' \in Nat
    <3>1. Inv'
      BY <1>1, InvNext
    <3>2. StepsLeft(i)' \in Nat
      <4>1. /\ next'[i] \in 1..(Manifest + 1) /\ Manifest \in Nat
            /\ pc'[i] \in {"exists", "replace"} => next'[i] <= Manifest
        BY <3>1, Bounds DEF Inv, Types, InvocationInv, Placed, File
      <4> QED BY <4>1 DEF StepsLeft
    <3> QED BY <1>1, <3>2, StepsLeftFacts
  <2>2. \A i \in Invocation : Handle(i) => StepsLeft(i)' < StepsLeft(i)
    BY <1>1, HandleShortens
  <2>3. \A i \in Invocation : ~ Handle(i) /\ pc[i] # "new" => StepsLeft(i)' <= StepsLeft(i)
    BY <1>1, NothingIsAdded
  <2> QED BY <2>1, <2>2, <2>3
<1> QED BY <1>1, InvInit, InvNext, PTL DEF Spec
=============================================================================
