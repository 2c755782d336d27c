-------------------------- MODULE MCTicketService --------------------------
(* Instances of TicketService for TLC. *)
EXTENDS TicketService

CONSTANTS a1, f1, f2, f3, e1, g1, s1, s2

Given(f, i, v) == [f EXCEPT ![i] = v]

\* The invocations that come, and what was served before: any two come to new services,
\* or two local actions come after s1 has served a third one, at second 1.
FewInit ==
    /\ clock = 0
    /\ active = [s \in Service |-> 0]
    /\ loop = [s \in Service |-> None]
    /\ stops = [s \in Service |-> 0]
    /\ life = [i \in Invocation |-> 0]
    /\ LET Come(few) == pc = [i \in Invocation |-> IF i \in few THEN "new" ELSE "done"]
           Nothing(S) == [x \in S |-> None]
           AtFirst == [i \in Invocation |-> 1]
           t == [by |-> "local_action", time |-> <<1, 0>>]
       IN \/ /\ \/ \E i, j \in {a1, f1, e1, g1} : Come({i, j})
                \/ Come({f1, f2})
             /\ last = Nothing(Service)
             /\ package = [u \in Ticket |-> {}] /\ claimed = {}
             /\ now = [i \in Invocation |-> 0] /\ next = AtFirst
             /\ at = Nothing(Invocation) /\ ticket = Nothing(Invocation)
             /\ child = Nothing(Invocation) /\ answer = Nothing(Invocation)
          \/ /\ Come({f1, f2})
             /\ last = Given(Nothing(Service), s1, t.time)
             /\ package = [u \in Ticket |-> IF u = t THEN File ELSE {}] /\ claimed = {t}
             /\ now = [i \in Invocation |-> IF i = f3 THEN 1 ELSE 0]
             /\ next = Given(AtFirst, f3, Manifest + 1)
             /\ at = Given(Nothing(Invocation), f3, s1)
             /\ ticket = Given(Nothing(Invocation), f3, t)
             /\ child = Given(Nothing(Invocation), f3, "won")
             /\ answer = Given(Nothing(Invocation), f3, "executed")
FewSpec == FewInit /\ [][Next]_vars /\ \A i \in Invocation : WF_vars(Handle(i))
=============================================================================
