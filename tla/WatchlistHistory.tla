-------------------------- MODULE WatchlistHistory --------------------------
(***************************************************************************)
(* What the watchlist store promises, without previews, versions to expect *)
(* or transactions: each watchlist is a history of snapshots that only     *)
(* grows, a command is executed at once on the last one, and making a      *)
(* watchlist the default takes the default from the one that has it, or    *)
(* adds a snapshot without a change to one that had it.                    *)
(* PersistentWatchlists implements it.                                     *)
(***************************************************************************)
EXTENDS Naturals, Sequences

CONSTANTS Watchlists, Bodies

VARIABLE history    \* the snapshots of each watchlist, by version

Exists(w) == history[w] # << >>
Last(w) == history[w][Len(history[w])]
HasDefault(w) == Exists(w) /\ Last(w).is_default /\ ~ Last(w).deleted

Init == history = [w \in Watchlists |-> << >>]

\* history[w] with one more snapshot, which carries the next version.
Grown(w, s) == Append(history[w], [s EXCEPT !.version = Len(history[w]) + 1])

\* w gets the snapshot s.  If that makes it the default, one other watchlist d can get
\* a snapshot that differs from its last in nothing but a cleared default flag (d = w:
\* none does), and the present default, if any, is then that d.
Write(w, s) ==
    \E d \in Watchlists :
        /\ d # w => Exists(d) /\ s.is_default /\ ~ s.deleted
        /\ s.is_default /\ ~ s.deleted => \A x \in Watchlists : HasDefault(x) => x \in {w, d}
        /\ history' = [x \in Watchlists |->
            CASE x = w -> Grown(x, s)
              [] x = d /\ x # w -> Grown(x, [Last(x) EXCEPT !.is_default = FALSE])
              [] OTHER -> history[x]]

Create(w) ==
    /\ ~ Exists(w)
    /\ \E body \in Bodies, default \in BOOLEAN :
        Write(w, [version |-> 1, is_default |-> default, deleted |-> FALSE, body |-> body])

Edit(w) == \E body \in Bodies : Write(w, [Last(w) EXCEPT !.body = body])

SetDefault(w) ==
    /\ ~ Last(w).deleted
    /\ Write(w, [Last(w) EXCEPT !.is_default = TRUE])

Delete(w) == Write(w, [Last(w) EXCEPT !.deleted = TRUE, !.is_default = FALSE])

Restore(w) == Write(w, [Last(w) EXCEPT !.deleted = FALSE])

RollBack(w) == \E v \in DOMAIN history[w] : Write(w, [history[w][v] EXCEPT !.deleted = FALSE])

Next ==
    \E w \in Watchlists :
        \/ Create(w)
        \/ /\ Exists(w)
           /\ Edit(w) \/ SetDefault(w) \/ Delete(w) \/ Restore(w) \/ RollBack(w)

Spec == Init /\ [][Next]_history
=============================================================================
