----------------------- MODULE MCPersistentWatchlists -----------------------
(* Small instances of PersistentWatchlists. *)
EXTENDS PersistentWatchlists, TLC

\* Ids, bodies, releases and clients are interchangeable.
Interchangeable ==
    Permutations(Clients) \cup Permutations(Watchlists)
        \cup Permutations(Bodies) \cup Permutations(Releases)
=============================================================================
