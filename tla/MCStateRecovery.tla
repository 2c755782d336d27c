-------------------------- MODULE MCStateRecovery --------------------------
(* Instances of StateRecovery for TLC. *)
EXTENDS StateRecovery, TLC

CONSTANTS j1, j2, d1, d2, i1

JobSymmetry == Permutations({j1, j2})

Old == [m \in Member |-> 0]
New == [Old EXCEPT ![Affected] = 1]
Packed(f) == [manifest |-> f, files |-> f]

\* Nothing was backed up yet, and writers are at work: they and the backups meet.
BackupInit ==
    /\ root = [p \in Place |-> None]
    /\ live = [m \in Member |-> [value |-> 0, stamp |-> 0]]
    /\ past = {Old} /\ made = {}
    /\ package = [p \in Place |-> None]
    /\ faults = MaxFaults
    /\ pc = [j \in Job |-> "new"]

\* Two backups exist: two operations meet one accident, and one operation alone, maybe of a
\* migration of the first, meets all of them.
RootsInit ==
    /\ \E alone, taken \in BOOLEAN :
           /\ taken => alone
           /\ root = [p \in Place |-> IF taken /\ p = d2
                                      THEN [kind |-> "migrate", content |-> Migrated(Old),
                                            bound |-> Old]
                                      ELSE None]
           /\ faults = IF alone THEN 0 ELSE MaxFaults - 1
           /\ pc = [j \in Job |-> IF alone /\ j = j2 THEN "failed" ELSE "new"]
    /\ live = [m \in Member |-> [value |-> New[m], stamp |-> MaxWrites]]
    /\ past = {Old, New} /\ made = {Old, New}
    /\ package = [p \in Place |-> IF p = d1 THEN Packed(Old) ELSE Packed(New)]

MCInit ==
    /\ BackupInit \/ RootsInit
    /\ staging = [s \in Kinds \X Place \X Id |-> None]
    /\ kind = [j \in Job |-> None] /\ place = [j \in Job |-> None]
    /\ id = [j \in Job |-> None] /\ from = [j \in Job |-> None]
    /\ stamps = [j \in Job |-> Blank] /\ image = [j \in Job |-> Blank]
    /\ rows = [j \in Job |-> Blank]
    /\ before = [j \in Job |-> [manifest |-> None, files |-> Blank]]
    /\ at = [j \in Job |-> 1]

MCSpec == MCInit /\ [][Next]_vars
=============================================================================
