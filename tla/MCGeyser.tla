-------------------------------- MODULE MCGeyser --------------------------------
(***************************************************************************)
(* Messages m1 to m3, the second for a muted chat and the third for one    *)
(* that the user left, and deposits d1 to d3.  A behaviour begins with the *)
(* transactions that are to come, and with whether there are an error and  *)
(* a restart.  A third transaction goes beyond what a backup takes.        *)
(***************************************************************************)
EXTENDS Geyser

CONSTANTS m1, m2, m3, d1, d2, d3, w1

Scenarios == {
    [coming |-> {m1, m2}, faulty |-> TRUE],
    [coming |-> {m1, m3}, faulty |-> TRUE],
    [coming |-> {d1, d2}, faulty |-> TRUE],
    [coming |-> {m1, d1}, faulty |-> FALSE],
    [coming |-> {m1, m2, m3}, faulty |-> FALSE],
    [coming |-> {d1, d2, d3}, faulty |-> FALSE]}

MCInit ==
    /\ Init
    /\ \E s \in Scenarios :
          /\ coming = s.coming
          /\ faults = IF s.faulty THEN 0 ELSE MaxFaults
          /\ restarts = IF s.faulty THEN 0 ELSE MaxRestarts

MCFairSpec == MCInit /\ [][Next]_vars /\ Fairness

=============================================================================
