------------------------------- MODULE MCLan -------------------------------
(* Stations r1 < r2 < r3 of one LAN, for TLC. LSPs la and lb are r1's, lp is  *)
(* the pseudonode LSP r1 originates when it is DIS.                           *)
EXTENDS LanFlooding, TLC

CONSTANTS r1, r2, r3, c1, la, lb, lp

MCEnds == [c \in Circuit |-> Node]

MCOwner == [i \in LspId |-> r1]

MCPseudonode == [i \in LspId |-> IF i = lp THEN c1 ELSE NONE]

MCRank == [n \in Node |-> CASE n = r1 -> 1 [] n = r2 -> 2 [] OTHER -> 3]

Faults(any, loss, crash, flap, life, gone, stale) ==
    [k \in FaultKind |->
        CASE k = "any" -> any [] k = "loss" -> loss [] k = "crash" -> crash
          [] k = "flap" -> flap [] k = "life" -> life [] k = "gone" -> gone
          [] k = "stale" -> stale]

ElectionBudget == Faults(0, 0, 0, 0, 0, 0, 0)
LanConvergenceBudget == Faults(1, 1, 1, 1, 0, 0, 1)
LanFaultBudget == Faults(3, 0, 1, 0, 1, 1, 0)
LanPurgeBudget == Faults(2, 0, 1, 1, 0, 0, 0)

FaultSymmetry == Permutations(Body) \cup Permutations(LspId)
============================================================================
