------------------------------- MODULE MCP2P -------------------------------
(* Two routers and one point-to-point circuit, for TLC. LSP la is originated  *)
(* by r1; lx comes from a router beyond the two.                              *)
EXTENDS P2PFlooding, TLC

CONSTANTS r1, r2, c1, la, lx

MCEnds == [c \in Circuit |-> {r1, r2}]

MCOwner == [i \in LspId |-> IF i = la THEN r1 ELSE NONE]

MCPseudonode == [i \in LspId |-> NONE]

Faults(any, loss, crash, flap, life, gone, stale) ==
    [k \in FaultKind |->
        CASE k = "any" -> any [] k = "loss" -> loss [] k = "crash" -> crash
          [] k = "flap" -> flap [] k = "life" -> life [] k = "gone" -> gone
          [] k = "stale" -> stale]

DeliveryBudget == Faults(2, 1, 0, 1, 0, 0, 0)
ConvergenceBudget == Faults(1, 1, 1, 1, 1, 0, 1)
FaultBudget == Faults(2, 0, 1, 0, 1, 1, 1)
PurgeBudget == Faults(2, 1, 0, 0, 1, 0, 0)
RestartBudget == Faults(3, 2, 1, 0, 0, 0, 0)
ReclaimBudget == Faults(1, 0, 1, 0, 0, 0, 0)

NodeSymmetry == Permutations(Node)
BodySymmetry == Permutations(Body)
============================================================================
