------------------------------ MODULE MCRoutes ------------------------------
(* Two prefixes, two next-hop sets and two levels, for TLC. fibFilter refuses  *)
(* one set of next hops at one of the levels.                                 *)
EXTENDS RouteProgramming, TLC

CONSTANTS n1, n2, l1, l2

MCAllowed == Route \ {[same |-> n1, class |-> l2]}

Inputs(change, update, withdraw, sweep, subscribe, stop, restart) ==
    [k \in InputKind |->
        CASE k = "change" -> change [] k = "update" -> update [] k = "withdraw" -> withdraw
          [] k = "sweep" -> sweep [] k = "subscribe" -> subscribe [] k = "stop" -> stop
          [] k = "restart" -> restart]

ProgramInputs == Inputs(3, 1, 1, 1, 1, 1, 1)
WatchInputs == Inputs(2, 0, 0, 0, 1, 0, 0)
============================================================================
