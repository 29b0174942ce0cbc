-------------------------- MODULE RouteProgramming --------------------------
(***************************************************************************)
(* From computed routes to the kernel and to the subscribers: the recompute *)
(* and back-off of the Serve loop (server.go), updateRIB and programFIB    *)
(* (rib.go), the retry of failed writes in housekeeping, the startup sweep *)
(* and the event subscriptions (watch.go).                                 *)
(*                                                                         *)
(* The Serve goroutine, the kernel and the subscribers interleave between  *)
(* the routes of one programFIB.  What SPF computes is an input here.      *)
(***************************************************************************)
EXTENDS Integers, FiniteSets

CONSTANTS
    Prefix,
    Same,      \* what sameRoute compares: metric, algorithm and next hops
    Class,     \* what it does not: level and preference class
    Allowed,   \* the routes fibFilter accepts
    Watcher,   \* subscriptions
    Buffer,    \* watcherBuffer
    NONE,      \* no route
    Budget     \* bound: how often each kind of input or fault happens

Route == [same : Same, class : Class]

\* A topology change, a failed Update, Withdraw or Sweep, a subscription, a
\* shutdown or a restart.
InputKind == {"change", "update", "withdraw", "sweep", "subscribe", "stop", "restart"}

ASSUME RouteAssumption ==
    /\ Allowed \subseteq Route
    /\ NONE \notin Route \cup Same
    /\ Buffer \in Nat
    /\ Budget \in [InputKind -> Nat]

VARIABLES
    pc,         \* where the Serve goroutine is
    routes,     \* what SPF computes from the current database
    dirty,      \* spfDirty
    holding,    \* the SPF back-off timer is armed
    rib,        \* s.rib
    next,       \* the argument of the programFIB that runs
    todo,       \* prefixes it has not visited yet
    installed,  \* fibInstalled
    pending,    \* fibPending
    kernel,     \* the IS-IS routes in the kernel's table
    sub,        \* the subscriptions
    left        \* left[k]: inputs of kind k still to come

loopVars == <<pc, dirty, holding, next, todo>>
fibVars == <<installed, pending, kernel>>
vars == <<loopVars, routes, rib, fibVars, sub, left>>

Spend(k) ==
    /\ left[k] > 0
    /\ left' = [left EXCEPT ![k] = @ - 1]

NoRoutes == [p \in Prefix |-> NONE]

\* A subscription. `told` is Initial followed by every event queued since, which
\* is what the consumer knows once it has read the `unread` ones of the channel.
Subscription ==
    [open : BOOLEAN, lagged : BOOLEAN, unread : 0..Buffer,
     told : [Prefix -> Route \cup {NONE}]]

NotSubscribed == [open |-> FALSE, lagged |-> FALSE, unread |-> 0, told |-> NoRoutes]

\* Serve has originated its LSPs and swept the kernel, and enters its loop.
Starting ==
    /\ pc = "select" /\ routes = NoRoutes /\ dirty = TRUE /\ holding = FALSE
    /\ rib = NoRoutes /\ next = NoRoutes /\ todo = {}
    /\ installed = {} /\ pending = {} /\ sub = [w \in Watcher |-> NotSubscribed]

Init == Starting /\ kernel = NoRoutes /\ left = Budget

----------------------------------------------------------------------------
(* Subscriptions *)

\* Mutant: the queue grows without a limit.
emit_unbounded(subs, p, r) ==
    [w \in Watcher |->
        IF subs[w].open THEN [subs[w] EXCEPT !.unread = @ + 1, !.told[p] = r] ELSE subs[w]]

\* Mutant: an event that does not fit is skipped.
emit_skipping(subs, p, r) ==
    [w \in Watcher |->
        IF subs[w].open /\ subs[w].unread < Buffer
        THEN [subs[w] EXCEPT !.unread = @ + 1, !.told[p] = r] ELSE subs[w]]

\* emit: a subscriber whose buffer is full is dropped.
emit(subs, p, r) ==
    [w \in Watcher |->
        IF ~subs[w].open THEN subs[w]
        ELSE IF subs[w].unread < Buffer
        THEN [subs[w] EXCEPT !.unread = @ + 1, !.told[p] = r]
        ELSE [subs[w] EXCEPT !.open = FALSE, !.lagged = TRUE]]

Subscribe(w) ==
    /\ pc = "select" /\ ~sub[w].open /\ Spend("subscribe")
    /\ sub' = [sub EXCEPT ![w] = [open |-> TRUE, lagged |-> FALSE, unread |-> 0, told |-> rib]]
    /\ pc' = "check"
    /\ UNCHANGED <<routes, dirty, holding, rib, next, todo, fibVars>>

Unsubscribe(w) ==
    /\ pc = "select" /\ sub[w].open
    /\ sub' = [sub EXCEPT ![w].open = FALSE]
    /\ pc' = "check"
    /\ UNCHANGED <<routes, dirty, holding, rib, next, todo, fibVars, left>>

\* The consumer's goroutine, at any time, also after the channel was closed.
Consume(w) ==
    /\ sub[w].unread > 0
    /\ sub' = [sub EXCEPT ![w].unread = @ - 1]
    /\ UNCHANGED <<loopVars, routes, rib, fibVars, left>>

----------------------------------------------------------------------------
(* The arms of the Serve loop *)

StartProgram(new) ==
    /\ pc' = "program" /\ next' = new
    /\ todo' = {p \in Prefix : new[p] # NONE \/ rib[p] # NONE}

ToCheck == pc' = "check" /\ UNCHANGED <<next, todo>>

\* The end of housekeeping retries the writes the FIB refused.
ToRetry == IF pending = {} THEN ToCheck ELSE StartProgram(rib)

\* A frame, a management operation or the tick changes what SPF computes, and
\* marks the RIB dirty.
Change(p, r) ==
    /\ pc = "select" /\ Spend("change") /\ r # routes[p]
    /\ routes' = [routes EXCEPT ![p] = r]
    /\ dirty' = TRUE
    /\ ToCheck \/ ToRetry
    /\ UNCHANGED <<holding, rib, fibVars, sub>>

\* A tick that changes nothing of the topology; with nothing to do it is a stutter.
Tick ==
    /\ pc = "select" /\ (pending # {} \/ (dirty /\ ~holding))
    /\ ToRetry
    /\ UNCHANGED <<routes, dirty, holding, rib, fibVars, sub, left>>

HoldEnds ==
    /\ pc = "select" /\ holding
    /\ holding' = FALSE /\ pc' = "check"
    /\ UNCHANGED <<routes, dirty, rib, next, todo, fibVars, sub, left>>

\* After every arm: recompute now, or when the hold is over.
Check ==
    /\ pc = "check"
    /\ IF dirty /\ ~holding
       THEN StartProgram(routes) /\ dirty' = FALSE /\ holding' = TRUE
       ELSE pc' = "select" /\ UNCHANGED <<dirty, holding, next, todo>>
    /\ UNCHANGED <<routes, rib, fibVars, sub, left>>

----------------------------------------------------------------------------
(* programFIB, one prefix at a time *)

\* Mutant: a retried write is reported again.
changed_pending(p) ==
    rib[p] = NONE \/ rib[p].same # next[p].same \/ p \in pending

changed(p) == rib[p] = NONE \/ rib[p].same # next[p].same

Visit(p) ==
    /\ pc = "program" /\ p \in todo
    /\ todo' = todo \ {p}
    /\ UNCHANGED <<pc, dirty, holding, next, routes, rib>>

Report(p) ==
    sub' = IF next[p] = NONE \/ changed(p) THEN emit(sub, p, next[p]) ELSE sub

\* Withdraw if installed. Its failure is logged and forgotten.
Forget(p) ==
    /\ installed' = installed \ {p} /\ pending' = pending \ {p}
    /\ IF p \in installed
       THEN \/ kernel' = [kernel EXCEPT ![p] = NONE] /\ UNCHANGED left
            \/ Spend("withdraw") /\ UNCHANGED kernel
       ELSE UNCHANGED <<kernel, left>>

Reject(p) ==
    /\ next[p] # NONE /\ next[p] \notin Allowed
    /\ Visit(p) /\ Report(p) /\ Forget(p)

\* Mutant: a write that is outstanding is not looked at.
Current_ignoringPending(p) == ~changed(p) /\ p \in installed

\* Unchanged and already installed.
Current(p) == ~changed(p) /\ p \in installed /\ p \notin pending

Keep(p) ==
    /\ next[p] # NONE /\ next[p] \in Allowed /\ Current(p)
    /\ Visit(p) /\ Report(p) /\ UNCHANGED <<fibVars, left>>

Write(p) ==
    /\ next[p] # NONE /\ next[p] \in Allowed /\ ~Current(p)
    /\ Visit(p) /\ Report(p) /\ UNCHANGED left
    /\ kernel' = [kernel EXCEPT ![p] = next[p].same]
    /\ installed' = installed \cup {p} /\ pending' = pending \ {p}

\* Mutant: a failed write of a route that is installed is not noted.
WriteFails_unnoted(p) ==
    /\ next[p] # NONE /\ next[p] \in Allowed /\ ~Current(p)
    /\ Visit(p) /\ Report(p) /\ Spend("update")
    /\ pending' = IF p \in installed THEN pending ELSE pending \cup {p}
    /\ UNCHANGED <<kernel, installed>>

\* RouteReplace is atomic: the kernel keeps what it had.
WriteFails(p) ==
    /\ next[p] # NONE /\ next[p] \in Allowed /\ ~Current(p)
    /\ Visit(p) /\ Report(p) /\ Spend("update")
    /\ pending' = pending \cup {p}
    /\ UNCHANGED <<kernel, installed>>

\* The second loop, over the routes that are gone.
Remove(p) ==
    /\ next[p] = NONE /\ \A q \in todo : next[q] = NONE
    /\ Visit(p) /\ Report(p) /\ Forget(p)

ProgramDone ==
    /\ pc = "program" /\ todo = {}
    /\ rib' = next /\ pc' = "check"
    /\ UNCHANGED <<dirty, holding, next, todo, routes, fibVars, sub, left>>

----------------------------------------------------------------------------
(* Shutdown, crash and restart *)

\* shutdown leaves the routes in the kernel.
Stop ==
    /\ pc = "select" /\ Spend("stop")
    /\ sub' = [w \in Watcher |-> [sub[w] EXCEPT !.open = FALSE]]
    /\ pc' = "stopped"
    /\ UNCHANGED <<dirty, holding, next, todo, routes, rib, fibVars>>

\* The process died, wherever it was, and starts again. The routes in S survive
\* the startup sweep, which ends at the first route it cannot delete.
Restart(S) ==
    /\ left["restart"] > 0 /\ (S # {} => left["sweep"] > 0)
    /\ left' = [left EXCEPT !["restart"] = @ - 1,
                            !["sweep"] = IF S = {} THEN @ ELSE @ - 1]
    /\ kernel' = [p \in Prefix |-> IF p \in S THEN kernel[p] ELSE NONE]
    /\ pc' = "select" /\ routes' = NoRoutes /\ dirty' = TRUE /\ holding' = FALSE
    /\ rib' = NoRoutes /\ next' = NoRoutes /\ todo' = {}
    /\ installed' = {} /\ pending' = {}
    /\ sub' = [w \in Watcher |-> NotSubscribed]

----------------------------------------------------------------------------
(* The next-state relation *)

Loop ==
    \/ Check \/ ProgramDone
    \/ \E p \in Prefix : Reject(p) \/ Keep(p) \/ Write(p) \/ WriteFails(p) \/ Remove(p)

Next ==
    \/ Loop \/ Tick \/ HoldEnds \/ Stop
    \/ \E p \in Prefix, r \in Route \cup {NONE} : Change(p, r)
    \/ \E w \in Watcher : Subscribe(w) \/ Unsubscribe(w) \/ Consume(w)
    \/ \E S \in SUBSET {p \in Prefix : kernel[p] # NONE} : Restart(S)

Spec == Init /\ [][Next]_vars

\* The Serve goroutine runs, its ticker recurs and the hold is a timer; nothing
\* is assumed of consumers.
FairSpec == Spec /\ WF_vars(Loop) /\ WF_vars(Tick) /\ WF_vars(HoldEnds)

----------------------------------------------------------------------------
(* Properties *)

TypeOK ==
    /\ pc \in {"select", "check", "program", "stopped"}
    /\ routes \in [Prefix -> Route \cup {NONE}]
    /\ rib \in [Prefix -> Route \cup {NONE}]
    /\ next \in [Prefix -> Route \cup {NONE}]
    /\ dirty \in BOOLEAN /\ holding \in BOOLEAN
    /\ todo \subseteq Prefix /\ installed \subseteq Prefix /\ pending \subseteq Prefix
    /\ kernel \in [Prefix -> Same \cup {NONE}]
    /\ sub \in [Watcher -> Subscription]
    /\ left \in [InputKind -> Nat]

\* The route of p as far as programFIB has come.
Desired(p) == IF pc = "program" /\ p \notin todo THEN next[p] ELSE rib[p]

\* The route of p belongs in the kernel.
Wanted(p) == Desired(p) # NONE /\ Desired(p) \in Allowed

\* At every moment, through changes, failed writes, a filter that flips and
\* restarts: a route that belongs in the kernel is there with its next hops or is
\* in fibPending, and as long as no Withdraw and no sweep failed a prefix without
\* such a route is not in the kernel (programFIB, Sweep).
KernelMirrorsRIB ==
    \A p \in Prefix :
        /\ Wanted(p) /\ p \notin pending => kernel[p] = Desired(p).same
        /\ ~Wanted(p) /\ left["withdraw"] = Budget["withdraw"] /\ left["sweep"] = Budget["sweep"]
               => kernel[p] = NONE

\* Two routes a subscriber of route events cannot tell apart by sameRoute.
AsTold(r, q) == IF r = NONE \/ q = NONE THEN r = q ELSE r.same = q.same

\* "Initial followed by Events is a gap-free view" (Subscription): what an open
\* subscription was told is the RIB in everything sameRoute compares, whenever it
\* was opened and whatever writes failed or were retried since.
WatchView ==
    \A w \in Watcher : sub[w].open =>
        \A p \in Prefix : AsTold(sub[w].told[p], Desired(p))

\* The same of the whole RouteInfo, which carries level and preference class.
WatchViewExact ==
    \A w \in Watcher : sub[w].open =>
        \A p \in Prefix : sub[w].told[p] = Desired(p)

\* A write that is retried is not reported again (updateRIB: a transient error
\* does not re-emit change events): an event tells its subscriber something new.
NoRepeatedEvents ==
    [][\A w \in Watcher : sub'[w].unread > sub[w].unread =>
           \E p \in Prefix : ~AsTold(sub[w].told[p], sub'[w].told[p])]_vars

\* Once changes and failures stop, every route SPF computes that fibFilter accepts
\* gets into the kernel and stays there: no failed write waits for a recompute
\* that does not come, and no change is lost in the SPF back-off.
RoutesInstalled ==
    <>[](pc = "stopped" \/ \A p \in Prefix :
             routes[p] # NONE /\ routes[p] \in Allowed => kernel[p] = routes[p].same)
============================================================================
