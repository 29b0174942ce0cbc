----------------------- MODULE RouteProgrammingProofs -----------------------
(***************************************************************************)
(* The kernel mirrors the RIB, subscribers are told what the RIB holds and *)
(* no event repeats, for any prefixes, routes, filter, subscribers and     *)
(* buffer.  KernelMirrorsRIB is not inductive: it rests on what            *)
(* fibInstalled and fibPending say (Bookkeeping).                          *)
(***************************************************************************)
EXTENDS RouteProgramming, TLAPS

\* No Withdraw and no sweep failed so far.
Clean == left["withdraw"] = Budget["withdraw"] /\ left["sweep"] = Budget["sweep"]

\* fibInstalled and fibPending hold prefixes with a route that belongs in the
\* kernel only; one that is in neither is not in the kernel. A prefix programFIB
\* has yet to visit has a route before or after it.
Bookkeeping ==
    /\ \A p \in todo : next[p] # NONE \/ rib[p] # NONE
    /\ left["withdraw"] <= Budget["withdraw"] /\ left["sweep"] <= Budget["sweep"]
    /\ \A p \in Prefix :
           /\ Wanted(p) /\ p \notin pending =>
                  p \in installed /\ kernel[p] = Desired(p).same
           /\ ~Wanted(p) => p \notin installed /\ p \notin pending
           /\ p \notin installed /\ Clean => kernel[p] = NONE

IInv == TypeOK /\ Bookkeeping /\ WatchView

\* What each action preserves.
Keeps == TypeOK' /\ Bookkeeping' /\ WatchView'

Fresh ==
    \A w \in Watcher : sub'[w].unread > sub[w].unread =>
        \E p \in Prefix : ~AsTold(sub[w].told[p], sub'[w].told[p])

\* The bookkeeping implies that the kernel mirrors the RIB.
LEMMA MirrorFollows == Bookkeeping => KernelMirrorsRIB
BY DEF Bookkeeping, KernelMirrorsRIB, Clean

\* One input or fault fewer to come.
LEMMA SpendOK ==
    ASSUME TypeOK, NEW k \in InputKind, Spend(k)
    PROVE  /\ left' \in [InputKind -> Nat]
           /\ \A j \in InputKind : left'[j] <= left[j] /\ (j # k => left'[j] = left[j])
           /\ left'[k] < left[k]
BY DEF TypeOK, Spend

\* An action outside programFIB that leaves RIB, FIB and subscriptions alone and
\* has at most a programFIB started: the routes desired stay the same.
LEMMA DesiredStays ==
    ASSUME TypeOK, pc # "program", rib' = rib,
           \/ pc' # "program"
           \/ \E new \in [Prefix -> Route \cup {NONE}] : StartProgram(new)
    PROVE  \A p \in Prefix : Desired(p)' = Desired(p)
<1>1. CASE pc' # "program"
  BY <1>1 DEF Desired
<1>2. CASE \E new \in [Prefix -> Route \cup {NONE}] : StartProgram(new)
  BY <1>2 DEF Desired, StartProgram
<1> QED BY <1>1, <1>2

\* Bookkeeping and subscriptions are about the routes desired.
LEMMA SameDesired ==
    ASSUME IInv, TypeOK', \A p \in Prefix : Desired(p)' = Desired(p),
           UNCHANGED fibVars,
           (\A p \in todo : next[p] # NONE \/ rib[p] # NONE)',
           \A k \in InputKind : left'[k] <= left[k],
           \A w \in Watcher : sub'[w].open =>
               \/ sub[w].open /\ sub'[w].told = sub[w].told
               \/ \A p \in Prefix : sub'[w].told[p] = Desired(p)
    PROVE  Keeps
<1>1. /\ left["withdraw"] \in Nat /\ left["sweep"] \in Nat
      /\ left'["withdraw"] \in Nat /\ left'["sweep"] \in Nat
      /\ left'["withdraw"] <= left["withdraw"] /\ left'["sweep"] <= left["sweep"]
      /\ Budget["withdraw"] \in Nat /\ Budget["sweep"] \in Nat
  BY RouteAssumption DEF IInv, TypeOK, InputKind
<1>2. Clean' => Clean
  BY <1>1 DEF Clean, IInv, Bookkeeping
<1>3. \A p \in Prefix : Wanted(p)' = Wanted(p)
  BY DEF Wanted
<1>4. Bookkeeping'
  BY <1>1, <1>2, <1>3 DEF Bookkeeping, IInv, fibVars
<1>5. WatchView'
  BY DEF WatchView, IInv, AsTold
<1> QED BY <1>4, <1>5 DEF Keeps

\* The event of a route: who was told the RIB's old route is told the new one, or
\* is dropped.
LEMMA EmitOK ==
    ASSUME TypeOK, NEW p \in Prefix, NEW r \in Route \cup {NONE}
    PROVE  /\ emit(sub, p, r) \in [Watcher -> Subscription]
           /\ \A w \in Watcher : emit(sub, p, r)[w].open =>
                  /\ sub[w].open
                  /\ emit(sub, p, r)[w].told = [sub[w].told EXCEPT ![p] = r]
           /\ \A w \in Watcher : emit(sub, p, r)[w].unread > sub[w].unread =>
                  /\ sub[w].open
                  /\ emit(sub, p, r)[w].told = [sub[w].told EXCEPT ![p] = r]
<1> SUFFICES ASSUME NEW w \in Watcher
             PROVE  LET e == IF ~sub[w].open THEN sub[w]
                             ELSE IF sub[w].unread < Buffer
                             THEN [sub[w] EXCEPT !.unread = @ + 1, !.told[p] = r]
                             ELSE [sub[w] EXCEPT !.open = FALSE, !.lagged = TRUE]
                    IN  /\ e \in Subscription
                        /\ e.open => sub[w].open /\ e.told = [sub[w].told EXCEPT ![p] = r]
                        /\ e.unread > sub[w].unread =>
                               sub[w].open /\ e.told = [sub[w].told EXCEPT ![p] = r]
  BY DEF emit
<1>1. sub[w] \in Subscription /\ Buffer \in Nat
  BY RouteAssumption DEF TypeOK
<1>2. CASE ~sub[w].open
  BY <1>1, <1>2 DEF Subscription
<1>3. CASE sub[w].open /\ sub[w].unread < Buffer
  <2>1. sub[w].unread + 1 \in 0..Buffer /\ [sub[w].told EXCEPT ![p] = r] \in [Prefix -> Route \cup {NONE}]
    BY <1>1, <1>3 DEF Subscription
  <2> QED BY <1>1, <1>3, <2>1 DEF Subscription
<1>4. CASE sub[w].open /\ ~(sub[w].unread < Buffer)
  <2>1. /\ [sub[w] EXCEPT !.open = FALSE, !.lagged = TRUE] \in Subscription
        /\ [sub[w] EXCEPT !.open = FALSE, !.lagged = TRUE].open = FALSE
        /\ [sub[w] EXCEPT !.open = FALSE, !.lagged = TRUE].unread = sub[w].unread
    BY <1>1 DEF Subscription
  <2>2. ~(sub[w].unread > sub[w].unread)
    BY <1>1 DEF Subscription
  <2> QED BY <1>4, <2>1, <2>2
<1> QED BY <1>2, <1>3, <1>4

\* The steps of programFIB that visit p: the route desired becomes the new one,
\* subscribers hear of it if it differs, other prefixes are untouched.
LEMMA VisitOK ==
    ASSUME IInv, NEW p \in Prefix, Visit(p), Report(p)
    PROVE  /\ Desired(p) = rib[p] /\ Desired(p)' = next[p]
           /\ \A q \in Prefix \ {p} : Desired(q)' = Desired(q)
           /\ sub' \in [Watcher -> Subscription]
           /\ WatchView' /\ Fresh
           /\ todo' \subseteq Prefix
<1>1. Desired(p) = rib[p] /\ Desired(p)' = next[p]
  BY DEF Visit, Desired
<1>2. \A q \in Prefix \ {p} : Desired(q)' = Desired(q)
  BY DEF Visit, Desired
<1>3. next[p] \in Route \cup {NONE} /\ rib[p] \in Route \cup {NONE} /\ todo' \subseteq Prefix
  BY DEF IInv, TypeOK, Visit
<1>4. CASE next[p] = NONE \/ changed(p)
  <2>1. sub' = emit(sub, p, next[p])
    BY <1>4 DEF Report
  <2>2. /\ sub' \in [Watcher -> Subscription]
        /\ \A w \in Watcher : sub'[w].open \/ sub'[w].unread > sub[w].unread =>
               sub[w].open /\ sub'[w].told = [sub[w].told EXCEPT ![p] = next[p]]
    <3> DEFINE e == emit(sub, p, next[p])
    <3>1. /\ e \in [Watcher -> Subscription]
          /\ \A w \in Watcher : e[w].open =>
                 sub[w].open /\ e[w].told = [sub[w].told EXCEPT ![p] = next[p]]
          /\ \A w \in Watcher : e[w].unread > sub[w].unread =>
                 sub[w].open /\ e[w].told = [sub[w].told EXCEPT ![p] = next[p]]
      <4>1. TypeOK
        BY DEF IInv
      <4> QED BY <4>1, <1>3, EmitOK, Zenon
    <3>2. sub' = e
      BY <2>1
    <3> HIDE DEF e
    <3> QED BY <3>1, <3>2
  <2>3. \A w \in Watcher : sub[w].told \in [Prefix -> Route \cup {NONE}]
    BY DEF IInv, TypeOK, Subscription
  <2>4. \A w \in Watcher : sub'[w].open \/ sub'[w].unread > sub[w].unread =>
            /\ sub'[w].told[p] = next[p]
            /\ \A q \in Prefix \ {p} : sub'[w].told[q] = sub[w].told[q]
            /\ \A q \in Prefix : AsTold(sub[w].told[q], Desired(q))
    BY <2>2, <2>3 DEF WatchView, IInv
  <2>5. WatchView'
    BY <1>1, <1>2, <2>4 DEF WatchView, AsTold
  <2>6. ~AsTold(rib[p], next[p])
    BY <1>4 DEF AsTold, changed, IInv, Bookkeeping, Visit
  <2>7. Fresh
    BY <1>1, <2>4, <2>6 DEF Fresh, AsTold
  <2> QED BY <1>1, <1>2, <1>3, <2>2, <2>5, <2>7
<1>5. CASE ~(next[p] = NONE \/ changed(p))
  <2>1. sub' = sub
    BY <1>5 DEF Report
  <2>2. WatchView'
    BY <1>1, <1>2, <1>5, <2>1 DEF WatchView, IInv, AsTold, changed
  <2>3. Fresh /\ sub' \in [Watcher -> Subscription]
    BY <2>1 DEF Fresh, IInv, TypeOK, Subscription
  <2> QED BY <1>1, <1>2, <1>3, <2>2, <2>3
<1> QED BY <1>4, <1>5

\* programFIB at one prefix: filtered out, unchanged, written, refused or gone.
LEMMA ProgramKeeps ==
    ASSUME IInv, NEW p \in Prefix, Reject(p) \/ Keep(p) \/ Write(p) \/ WriteFails(p) \/ Remove(p)
    PROVE  Keeps /\ Fresh
<1>1. Visit(p) /\ Report(p)
  BY DEF Reject, Keep, Write, WriteFails, Remove
<1>2. /\ Desired(p) = rib[p] /\ Desired(p)' = next[p]
      /\ \A q \in Prefix \ {p} : Desired(q)' = Desired(q)
      /\ sub' \in [Watcher -> Subscription] /\ WatchView' /\ Fresh
      /\ todo' \subseteq Prefix
  BY <1>1, VisitOK
<1>3. /\ next[p] \in Route \cup {NONE} /\ (next[p] # NONE => next[p].same \in Same)
      /\ (rib[p] # NONE => rib[p].same \in Same) /\ NONE \notin Same
  BY RouteAssumption DEF IInv, TypeOK, Route
<1>4. (Wanted(p) <=> rib[p] # NONE /\ rib[p] \in Allowed)
      /\ (Wanted(p)' <=> next[p] # NONE /\ next[p] \in Allowed)
      /\ \A q \in Prefix \ {p} : Wanted(q)' <=> Wanted(q)
  BY <1>2 DEF Wanted
<1>5. (\A q \in todo : next[q] # NONE \/ rib[q] # NONE)'
  BY <1>1 DEF Visit, IInv, Bookkeeping
<1>6. /\ left["withdraw"] \in Nat /\ left["sweep"] \in Nat
      /\ Budget["withdraw"] \in Nat /\ Budget["sweep"] \in Nat
      /\ left["withdraw"] <= Budget["withdraw"] /\ left["sweep"] <= Budget["sweep"]
      /\ "withdraw" \in InputKind /\ "update" \in InputKind /\ "sweep" \in InputKind
  BY RouteAssumption DEF IInv, TypeOK, InputKind, Bookkeeping
<1>7. SUFFICES /\ installed' \subseteq Prefix /\ pending' \subseteq Prefix
               /\ kernel' \in [Prefix -> Same \cup {NONE}] /\ left' \in [InputKind -> Nat]
               /\ Bookkeeping'
  BY <1>1, <1>2 DEF Keeps, IInv, TypeOK, Visit
<1>8. CASE Reject(p) \/ Remove(p)
  <2>1. Forget(p) /\ ~(next[p] # NONE /\ next[p] \in Allowed)
    BY <1>8 DEF Reject, Remove
  <2>2. installed' = installed \ {p} /\ pending' = pending \ {p}
    BY <2>1 DEF Forget
  <2>3. \/ /\ kernel' = [kernel EXCEPT ![p] = NONE] /\ left' = left
        \/ /\ kernel' = kernel /\ left' = left /\ p \notin installed
        \/ /\ kernel' = kernel /\ Spend("withdraw")
    BY <2>1 DEF Forget
  <2>4. CASE kernel' = [kernel EXCEPT ![p] = NONE] /\ left' = left
    BY <1>2, <1>4, <1>5, <1>6, <2>1, <2>2, <2>4 DEF IInv, TypeOK, Bookkeeping, Clean
  <2>5. CASE kernel' = kernel /\ left' = left /\ p \notin installed
    BY <1>2, <1>4, <1>5, <1>6, <2>1, <2>2, <2>5 DEF IInv, TypeOK, Bookkeeping, Clean
  <2>6. CASE kernel' = kernel /\ Spend("withdraw")
    <3>1. /\ left' \in [InputKind -> Nat] /\ left'["withdraw"] < left["withdraw"]
          /\ left'["sweep"] <= left["sweep"]
      BY <1>6, <2>6, SpendOK DEF IInv
    <3>2. /\ ~Clean' /\ left'["withdraw"] <= Budget["withdraw"]
          /\ left'["sweep"] <= Budget["sweep"]
      BY <1>6, <3>1 DEF Clean
    <3> QED BY <1>2, <1>4, <1>5, <2>1, <2>2, <2>6, <3>1, <3>2 DEF IInv, TypeOK, Bookkeeping
  <2> QED BY <2>3, <2>4, <2>5, <2>6
<1>9. CASE Keep(p)
  <2>1. /\ installed' = installed /\ pending' = pending /\ kernel' = kernel /\ left' = left
        /\ rib[p] # NONE /\ rib[p].same = next[p].same /\ p \in installed /\ p \notin pending
        /\ next[p] # NONE /\ next[p] \in Allowed
    BY <1>9 DEF Keep, Current, changed, fibVars
  <2>2. Wanted(p) /\ kernel[p] = rib[p].same
    BY <2>1, <1>2 DEF IInv, Bookkeeping
  <2> QED BY <1>2, <1>4, <1>5, <1>6, <2>1, <2>2 DEF IInv, TypeOK, Bookkeeping, Clean
<1>10. CASE Write(p)
  <2>1. /\ installed' = installed \cup {p} /\ pending' = pending \ {p} /\ left' = left
        /\ kernel' = [kernel EXCEPT ![p] = next[p].same]
        /\ next[p] # NONE /\ next[p] \in Allowed
    BY <1>10 DEF Write
  <2> QED BY <1>2, <1>3, <1>4, <1>5, <1>6, <2>1 DEF IInv, TypeOK, Bookkeeping, Clean
<1>11. CASE WriteFails(p)
  <2>1. /\ installed' = installed /\ pending' = pending \cup {p} /\ kernel' = kernel
        /\ next[p] # NONE /\ next[p] \in Allowed /\ Spend("update")
    BY <1>11 DEF WriteFails
  <2>2. /\ left' \in [InputKind -> Nat]
        /\ left'["withdraw"] = left["withdraw"] /\ left'["sweep"] = left["sweep"]
    BY <1>6, <2>1, SpendOK DEF IInv
  <2> QED BY <1>2, <1>4, <1>5, <1>6, <2>1, <2>2 DEF IInv, TypeOK, Bookkeeping, Clean
<1> QED BY <1>8, <1>9, <1>10, <1>11

\* The arms of the Serve loop, the check after them and the end of programFIB.
LEMMA LoopKeeps ==
    ASSUME IInv, Check \/ ProgramDone \/ Tick \/ HoldEnds
    PROVE  Keeps /\ Fresh
<1>1. /\ routes \in [Prefix -> Route \cup {NONE}] /\ rib \in [Prefix -> Route \cup {NONE}]
      /\ \A k \in InputKind : left[k] <= left[k]
  BY DEF IInv, TypeOK
<1>2. \A w \in Watcher : ~(sub[w].unread > sub[w].unread)
  BY DEF IInv, TypeOK, Subscription
<1>3. rib' = rib \/ ProgramDone
  BY DEF Check, Tick, HoldEnds
<1>4. sub' = sub /\ left' = left /\ UNCHANGED fibVars /\ routes' = routes
  BY DEF Check, ProgramDone, Tick, HoldEnds
<1>5. TypeOK'
  BY <1>4 DEF IInv, TypeOK, Check, ProgramDone, Tick, HoldEnds, ToRetry, ToCheck, StartProgram, fibVars
<1>6. (\A p \in todo : next[p] # NONE \/ rib[p] # NONE)'
  BY DEF IInv, Bookkeeping, Check, ProgramDone, Tick, HoldEnds, ToRetry, ToCheck, StartProgram
<1>7. \A p \in Prefix : Desired(p)' = Desired(p)
  <2>1. CASE ProgramDone
    BY <2>1 DEF ProgramDone, Desired
  <2>2. CASE Check \/ Tick \/ HoldEnds
    <3>1. /\ pc # "program" /\ rib' = rib
          /\ \/ pc' # "program"
             \/ \E new \in [Prefix -> Route \cup {NONE}] : StartProgram(new)
      BY <1>1, <2>2 DEF Check, Tick, HoldEnds, ToRetry, ToCheck
    <3> QED BY <3>1, DesiredStays DEF IInv
  <2> QED BY <2>1, <2>2
<1>8. Keeps
  BY <1>1, <1>4, <1>5, <1>6, <1>7, SameDesired
<1> QED BY <1>2, <1>4, <1>8 DEF Fresh

\* A handler changes the topology, or an operator or a consumer acts.
LEMMA InputKeeps ==
    ASSUME IInv,
           \/ \E p \in Prefix, r \in Route \cup {NONE} : Change(p, r)
           \/ \E w \in Watcher : Subscribe(w) \/ Unsubscribe(w) \/ Consume(w)
           \/ Stop
    PROVE  Keeps /\ Fresh
<1>1. /\ rib \in [Prefix -> Route \cup {NONE}] /\ \A k \in InputKind : left[k] <= left[k]
      /\ \A w \in Watcher : /\ sub[w] \in Subscription /\ sub[w].unread \in Nat
                            /\ ~(sub[w].unread > sub[w].unread)
      /\ Buffer \in Nat
  BY RouteAssumption DEF IInv, TypeOK, Subscription
<1>2. ASSUME NEW p \in Prefix, NEW r \in Route \cup {NONE}, Change(p, r) PROVE Keeps /\ Fresh
  <2>1. left' \in [InputKind -> Nat] /\ \A k \in InputKind : left'[k] <= left[k]
    BY <1>2, SpendOK DEF Change, IInv, InputKind
  <2>2. /\ pc = "select" /\ rib' = rib /\ sub' = sub /\ UNCHANGED fibVars
        /\ \/ pc' = "check" /\ next' = next /\ todo' = todo
           \/ StartProgram(rib)
    BY <1>2 DEF Change, ToRetry, ToCheck
  <2>3. TypeOK'
    BY <1>1, <1>2, <2>1, <2>2 DEF IInv, TypeOK, Change, StartProgram, fibVars
  <2>4. (\A q \in todo : next[q] # NONE \/ rib[q] # NONE)'
    BY <2>2 DEF IInv, Bookkeeping, StartProgram
  <2>5. \A q \in Prefix : Desired(q)' = Desired(q)
    BY <1>1, <2>2, DesiredStays DEF IInv
  <2> QED BY <1>1, <2>1, <2>2, <2>3, <2>4, <2>5, SameDesired DEF Fresh
<1>3. ASSUME NEW w \in Watcher, Subscribe(w) PROVE Keeps /\ Fresh
  <2>1. left' \in [InputKind -> Nat] /\ \A k \in InputKind : left'[k] <= left[k]
    BY <1>3, SpendOK DEF Subscribe, IInv, InputKind
  <2>2. /\ pc = "select" /\ pc' = "check" /\ rib' = rib /\ next' = next /\ todo' = todo
        /\ UNCHANGED fibVars
        /\ sub' = [sub EXCEPT ![w] = [open |-> TRUE, lagged |-> FALSE, unread |-> 0, told |-> rib]]
    BY <1>3 DEF Subscribe
  <2>3. [open |-> TRUE, lagged |-> FALSE, unread |-> 0, told |-> rib] \in Subscription
    BY <1>1 DEF Subscription
  <2>4. TypeOK'
    BY <1>3, <2>1, <2>2, <2>3 DEF IInv, TypeOK, Subscribe, fibVars
  <2>5. \A q \in Prefix : Desired(q)' = Desired(q) /\ Desired(q) = rib[q]
    BY <2>2 DEF Desired
  <2>6. \A v \in Watcher : sub'[v] = IF v = w
            THEN [open |-> TRUE, lagged |-> FALSE, unread |-> 0, told |-> rib] ELSE sub[v]
    BY <2>2 DEF IInv, TypeOK
  <2>7. Keeps
    <3>1. (\A q \in todo : next[q] # NONE \/ rib[q] # NONE)'
      BY <2>2 DEF IInv, Bookkeeping
    <3>2. \A v \in Watcher : sub'[v].open =>
              \/ sub[v].open /\ sub'[v].told = sub[v].told
              \/ \A q \in Prefix : sub'[v].told[q] = Desired(q)
      <4> TAKE v \in Watcher
      <4>1. CASE v = w
        <5>1. sub'[v].told = rib
          BY <2>6, <4>1
        <5> QED BY <5>1, <2>5
      <4>2. CASE v # w
        <5>1. sub'[v] = sub[v]
          BY <2>6, <4>2
        <5> QED BY <5>1
      <4> QED BY <4>1, <4>2
    <3>3. \A q \in Prefix : Desired(q)' = Desired(q)
      BY <2>5
    <3>4. UNCHANGED fibVars /\ \A k \in InputKind : left'[k] <= left[k]
      BY <2>1, <2>2
    <3> QED BY <2>4, <3>1, <3>2, <3>3, <3>4, SameDesired, Zenon
  <2> QED BY <1>1, <2>6, <2>7 DEF Fresh
<1>4. ASSUME \/ \E w \in Watcher : Unsubscribe(w) \/ Consume(w)
             \/ Stop
      PROVE  Keeps /\ Fresh
  <2>1. left' \in [InputKind -> Nat] /\ \A k \in InputKind : left'[k] <= left[k]
    <3>1. CASE Stop
      BY <3>1, SpendOK DEF Stop, IInv, InputKind
    <3>2. CASE left' = left
      BY <1>1, <3>2 DEF IInv, TypeOK
    <3> QED BY <1>4, <3>1, <3>2 DEF Unsubscribe, Consume
  <2>2. /\ rib' = rib /\ next' = next /\ todo' = todo /\ UNCHANGED fibVars
        /\ pc' = pc \/ (pc = "select" /\ pc' \in {"check", "stopped"})
        /\ routes' = routes /\ dirty' = dirty /\ holding' = holding
    BY <1>4 DEF Unsubscribe, Consume, Stop, loopVars
  <2>3. /\ sub' \in [Watcher -> Subscription]
        /\ \A v \in Watcher : /\ sub'[v].told = sub[v].told
                              /\ sub'[v].open => sub[v].open
                              /\ sub'[v].unread <= sub[v].unread
    <3>1. \A v \in Watcher :
              /\ [sub[v] EXCEPT !.open = FALSE] \in Subscription
              /\ [sub[v] EXCEPT !.open = FALSE].told = sub[v].told
              /\ [sub[v] EXCEPT !.open = FALSE].open = FALSE
              /\ [sub[v] EXCEPT !.open = FALSE].unread = sub[v].unread
      BY <1>1 DEF Subscription
    <3>2. \A v \in Watcher : sub[v].unread > 0 =>
              /\ [sub[v] EXCEPT !.unread = @ - 1] \in Subscription
              /\ [sub[v] EXCEPT !.unread = @ - 1].told = sub[v].told
              /\ [sub[v] EXCEPT !.unread = @ - 1].open = sub[v].open
              /\ [sub[v] EXCEPT !.unread = @ - 1].unread = sub[v].unread - 1
      BY <1>1 DEF Subscription
    <3>3. sub \in [Watcher -> Subscription]
      BY DEF IInv, TypeOK
    <3>4. ASSUME NEW w \in Watcher, Unsubscribe(w) PROVE sub' = [sub EXCEPT ![w] = [sub[w] EXCEPT !.open = FALSE]]
      BY <3>3, <3>4 DEF Unsubscribe
    <3>5. ASSUME NEW w \in Watcher, Consume(w)
          PROVE  sub[w].unread > 0 /\ sub' = [sub EXCEPT ![w] = [sub[w] EXCEPT !.unread = @ - 1]]
      BY <3>3, <3>5 DEF Consume
    <3>6. \A v \in Watcher : sub[v].unread <= sub[v].unread /\ sub[v].unread - 1 <= sub[v].unread
      BY <1>1
    <3>7. CASE \E w \in Watcher : Unsubscribe(w)
      BY <3>1, <3>3, <3>4, <3>6, <3>7
    <3>8. CASE \E w \in Watcher : Consume(w)
      BY ZenonT(60), <3>2, <3>3, <3>5, <3>6, <3>8
    <3>9. CASE Stop
      BY <3>1, <3>3, <3>6, <3>9 DEF Stop
    <3> QED BY <1>4, <3>7, <3>8, <3>9
  <2>4. TypeOK'
    BY <2>1, <2>2, <2>3 DEF IInv, TypeOK, fibVars
  <2>5. \A q \in Prefix : Desired(q)' = Desired(q)
    BY <2>2 DEF Desired
  <2>6. Keeps
    BY <2>1, <2>2, <2>3, <2>4, <2>5, SameDesired DEF IInv, Bookkeeping
  <2>7. \A v \in Watcher : sub'[v].unread \in Nat
    BY <1>1, <2>3 DEF Subscription
  <2> QED BY <1>1, <2>3, <2>6, <2>7 DEF Fresh
<1> QED BY <1>2, <1>3, <1>4

\* A restart forgets everything but the kernel's routes that survive the sweep.
LEMMA RestartKeeps ==
    ASSUME IInv, NEW S \in SUBSET Prefix, Restart(S)
    PROVE  Keeps /\ Fresh
<1>1. /\ left' \in [InputKind -> Nat]
      /\ left'["withdraw"] = left["withdraw"] /\ left'["sweep"] <= left["sweep"]
      /\ S # {} => left'["sweep"] < left["sweep"]
      /\ left["sweep"] \in Nat /\ Budget["sweep"] \in Nat
  BY RouteAssumption DEF IInv, TypeOK, Restart, InputKind
<1>2. /\ kernel' = [p \in Prefix |-> IF p \in S THEN kernel[p] ELSE NONE]
      /\ pc' = "select" /\ todo' = {} /\ installed' = {} /\ pending' = {}
      /\ \A p \in Prefix : rib'[p] = NONE
      /\ \A w \in Watcher : sub'[w] = NotSubscribed
  BY DEF Restart, NoRoutes
<1>3. NotSubscribed \in Subscription /\ NoRoutes \in [Prefix -> Route \cup {NONE}]
  BY RouteAssumption DEF NotSubscribed, Subscription, NoRoutes
<1>4. TypeOK'
  BY <1>1, <1>2, <1>3 DEF IInv, TypeOK, Restart
<1>5. \A p \in Prefix : ~Wanted(p)'
  BY <1>2 DEF Wanted, Desired
<1>6. Clean' => S = {}
  BY <1>1 DEF Clean, IInv, Bookkeeping
<1>7. Bookkeeping'
  <2>1. left'["withdraw"] <= Budget["withdraw"] /\ left'["sweep"] <= Budget["sweep"]
    <3>1. "sweep" \in InputKind
      BY DEF InputKind
    <3> QED BY <1>1, <3>1 DEF IInv, Bookkeeping
  <2>2. \A p \in Prefix : Clean' => kernel'[p] = NONE
    BY <1>2, <1>6
  <2> QED BY <1>2, <1>5, <2>1, <2>2 DEF Bookkeeping
<1>8. \A w \in Watcher : ~sub'[w].open /\ ~(sub'[w].unread > sub[w].unread)
  <2> TAKE w \in Watcher
  <2>1. sub[w] \in Subscription
    BY DEF IInv, TypeOK
  <2>2. sub[w].unread \in 0..Buffer
    BY <2>1 DEF Subscription
  <2>3. NotSubscribed.open = FALSE /\ NotSubscribed.unread = 0
    BY DEF NotSubscribed
  <2>4. ~(0 > sub[w].unread)
    BY <2>2, RouteAssumption
  <2> QED BY <1>2, <2>3, <2>4
<1>9. WatchView' /\ Fresh
  <2>1. WatchView'
    BY <1>8 DEF WatchView
  <2>2. Fresh
    BY <1>8 DEF Fresh
  <2> QED BY <2>1, <2>2
<1> QED BY <1>4, <1>7, <1>9 DEF Keeps

\* The invariant is inductive, and every step tells subscribers news only.
LEMMA Inductive == (Init => IInv) /\ (IInv /\ [Next]_vars => IInv' /\ (Fresh \/ UNCHANGED vars))
<1>1. ASSUME Init PROVE IInv
  <2>1. NotSubscribed \in Subscription /\ NoRoutes \in [Prefix -> Route \cup {NONE}]
        /\ NoRoutes \in [Prefix -> Same \cup {NONE}]
    BY RouteAssumption DEF NotSubscribed, Subscription, NoRoutes
  <2>2. TypeOK
    BY <1>1, <2>1, RouteAssumption DEF Init, Starting, TypeOK
  <2>3. \A p \in Prefix : ~Wanted(p) /\ kernel[p] = NONE
    BY <1>1 DEF Init, Starting, Wanted, Desired, NoRoutes
  <2>4. Budget["withdraw"] \in Nat /\ Budget["sweep"] \in Nat
    BY RouteAssumption DEF InputKind
  <2>5. Bookkeeping
    BY <1>1, <2>3, <2>4 DEF Bookkeeping, Init, Starting
  <2>6. WatchView
    BY <1>1 DEF WatchView, Init, Starting, NotSubscribed
  <2> QED BY <2>2, <2>5, <2>6 DEF IInv
<1>2. ASSUME IInv, Next PROVE Keeps /\ Fresh
  <2>1. CASE Check \/ ProgramDone \/ Tick \/ HoldEnds
    BY <1>2, <2>1, LoopKeeps
  <2>2. CASE \E p \in Prefix : Reject(p) \/ Keep(p) \/ Write(p) \/ WriteFails(p) \/ Remove(p)
    BY <1>2, <2>2, ProgramKeeps
  <2>3. CASE \/ \E p \in Prefix, r \in Route \cup {NONE} : Change(p, r)
             \/ \E w \in Watcher : Subscribe(w) \/ Unsubscribe(w) \/ Consume(w)
             \/ Stop
    BY <1>2, <2>3, InputKeeps
  <2>4. CASE \E S \in SUBSET {p \in Prefix : kernel[p] # NONE} : Restart(S)
    BY <1>2, <2>4, RestartKeeps
  <2> QED BY <1>2, <2>1, <2>2, <2>3, <2>4 DEF Next, Loop
<1>3. ASSUME IInv, UNCHANGED vars PROVE IInv'
  BY <1>3 DEF IInv, TypeOK, Bookkeeping, WatchView, Clean, Wanted, Desired, vars, loopVars, fibVars
<1> QED BY <1>1, <1>2, <1>3 DEF Keeps, IInv

\* The state of the loop, the RIB, the FIB and the subscriptions stays well-formed;
\* no channel holds more than watcherBuffer events.
THEOREM TypeCorrect == Spec => []TypeOK
<1>1. IInv => TypeOK
  BY DEF IInv
<1> QED BY Inductive, <1>1, PTL DEF Spec

\* The kernel mirrors the RIB (programFIB, housekeeping's retry, Sweep).
THEOREM Mirrored == Spec => []KernelMirrorsRIB
<1>1. IInv => KernelMirrorsRIB
  BY MirrorFollows DEF IInv
<1> QED BY Inductive, <1>1, PTL DEF Spec

\* What a subscriber was told is the RIB (Subscribe, emit, programFIB).
THEOREM GapFree == Spec => []WatchView
<1>1. IInv => WatchView
  BY DEF IInv
<1> QED BY Inductive, <1>1, PTL DEF Spec

\* An event tells its subscriber something new (programFIB, housekeeping's retry).
THEOREM EventsAreNews == Spec => NoRepeatedEvents
<1>1. IInv /\ [Next]_vars => [Fresh]_vars
  BY Inductive DEF vars
<1> QED BY Inductive, <1>1, PTL DEF Spec, NoRepeatedEvents, Fresh
=============================================================================
