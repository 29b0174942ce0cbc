------------------------- MODULE LanFloodingProofs -------------------------
(***************************************************************************)
(* The same three results for LanFlooding: its type invariant, the         *)
(* ownership of LSPs and the monotonicity of every database, for any       *)
(* number of stations, LANs, LSPs and versions and any DIS priorities.     *)
(***************************************************************************)
EXTENDS LanFlooding, UpdateProcessProofs

Hello == [kind : {"hello"}, src : Node, lan : Node \cup {NONE}, echo : SUBSET Node]

\* Hellos are told apart from the frames of the update process, and the first
\* ones are hellos.
LEMMA HelloType ==
    /\ Hellos(Hello) /\ (TypeOK <=> UpdateTypeOK(Hello))
    /\ \A n \in Node : FirstHello(n) \in Hello
BY DEF Hellos, Hello, TypeOK, FirstHello

\* buildLANHello builds a hello from any well-formed node.
LEMMA HelloFrameType ==
    ASSUME NEW n \in Node, NEW s \in NodeState(n), NEW c \in CircuitsOf(n)
    PROVE  <<helloFrame(n, s, c)>> \in Seq(Frame \cup Hello)
<1>1. helloFrame(n, s, c) \in Hello
  BY DEF helloFrame, Hello, NodeState
<1> QED BY <1>1

\* Recording the outcome of an election changes neither database nor hold-downs.
LEMMA NewDIS ==
    ASSUME NEW n, NEW s \in NodeState(n), NEW c \in CircuitsOf(n), NEW d \in Node \cup {NONE}
    PROVE  /\ [s EXCEPT !.dis[c] = d] \in NodeState(n)
           /\ [s EXCEPT !.dis[c] = d].db = s.db /\ [s EXCEPT !.dis[c] = d].wrap = s.wrap
BY Zenon DEF NodeState

\* The election names a station, or leaves the value it found.
LEMMA ElectFlags ==
    ASSUME NEW n \in Node, NEW s \in NodeState(n), NEW c \in CircuitsOf(n)
    PROVE  /\ electDIS(n, s, c) \in NodeState(n)
           /\ electDIS(n, s, c).db = s.db /\ electDIS(n, s, c).wrap = s.wrap
<1> DEFINE Up == upAdjacencies(s, c)
           Best == {m \in Up : \A k \in Up \cup {n} : Rank[k] <= Rank[m]}
           Said == {s.lan[c][m] : m \in Best} \ {NONE}
           d == IF \A k \in Up : Rank[k] <= Rank[n] THEN n
                ELSE IF Said # {} THEN CHOOSE l \in Said : TRUE ELSE s.dis[c]
<1>1. electDIS(n, s, c) = [s EXCEPT !.dis[c] = d]
  BY DEF electDIS
<1>2. Said \subseteq Node
  BY DEF NodeState, upAdjacencies
<1>3. s.dis[c] \in Node \cup {NONE}
  BY DEF NodeState
<1> HIDE DEF Said
<1>4. d \in Node \cup {NONE}
  BY <1>2, <1>3
<1> HIDE DEF d
<1> QED BY <1>1, <1>4, NewDIS

\* The periodic hello.
LEMMA SendHelloKeeps ==
    ASSUME TypeOK, OwnLSPs, NEW n \in Node, NEW c \in Circuit, SendHello(n, c)
    PROVE  Keeps(Hello)
<1>1. UpdateTypeOK(Hello) /\ net \in Queues(Frame \cup Hello) /\ left \in [FaultKind -> Nat]
  BY HelloType DEF UpdateTypeOK, Queues
<1>2. node[n] \in NodeState(n) /\ c \in CircuitsOf(n)
  BY <1>1 DEF UpdateTypeOK, SendHello
<1>3. <<helloFrame(n, node[n], c)>> \in Seq(Frame \cup Hello)
  BY <1>2, HelloFrameType
<1>4. net' \in Queues(Frame \cup Hello)
  BY <1>1, <1>3, OnlyQueues, SentQueues, Zenon DEF SendHello
<1> QED BY <1>1, <1>4, MoveKeeps DEF SendHello

\* processLANHello, with the hello it may send and the election it may run.
LEMMA ReceiveHelloKeeps ==
    ASSUME TypeOK, OwnLSPs, NEW n \in Node, NEW c \in Circuit, ReceiveHello(n, c)
    PROVE  Keeps(Hello)
<1> DEFINE f == Head(net[c][n])
           s == node[n]
           prev == s.adj[c][f.src]
           new == IF n \in f.echo THEN "up" ELSE "init"
           t == [s EXCEPT !.adj[c][f.src] = new, !.lan[c][f.src] = f.lan]
           elect == Reelects(prev, new, s.lan[c][f.src], f.lan)
           u == IF elect THEN electDIS(n, t, c) ELSE t
           reply == IF prev # new THEN <<helloFrame(n, t, c)>> ELSE <<>>
           q == [net EXCEPT ![c][n] = Tail(@)]
<1>1. /\ Pending(n, c) /\ f.kind = "hello" /\ left' = left
      /\ node' = [node EXCEPT ![n] = u] /\ net' = Sent(n, q, Only(n, c, reply))
  BY Zenon DEF ReceiveHello
<1>2. UpdateTypeOK(Hello) /\ left \in [FaultKind -> Nat]
  BY HelloType, SMTT(30) DEF UpdateTypeOK
<1>3. c \in CircuitsOf(n) /\ s \in NodeState(n) /\ f \in Hello /\ q \in Queues(Frame \cup Hello)
  BY <1>1, <1>2, HelloType, HeadFrame, Zenon DEF Queues
<1>4. f.src \in Node /\ f.lan \in Node \cup {NONE} /\ new \in {"down", "init", "up"}
  BY <1>3 DEF Hello
<1> HIDE DEF f, new, q, s, prev
<1>5. t \in NodeState(n) /\ t.db = s.db /\ t.wrap = s.wrap
  BY <1>3, <1>4, Zenon DEF NodeState
<1> HIDE DEF t, elect
<1>6. u \in NodeState(n) /\ u.db = s.db /\ u.wrap = s.wrap
  BY <1>3, <1>5, ElectFlags
<1> HIDE DEF u
<1>7. Moves(n)
  BY <1>1, <1>3, <1>6, SameDb, Zenon DEF Moves, s
<1>8. reply \in Seq(Frame \cup Hello)
  <2>1. <<helloFrame(n, t, c)>> \in Seq(Frame \cup Hello)
    BY <1>3, <1>5, HelloFrameType
  <2>2. reply \in {<<helloFrame(n, t, c)>>, <<>>} /\ \A F : <<>> \in Seq(F)
    OBVIOUS
  <2> HIDE DEF reply
  <2> QED BY <2>1, <2>2, Zenon
<1> HIDE DEF reply
<1>9. net' \in Queues(Frame \cup Hello)
  BY <1>1, <1>3, <1>8, OnlyQueues, SentQueues
<1> QED BY <1>1, <1>2, <1>7, <1>9, MoveKeeps

\* dropAdjacencies.
LEMMA DropKeeps ==
    ASSUME TypeOK, OwnLSPs, NEW n \in Node, NEW c \in Circuit, NEW m \in Node, Drop(n, c, m)
    PROVE  Keeps(Hello)
<1> DEFINE r == [node[n] EXCEPT !.adj[c][m] = "down", !.lan[c][m] = NONE]
           t == electDIS(n, r, c)
<1>1. /\ Spend("flap") /\ c \in CircuitsOf(n)
      /\ node' = [node EXCEPT ![n] = t] /\ net' = net
  BY DEF Drop
<1>2. UpdateTypeOK(Hello) /\ left \in [FaultKind -> Nat] /\ node[n] \in NodeState(n)
  BY HelloType DEF UpdateTypeOK
<1>3. r \in NodeState(n) /\ r.db = node[n].db /\ r.wrap = node[n].wrap
  BY <1>1, <1>2, Zenon DEF NodeState
<1> HIDE DEF r
<1>4. t \in NodeState(n) /\ t.db = r.db /\ t.wrap = r.wrap
  BY <1>1, <1>3, ElectFlags
<1> HIDE DEF t
<1>5. Moves(n)
  BY <1>1, <1>2, <1>3, <1>4, SameDb, Zenon DEF Moves
<1>6. left' \in [FaultKind -> Nat]
  BY <1>1, <1>2, SpendOK DEF FaultKind
<1> QED BY <1>1, <1>2, <1>5, <1>6, MoveKeeps

\* One step of the system.
LEMMA NextKeeps ==
    ASSUME TypeOK, OwnLSPs, [Next]_vars
    PROVE  /\ TypeOK' /\ OwnLSPs' /\ (DatabaseBounded => DatabaseBounded')
           /\ left'["crash"] = left["crash"] => AllAdvance
<1>0. Hellos(Hello) /\ UpdateTypeOK(Hello) /\ (UpdateTypeOK(Hello)' => TypeOK')
  BY HelloType DEF TypeOK, Hello
<1>1. CASE UNCHANGED vars
  <2>1. NodesOK
    BY <1>0 DEF UpdateTypeOK, NodesOK
  <2> QED BY <1>1, <2>1, StayAdvances DEF vars, TypeOK, UpdateTypeOK, OwnLSPs, DatabaseBounded
<1>2. ASSUME NEW n \in Node, UpdateAction(n) PROVE Keeps(Hello)
  BY <1>0, <1>2, UpdateActionKeeps
<1>3. ASSUME NEW n \in Node, NEW c \in Circuit,
             ReceiveHello(n, c) \/ SendHello(n, c) \/ \E m \in Node : Drop(n, c, m)
      PROVE  Keeps(Hello)
  BY <1>3, ReceiveHelloKeeps, SendHelloKeeps, DropKeeps
<1>4. ASSUME NEW n \in Node, NEW b \in Body, Crash(n, b)
      PROVE  /\ UpdateTypeOK(Hello)' /\ OwnLSPs' /\ (DatabaseBounded => DatabaseBounded')
             /\ left'["crash"] # left["crash"]
  BY <1>0, <1>4, HelloType, CrashKeeps DEF Crash
<1>5. CASE Next
  <2>1. PICK n \in Node :
          \/ UpdateAction(n)
          \/ \E c \in Circuit : ReceiveHello(n, c) \/ SendHello(n, c)
                               \/ \E m \in Node : Drop(n, c, m)
          \/ \E b \in Body : Crash(n, b)
    BY <1>5 DEF Next, Receive, UpdateAction, Announce, Relinquish
  <2> QED BY <1>0, <1>2, <1>3, <1>4, <2>1 DEF Keeps
<1> QED BY <1>1, <1>5

\* The inductive invariant.
LEMMA Inductive == Spec => [](TypeOK /\ OwnLSPs /\ DatabaseBounded)
<1>1. Init => TypeOK /\ OwnLSPs /\ DatabaseBounded
  <2>1. [n \in Node |-> FirstHello(n)] \in [Node -> Hello]
    BY HelloType
  <2> QED BY <2>1, InitOK, HelloType DEF Init
<1>2. TypeOK /\ OwnLSPs /\ DatabaseBounded /\ [Next]_vars => (TypeOK /\ OwnLSPs /\ DatabaseBounded)'
  BY NextKeeps
<1> QED BY <1>1, <1>2, PTL DEF Spec

\* Every state has its type: the election never names anything but a station, and
\* no handler writes a sequence number of 0 or beyond maxLSPSeq.
THEOREM TypeCorrect == Spec => []TypeOK
BY Inductive, PTL

\* Stations keep the ownership of LSPs, those of their pseudonodes included,
\* through every election.
THEOREM Ownership == Spec => []OwnLSPs
BY Inductive, PTL

\* LSPs of other systems fill no more than lsdbEntryLimit entries, in any number of stations and
\* for any limit (processLSP).
THEOREM Bounded == Spec => []DatabaseBounded
BY Inductive, PTL

\* No step but a crash takes an entry of a database back.
THEOREM Monotone == Spec => NeverStepsBack
<1>1. TypeOK /\ OwnLSPs /\ [Next]_vars
        => [left'["crash"] = left["crash"] =>
              \A n \in Node, i \in LspId :
                  node[n].db[i] # NONE => Follows(node[n].db[i], node'[n].db[i])]_vars
  BY NextKeeps DEF AllAdvance
<1> QED BY <1>1, Inductive, PTL DEF Spec, NeverStepsBack
============================================================================
