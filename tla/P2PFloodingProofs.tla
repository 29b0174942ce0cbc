------------------------- MODULE P2PFloodingProofs -------------------------
(***************************************************************************)
(* For any number of routers, circuits, LSPs and versions: the type        *)
(* invariant of P2PFlooding, the ownership of LSPs, the bound on and the   *)
(* monotonicity of every database; and, as long as no router restarts and  *)
(* no purge is dropped (Quiet), that copies of an LSP agree and that no    *)
(* update is lost.  The first four rest on TypeOK /\ OwnLSPs.  The others  *)
(* need that what frames and acknowledgements under way say of the other   *)
(* end is still true (FramesTrue, AcksTrue): every step is one node's      *)
(* (Steps), databases only go onward, and so they stay true.               *)
(***************************************************************************)
EXTENDS P2PFlooding, UpdateProcessProofs

Hello == [kind : {"hello"}, src : Node, echo : BOOLEAN]

\* Hellos are told apart from the frames of the update process, and the first
\* ones are hellos.
LEMMA HelloType ==
    /\ Hellos(Hello) /\ (TypeOK <=> UpdateTypeOK(Hello))
    /\ \A n \in Node, e \in BOOLEAN : helloFrame(n, e) \in Hello
BY DEF Hellos, Hello, TypeOK, helloFrame

\* synced, echoes and the frames of a hello exchange.
LEMMA SyncedFlags ==
    ASSUME NEW n, NEW s \in NodeState(n), NEW c \in CircuitsOf(n)
    PROVE  synced(s, c) \in NodeState(n) /\ synced(s, c).db = s.db /\ synced(s, c).wrap = s.wrap
<1>1. flagAll(s, s.srm[c]) \in [LspId -> {"off", "due", "wait"}]
  BY DEF NodeState, flagAll
<1> DEFINE F == flagAll(s, s.srm[c])
           t == [s EXCEPT !.srm[c] = F, !.hold[c] = TRUE, !.defer[c] = FALSE]
           u == [s EXCEPT !.defer[c] = TRUE]
<1>2. synced(s, c) \in {t, u}
  BY DEF synced, NodeState
<1> HIDE DEF F
<1>3. t \in NodeState(n) /\ t.db = s.db /\ t.wrap = s.wrap
  BY <1>1, Zenon DEF NodeState, F
<1>4. u \in NodeState(n) /\ u.db = s.db /\ u.wrap = s.wrap
  BY Zenon DEF NodeState
<1> QED BY <1>2, <1>3, <1>4, Zenon

\* The periodic hello.
LEMMA SendHelloKeeps ==
    ASSUME TypeOK, OwnLSPs, NEW n \in Node, NEW c \in Circuit, SendHello(n, c)
    PROVE  Keeps(Hello)
<1>1. UpdateTypeOK(Hello) /\ net \in Queues(Frame \cup Hello) /\ left \in [FaultKind -> Nat]
  BY HelloType DEF UpdateTypeOK, Queues
<1>2. helloFrame(n, echoes(node[n], c)) \in Frame \cup Hello
  BY HelloType, Zenon DEF echoes
<1>3. <<helloFrame(n, echoes(node[n], c))>> \in Seq(Frame \cup Hello)
  BY <1>2
<1>4. net' \in Queues(Frame \cup Hello)
  BY <1>1, <1>3, OnlyQueues, SentQueues, Zenon DEF SendHello
<1> QED BY <1>1, <1>4, MoveKeeps DEF SendHello

\* processP2PHello, with the hello and the CSNP it may send.
LEMMA ReceiveHelloKeeps ==
    ASSUME TypeOK, OwnLSPs, NEW n \in Node, NEW c \in Circuit, ReceiveHello(n, c)
    PROVE  Keeps(Hello)
<1> DEFINE f == Head(net[c][n])
           s == node[n]
           new == IF f.echo THEN "up" ELSE "init"
           changed == s.adj[c][f.src] # new
           t == [s EXCEPT !.adj[c][f.src] = new]
           u == IF changed /\ new = "up" THEN synced(t, c) ELSE t
           hello == IF changed THEN <<helloFrame(n, TRUE)>> ELSE <<>>
           csnp == IF changed /\ new = "up" /\ ~s.hold[c] THEN <<sendCSNP(n, t)>> ELSE <<>>
           q == [net EXCEPT ![c][n] = Tail(@)]
<1>1. /\ Pending(n, c) /\ f.kind = "hello" /\ left' = left
      /\ node' = [node EXCEPT ![n] = u] /\ net' = Sent(n, q, Only(n, c, hello \o csnp))
  BY Zenon DEF ReceiveHello
<1>2. UpdateTypeOK(Hello) /\ left \in [FaultKind -> Nat]
  BY HelloType, SMTT(30) DEF UpdateTypeOK
<1>3. c \in CircuitsOf(n) /\ s \in NodeState(n) /\ f \in Hello /\ q \in Queues(Frame \cup Hello)
  BY <1>1, <1>2, HelloType, HeadFrame, Zenon DEF Queues
<1>4. f.src \in Node /\ new \in {"down", "init", "up"}
  BY <1>3 DEF Hello
<1> HIDE DEF f, new, q, s
<1>5. t \in NodeState(n) /\ t.db = s.db /\ t.wrap = s.wrap
  BY <1>3, <1>4, Zenon DEF NodeState
<1> HIDE DEF t, changed
<1>6. u \in NodeState(n) /\ u.db = s.db /\ u.wrap = s.wrap
  BY <1>3, <1>5, SyncedFlags
<1> HIDE DEF u
<1>7. Moves(n)
  BY <1>1, <1>3, <1>6, SameDb, Zenon DEF Moves, s
<1>8. hello \o csnp \in Seq(Frame \cup Hello)
  <2>1. helloFrame(n, TRUE) \in Frame \cup Hello /\ sendCSNP(n, t) \in Frame \cup Hello
    BY <1>3, <1>5, HelloType, SNPFrames, Zenon
  <2>2. \A F : \A x \in F : <<x>> \in Seq(F) /\ <<>> \in Seq(F)
    OBVIOUS
  <2>3. hello \in {<<helloFrame(n, TRUE)>>, <<>>} /\ csnp \in {<<sendCSNP(n, t)>>, <<>>}
    OBVIOUS
  <2> HIDE DEF hello, csnp
  <2>4. hello \in Seq(Frame \cup Hello) /\ csnp \in Seq(Frame \cup Hello)
    BY <2>1, <2>2, <2>3, Zenon
  <2> QED BY <2>4
<1> HIDE DEF hello, csnp
<1>9. net' \in Queues(Frame \cup Hello)
  BY <1>1, <1>3, <1>8, OnlyQueues, SentQueues, Zenon
<1> QED BY <1>1, <1>2, <1>7, <1>9, MoveKeeps

\* teardownP2PAdj.
LEMMA TearDownKeeps ==
    ASSUME TypeOK, OwnLSPs, NEW n \in Node, NEW c \in Circuit, NEW m \in Node, TearDown(n, c, m)
    PROVE  Keeps(Hello)
<1> DEFINE r == [node[n] EXCEPT !.adj[c][m] = "down"]
           t == clearFlags(r, c)
<1>1. /\ Spend("flap") /\ c \in CircuitsOf(n)
      /\ node' = [node EXCEPT ![n] = t] /\ net' = net
  BY DEF TearDown
<1>2. UpdateTypeOK(Hello) /\ left \in [FaultKind -> Nat] /\ node[n] \in NodeState(n)
  BY HelloType DEF UpdateTypeOK
<1>3. r \in NodeState(n) /\ r.db = node[n].db /\ r.wrap = node[n].wrap
  BY <1>1, <1>2, Zenon DEF NodeState
<1> HIDE DEF r
<1>4. t \in NodeState(n) /\ t.db = r.db /\ t.wrap = r.wrap
  BY <1>1, <1>3, Zenon DEF NodeState, clearFlags
<1> HIDE DEF t
<1>5. Moves(n)
  BY <1>1, <1>2, <1>3, <1>4, SameDb, Zenon DEF Moves
<1>6. left' \in [FaultKind -> Nat]
  BY <1>1, <1>2, SpendOK DEF FaultKind
<1> QED BY <1>1, <1>2, <1>5, <1>6, MoveKeeps

\* One step of the system.
LEMMA NextKeeps ==
    ASSUME TypeOK, OwnLSPs, [Next]_vars
    PROVE  /\ TypeOK' /\ OwnLSPs' /\ (DatabaseBounded => DatabaseBounded')
           /\ left'["crash"] = left["crash"] => AllAdvance
<1>0. Hellos(Hello) /\ UpdateTypeOK(Hello) /\ (UpdateTypeOK(Hello)' => TypeOK')
  BY HelloType DEF TypeOK, Hello
<1>1. CASE UNCHANGED vars
  <2>1. NodesOK
    BY <1>0 DEF UpdateTypeOK, NodesOK
  <2> QED BY <1>1, <2>1, StayAdvances DEF vars, TypeOK, UpdateTypeOK, OwnLSPs, DatabaseBounded
<1>2. ASSUME NEW n \in Node, UpdateAction(n) PROVE Keeps(Hello)
  BY <1>0, <1>2, UpdateActionKeeps
<1>3. ASSUME NEW n \in Node, NEW c \in Circuit,
             ReceiveHello(n, c) \/ SendHello(n, c) \/ \E m \in Node : TearDown(n, c, m)
      PROVE  Keeps(Hello)
  BY <1>3, ReceiveHelloKeeps, SendHelloKeeps, TearDownKeeps
<1>4. ASSUME NEW n \in Node, NEW b \in Body, Crash(n, b)
      PROVE  /\ UpdateTypeOK(Hello)' /\ OwnLSPs' /\ (DatabaseBounded => DatabaseBounded')
             /\ left'["crash"] # left["crash"]
  BY <1>0, <1>4, HelloType, CrashKeeps, Zenon DEF Crash
<1>5. CASE Next
  <2>1. PICK n \in Node :
          \/ UpdateAction(n)
          \/ \E c \in Circuit : ReceiveHello(n, c) \/ SendHello(n, c)
                               \/ \E m \in Node : TearDown(n, c, m)
          \/ \E b \in Body : Crash(n, b)
    BY <1>5 DEF Next, Receive, UpdateAction
  <2> QED BY <1>0, <1>2, <1>3, <1>4, <2>1 DEF Keeps
<1> QED BY <1>1, <1>5

\* The inductive invariant.
LEMMA Inductive == Spec => [](TypeOK /\ OwnLSPs /\ DatabaseBounded)
<1>1. Init => TypeOK /\ OwnLSPs /\ DatabaseBounded
  <2>1. [n \in Node |-> helloFrame(n, FALSE)] \in [Node -> Hello]
    BY HelloType, Zenon
  <2> QED BY <2>1, InitOK, HelloType, Zenon DEF Init
<1>2. TypeOK /\ OwnLSPs /\ DatabaseBounded /\ [Next]_vars => (TypeOK /\ OwnLSPs /\ DatabaseBounded)'
  BY NextKeeps
<1> QED BY <1>1, <1>2, PTL DEF Spec

\* Every state has its type: no handler writes a sequence number of 0 or beyond
\* maxLSPSeq, or a record a PDU cannot carry.
THEOREM TypeCorrect == Spec => []TypeOK
BY Inductive, PTL

\* handleOwnSystemID and exhaustSeq: what OwnLSPs says holds for any network.
THEOREM Ownership == Spec => []OwnLSPs
BY Inductive, PTL

\* LSPs of other systems fill no more than lsdbEntryLimit entries, in any network of point-to-point circuits and
\* for any limit (processLSP).
THEOREM Bounded == Spec => []DatabaseBounded
BY Inductive, PTL

\* No step but a crash takes an entry of a database back: what NeverStepsBack
\* says holds for any network.
THEOREM Monotone == Spec => NeverStepsBack
<1>1. TypeOK /\ OwnLSPs /\ [Next]_vars
        => [left'["crash"] = left["crash"] =>
              \A n \in Node, i \in LspId :
                  node[n].db[i] # NONE => Follows(node[n].db[i], node'[n].db[i])]_vars
  BY NextKeeps DEF AllAdvance
<1> QED BY <1>1, Inductive, PTL DEF Spec, NeverStepsBack

----------------------------------------------------------------------------
(* The steps of a network of point-to-point circuits *)

\* A frame taken off a queue, or nothing: n says nothing new.
LEMMA Silent ==
    ASSUME TypeOK, NEW n \in Node, NEW s, NEW t,
           \/ net' = net
           \/ \E c \in Circuit : net[c][n] # <<>> /\ net' = [net EXCEPT ![c][n] = Tail(@)]
    PROVE  Says(n, s, t)
<1>1. net \in [Circuit -> [Node -> Seq(Frame \cup Hello)]]
  BY HelloType DEF UpdateTypeOK
<1>2. CASE net' = net
  BY <1>2, Zenon DEF Says
<1>3. ASSUME NEW c \in Circuit, net[c][n] # <<>>, net' = [net EXCEPT ![c][n] = Tail(@)]
      PROVE  Says(n, s, t)
  <2>1. Range(Tail(net[c][n])) \subseteq Range(net[c][n])
    BY <1>1, <1>3, Ranges
  <2>2. \A d \in Circuit, m \in Node : net'[d][m] = net[d][m] \/ (d = c /\ m = n /\ net'[d][m] = Tail(net[d][m]))
    BY <1>1, <1>3
  <2>3. \A d \in Circuit, m \in Node : Range(net'[d][m]) \subseteq Range(net[d][m])
    BY <2>1, <2>2
  <2> QED BY <2>3, Zenon DEF Says
<1> QED BY <1>2, <1>3, Zenon

\* A frame of the update process is read.
LEMMA ReceiveSteps ==
    ASSUME TypeOK, OwnLSPs, NEW n \in Node, NEW c \in Circuit, ReceiveUpdate(n, c)
    PROVE  Steps(n)
<1> DEFINE f == Head(net[c][n])
<1>0. Hellos(Hello) /\ UpdateTypeOK(Hello)
  BY HelloType
<1>1. Pending(n, c)
  BY Zenon DEF ReceiveUpdate, DropUngated, processLSP, ReceiveCSNP, ReceivePSNP, Arrives
<1>2. /\ c \in CircuitsOf(n) /\ node[n] \in NodeState(n)
      /\ f.kind = "lsp" => f.id \in LspId /\ f.hdr \in Header /\ f.hdr.seq \in Seqno
      /\ f.kind \in {"csnp", "psnp"} => f.list \in [LspId -> Header \cup {NONE}]
  BY <1>0, <1>1, HeadFrame, Zenon
<1>3. f \in Range(net[c][n]) /\ net[c][n] # <<>>
  <2>1. net[c][n] \in Seq(Frame \cup Hello) /\ net[c][n] # <<>>
    BY <1>0, <1>1 DEF UpdateTypeOK, Pending
  <2> QED BY <2>1, Ranges
<1>4. OwnOK(n, node[n])
  BY Zenon DEF OwnLSPs, OwnOK
<1>5. \E t : Handles(n, node[n], t) /\ Handled(n, c, t)
  <2>1. CASE DropUngated(n, c)
    BY <1>2, <2>1, SameHandles DEF DropUngated
  <2>2. CASE processLSP(n, c)
    <3>1. f.kind = "lsp"
      BY <2>2, Zenon DEF processLSP, Arrives
    <3>2. Reads(n, c, f.id, f.hdr)
      BY <1>3, <3>1, Zenon DEF Reads
    <3>3. Branches(n, c, f.id, f.hdr, node[n])
      BY <2>2, Zenon DEF processLSP, Branches
    <3> HIDE DEF f
    <3> QED BY <1>2, <1>4, <3>1, <3>2, <3>3, LSPHandles, Zenon
  <2>3. CASE ReceiveCSNP(n, c) \/ ReceivePSNP(n, c)
    <3>1. f.kind \in {"csnp", "psnp"}
      BY <2>3, Zenon DEF ReceiveCSNP, ReceivePSNP, Arrives
    <3>2. PICK t : /\ t \in {processCSNP(node[n], c, f.list), processPSNP(n, node[n], c, f.list)}
                   /\ Handled(n, c, t)
      BY <2>3, Zenon DEF ReceiveCSNP, ReceivePSNP
    <3> HIDE DEF f
    <3>3. Settled(n, node[n], t, c, f)
      BY <1>2, <3>1, <3>2, SNPSettles
    <3> QED BY <1>2, <1>3, <3>2, <3>3, SettledHandles, Zenon
  <2> QED BY <2>1, <2>2, <2>3, Zenon DEF ReceiveUpdate
<1>6. PICK t : Handles(n, node[n], t) /\ Handled(n, c, t)
  BY <1>5, Zenon
<1>7. Says(n, node[n], t)
  BY <1>3, <1>6, Silent, Zenon DEF Handled
<1> QED BY <1>6, <1>7, Zenon DEF Steps, Handled

----------------------------------------------------------------------------
(* The tick and the hello exchange *)

\* transmitSRM reschedules the flag of an LSP it sent and clears that of one gone.
LEMMA TransmitHandles ==
    ASSUME NEW n, NEW s \in NodeState(n), NEW pick
    PROVE  /\ Handles(n, s, transmit(s, pick)) /\ transmit(s, pick).adj = s.adj
           /\ \A c \in CircuitsOf(n), i \in LspId : transmit(s, pick).ack[c][i] \in {s.ack[c][i], NONE}
<1> DEFINE t == transmit(s, pick)
<1>1. t \in NodeState(n) /\ t.db = s.db
  BY TransmitFlags
<1>2. t.adj = s.adj /\ t.defer = s.defer
  BY Zenon DEF NodeState, transmit
<1>3. \A c \in CircuitsOf(n), i \in LspId :
          /\ t.srm[c][i] = transmitSRM(s, c, pick[c])[i]
          /\ t.ack[c][i] \in {s.ack[c][i], NONE}
  BY Zenon DEF NodeState, transmit
<1> HIDE DEF t
<1>4. \A c \in CircuitsOf(n), i \in LspId : FlowsAt(n, s, t, c, i)
  <2> TAKE c \in CircuitsOf(n), i \in LspId
  <2>1. c \in P2P
    BY P2PAssumption, Zenon DEF CircuitsOf
  <2>2. t.srm[c][i] \in {s.srm[c][i], "due", "wait"} \/ s.db[i] = NONE
    BY <1>3, <2>1, Zenon DEF transmitSRM
  <2>3. CASE s.db[i] = NONE
    BY <1>1, <2>3, Zenon DEF FlowsAt
  <2>4. CASE t.srm[c][i] \in {"due", "wait"}
    BY <2>4 DEF FlowsAt, Flagged
  <2>5. CASE t.srm[c][i] = s.srm[c][i]
    BY <1>1, <1>2, <2>5, Zenon DEF FlowsAt, Flagged
  <2> QED BY <2>2, <2>3, <2>4, <2>5, Zenon
<1>5. \A c \in CircuitsOf(n), i \in LspId : AckedAt(n, s, t, c, i)
  BY <1>3, Zenon DEF AckedAt
<1>6. \A c \in CircuitsOf(n) : HeardAt(n, s, t, c)
  BY <1>2, Zenon DEF HeardAt
<1>7. \A i \in LspId : WroteAt(n, i, s.db[i], t.db[i])
  BY <1>1, Zenon DEF WroteAt
<1> QED BY <1>1, <1>2, <1>3, <1>4, <1>5, <1>6, <1>7, Zenon DEF Handles, t

\* The frames of a sequence, in one word.
AllIn(q, S) == q \in Seq(Frame \cup Hello) /\ Range(q) \subseteq S

\* Sequences of frames are joined.
LEMMA JoinFrames ==
    ASSUME NEW S, NEW p, NEW q, AllIn(p, S), AllIn(q, S)
    PROVE  AllIn(p \o q, S)
<1>1. p \in Seq(Frame \cup Hello) /\ q \in Seq(Frame \cup Hello)
  BY DEF AllIn
<1>2. p \o q \in Seq(Frame \cup Hello)
  BY <1>1
<1>3. Range(p \o q) = Range(p) \cup Range(q)
  BY <1>1, Ranges
<1> QED BY <1>2, <1>3, Zenon DEF AllIn

\* At most one frame.
LEMMA OneFrame ==
    ASSUME NEW S, NEW f \in Frame \cup Hello
    PROVE  /\ AllIn(<<>>, S)
           /\ f \in S => AllIn(<<f>>, S)
<1>1. <<>> \in Seq(Frame \cup Hello) /\ <<f>> \in Seq(Frame \cup Hello)
  OBVIOUS
<1>2. Range(<<>>) = {} /\ Range(<<f>>) = {f}
  BY Ranges, Zenon
<1> QED BY <1>1, <1>2, Zenon DEF AllIn

\* What n puts on the wire is all that is new there.
LEMMA SentSays ==
    ASSUME TypeOK, NEW n \in Node, NEW s, NEW t, NEW q \in Queues(Frame \cup Hello), NEW out,
           \A c \in Circuit, m \in Node : Range(q[c][m]) \subseteq Range(net[c][m]),
           \A c \in CircuitsOf(n) : AllIn(out[c], {f \in Frame \cup Hello : Speaks(n, s, t, c, f)}),
           net' = Sent(n, q, out)
    PROVE  Says(n, s, t)
<1> SUFFICES ASSUME NEW c \in Circuit, NEW m \in Node, NEW f \in Range(net'[c][m])
             PROVE  \/ f \in Range(net[c][m])
                    \/ c \in CircuitsOf(n) /\ m \in Neighbors(n, c) /\ Speaks(n, s, t, c, f)
  BY Zenon DEF Says
<1>1. q[c][m] \in Seq(Frame \cup Hello)
  BY Zenon DEF Queues
<1>2. CASE c \in CircuitsOf(n) /\ m \in Neighbors(n, c)
  <2>1. net'[c][m] = q[c][m] \o out[c]
    BY <1>2, Zenon DEF Sent
  <2>2. out[c] \in Seq(Frame \cup Hello)
    BY <1>2, Zenon DEF AllIn
  <2>3. Range(net'[c][m]) = Range(q[c][m]) \cup Range(out[c])
    BY <1>1, <2>1, <2>2, Ranges
  <2> QED BY <1>2, <2>3, Zenon DEF AllIn
<1>3. CASE ~(c \in CircuitsOf(n) /\ m \in Neighbors(n, c))
  <2>1. net'[c][m] = q[c][m]
    BY <1>3, Zenon DEF Sent
  <2> QED BY <2>1, Zenon
<1> QED BY <1>2, <1>3, Zenon

\* A hello says nothing of LSPs; a CSNP says what the database holds.
LEMMA SpeaksHello ==
    ASSUME NEW n, NEW s, NEW t, NEW c, NEW e
    PROVE  Speaks(n, s, t, c, helloFrame(n, e))
BY DEF Speaks, helloFrame

\* A CSNP says what the database holds.
LEMMA SpeaksCSNP ==
    ASSUME NEW n, NEW s, NEW t, NEW c, NEW u, u.db = t.db
    PROVE  Speaks(n, s, t, c, sendCSNP(n, u))
<1>1. sendCSNP(n, u) = [kind |-> "csnp", src |-> n,
                        list |-> [i \in LspId |-> IF t.db[i] = NONE THEN NONE ELSE wire(t.db[i])]]
  BY Zenon DEF sendCSNP, snpFrame
<1> DEFINE list == [i \in LspId |-> IF t.db[i] = NONE THEN NONE ELSE wire(t.db[i])]
<1>2. \A i \in LspId : list[i] # NONE => t.db[i] # NONE /\ list[i] = wire(t.db[i])
  BY Zenon
<1> HIDE DEF list
<1>3. Speaks(n, s, t, c, [kind |-> "csnp", src |-> n, list |-> list])
  BY <1>2 DEF Speaks
<1> QED BY <1>1, <1>3, Zenon DEF list

\* A PSNP says what the database holds, acknowledges, or requests.
LEMMA SpeaksPSNP ==
    ASSUME NEW n, NEW s, NEW t, NEW c, NEW u, u.db = t.db,
           \A i \in LspId : u.ack[c][i] \in {s.ack[c][i], NONE}
    PROVE  Speaks(n, s, t, c, psnpFrame(n, u, c))
<1> DEFINE list == [i \in LspId |-> IF i \in u.ssn[c] THEN psnpEntry(u, c, i) ELSE NONE]
<1>1. psnpFrame(n, u, c) = [kind |-> "psnp", src |-> n, list |-> list]
  BY Zenon DEF psnpFrame, snpFrame
<1>2. ASSUME NEW i \in LspId, list[i] # NONE
      PROVE  \/ t.db[i] # NONE /\ list[i] = wire(t.db[i])
             \/ list[i] = s.ack[c][i]
             \/ list[i].seq = 0
  <2>1. list[i] = psnpEntry(u, c, i)
    BY <1>2, Zenon
  <2> HIDE DEF list
  <2>2. CASE u.db[i] # NONE
    BY <2>1, <2>2, Zenon DEF psnpEntry
  <2>3. CASE u.db[i] = NONE /\ u.ack[c][i] # NONE
    BY <2>1, <2>3, Zenon DEF psnpEntry
  <2>4. CASE u.db[i] = NONE /\ u.ack[c][i] = NONE
    BY <2>1, <2>4 DEF psnpEntry
  <2> QED BY <2>2, <2>3, <2>4, Zenon
<1> HIDE DEF list
<1>3. Speaks(n, s, t, c, [kind |-> "psnp", src |-> n, list |-> list])
  BY <1>2 DEF Speaks
<1> QED BY <1>1, <1>3, Zenon

\* An LSP frame carries the entry.
LEMMA SpeaksLSP ==
    ASSUME NEW n, NEW s, NEW t, NEW c, NEW i \in LspId, NEW u, u.db = t.db, u.db[i] # NONE
    PROVE  Speaks(n, s, t, c, lspFrame(n, i, u.db[i]))
BY DEF Speaks, lspFrame

\* What floodTransmit sends on one circuit in one tick.
LEMMA TickSays ==
    ASSUME NEW n \in Node, NEW s, NEW t, NEW c \in CircuitsOf(n), NEW u \in NodeState(n),
           u.db = t.db, \A i \in LspId : u.ack[c][i] \in {s.ack[c][i], NONE},
           NEW p, p.visit \subseteq LspId
    PROVE  AllIn(FramesOf(n, u, c, p), {f \in Frame \cup Hello : Speaks(n, s, t, c, f)})
<1> DEFINE S == {f \in Frame \cup Hello : Speaks(n, s, t, c, f)}
           V == Present(u, p.visit) \ p.fail
           lsps == Listing(V)
           L == [k \in 1..Len(lsps) |-> lspFrame(n, lsps[k], u.db[lsps[k]])]
           P == IF u.ssn[c] = {} THEN <<>> ELSE <<psnpFrame(n, u, c)>>
           C == IF p.csnp THEN <<sendCSNP(n, u)>> ELSE <<>>
<1>1. V \subseteq LspId /\ \A i \in V : u.db[i] # NONE
  BY Zenon DEF Present
<1>2. FramesOf(n, u, c, p) = IF ~floodReady(u, c) THEN <<>> ELSE L \o P \o C
  BY Zenon DEF FramesOf
<1> HIDE DEF V
<1>3. lsps \in Seq(V)
  BY <1>1, UpdateAssumption, FS_Subset, ListSet, Zenon
<1> HIDE DEF lsps
<1>4. \A i \in V : lspFrame(n, i, u.db[i]) \in S
  <2> SUFFICES ASSUME NEW i \in V PROVE lspFrame(n, i, u.db[i]) \in S
    BY Zenon
  <2>1. wire(u.db[i]) \in {h \in Header : h.seq > 0}
    BY <1>1, Held, WireHeader, Zenon
  <2>2. lspFrame(n, i, u.db[i]) \in Frame
    BY <1>1, <2>1, Zenon DEF lspFrame, Frame
  <2>3. Speaks(n, s, t, c, lspFrame(n, i, u.db[i]))
    BY <1>1, SpeaksLSP, Zenon
  <2> QED BY <2>2, <2>3, Zenon
<1>5. S \subseteq Frame \cup Hello
  OBVIOUS
<1>6. sendCSNP(n, u) \in S /\ psnpFrame(n, u, c) \in S
  BY SNPFrames, SpeaksCSNP, SpeaksPSNP, Zenon
<1> HIDE DEF S
<1>7. AllIn(L, S)
  <2>1. \A k \in 1..Len(lsps) : L[k] \in S
    BY <1>3, <1>4
  <2>2. L \in Seq(S) /\ DOMAIN L = 1..Len(lsps)
    BY <1>3, <2>1
  <2>3. L \in Seq(Frame \cup Hello)
    BY <1>5, <2>2
  <2>4. Range(L) \subseteq S
    BY <2>1, <2>2, Zenon DEF Range
  <2> QED BY <2>3, <2>4, Zenon DEF AllIn
<1>8. AllIn(P, S) /\ AllIn(C, S) /\ AllIn(<<>>, S)
  BY <1>5, <1>6, OneFrame
<1> HIDE DEF L, P, C
<1>9. AllIn(L \o P \o C, S)
  BY <1>7, <1>8, JoinFrames
<1> QED BY <1>2, <1>8, <1>9, Zenon DEF S

\* One tick that drops no purge.
LEMMA HousekeepingSteps ==
    ASSUME TypeOK, NEW n \in Node, NEW pick, Housekeeping(n, {}, pick)
    PROVE  Steps(n)
<1> DEFINE s == node[n]
           a == ageLSPs(s, {})
           u == resync(a)
           t == transmit(u, pick)
           out == [c \in CircuitsOf(n) |->
                      (IF ResyncDue(a, c) THEN <<sendCSNP(n, a)>> ELSE <<>>)
                      \o FramesOf(n, u, c, pick[c])]
<1>1. /\ \A c \in CircuitsOf(n) : pick[c] \in TickChoice(n, u, c)
      /\ node' = [node EXCEPT ![n] = t] /\ net' = Sent(n, net, out)
  BY Zenon DEF Housekeeping
<1>2. s \in NodeState(n) /\ net \in Queues(Frame \cup Hello)
  BY HelloType DEF UpdateTypeOK, Queues
<1> HIDE DEF s
<1>3. /\ Handles(n, s, a) /\ a \in NodeState(n)
      /\ \A c \in CircuitsOf(n), i \in LspId : a.ack[c][i] \in {s.ack[c][i], NONE}
  BY <1>2, AgeHandles, Zenon DEF Handles
<1> HIDE DEF a
<1>4. Handles(n, a, u) /\ u \in NodeState(n) /\ u.db = a.db /\ u.ack = a.ack /\ u.adj = a.adj
  BY <1>3, ResyncHandles, ResyncFlags
<1> HIDE DEF u
<1>5. /\ Handles(n, u, t) /\ t.db = u.db /\ t.adj = u.adj
      /\ \A c \in CircuitsOf(n), i \in LspId : t.ack[c][i] \in {u.ack[c][i], NONE}
  BY <1>4, TransmitHandles, TransmitFlags
<1> HIDE DEF t
<1>6. Handles(n, s, u)
  <2>1. \A c \in CircuitsOf(n), i \in LspId : u.ack[c][i] \in {a.ack[c][i], NONE}
    BY <1>4, Zenon
  <2> QED BY <1>3, <1>4, <2>1, HandlesThen, Zenon
<1>7. Handles(n, s, t)
  BY <1>5, <1>6, HandlesThen, Zenon
<1>8. ASSUME NEW c \in CircuitsOf(n)
      PROVE  AllIn(out[c], {f \in Frame \cup Hello : Speaks(n, s, t, c, f)})
  <2> DEFINE S == {f \in Frame \cup Hello : Speaks(n, s, t, c, f)}
             R == IF ResyncDue(a, c) THEN <<sendCSNP(n, a)>> ELSE <<>>
             T == FramesOf(n, u, c, pick[c])
  <2>1. pick[c].visit \subseteq LspId
    BY <1>1, Zenon DEF TickChoice
  <2>2. \A i \in LspId : u.ack[c][i] \in {s.ack[c][i], NONE}
    BY <1>3, <1>4, Zenon
  <2>3. u.db = t.db /\ a.db = t.db
    BY <1>4, <1>5, Zenon
  <2>4. AllIn(T, S)
    BY <1>4, <2>1, <2>2, <2>3, TickSays, Zenon
  <2>5. sendCSNP(n, a) \in Frame \cup Hello /\ Speaks(n, s, t, c, sendCSNP(n, a))
    BY <1>3, <2>3, SNPFrames, SpeaksCSNP, Zenon
  <2>6. AllIn(R, S)
    <3>1. sendCSNP(n, a) \in S
      BY <2>5, Zenon
    <3>2. AllIn(<<>>, S) /\ AllIn(<<sendCSNP(n, a)>>, S)
      BY <2>5, <3>1, OneFrame, Zenon
    <3> QED BY <3>2, Zenon
  <2>7. out[c] = R \o T
    BY Zenon
  <2> HIDE DEF S, R, T, out
  <2>8. AllIn(R \o T, S)
    BY <2>4, <2>6, JoinFrames, Zenon
  <2> QED BY <2>7, <2>8, Zenon DEF S
<1> HIDE DEF out
<1>9. Says(n, s, t)
  BY <1>1, <1>2, <1>8, SentSays, Zenon
<1> QED BY <1>1, <1>7, <1>9, Zenon DEF Steps, s

\* Regeneration, purging, hold-downs, ageing, and LSPs from outside.
LEMMA OwnSteps ==
    ASSUME TypeOK, NEW n \in Node, NEW i \in LspId, NEW b \in Body, NEW q \in Seqno,
           \/ Originate(n, i, b) \/ PurgeStale(n, i) \/ ReleaseWrap(n, i, b)
           \/ LifetimeEnds(n, i) \/ FromOutside(n, i, q, b)
    PROVE  Steps(n)
<1> DEFINE s == node[n]
<1>0. s \in NodeState(n)
  BY HelloType DEF UpdateTypeOK
<1>1. \E t : Handles(n, s, t) /\ node' = [node EXCEPT ![n] = t] /\ net' = net
  <2>1. CASE Originate(n, i, b)
    BY <1>0, <2>1, OwnHandles, Zenon DEF Originate, ownsLSP
  <2>2. CASE PurgeStale(n, i)
    BY <1>0, <2>2, OwnHandles, Zenon DEF PurgeStale
  <2>3. CASE ReleaseWrap(n, i, b)
    <3> DEFINE r == [s EXCEPT !.wrap = @ \ {i}]
               t == IF ownsLSP(n, r, i) THEN originate(r, i, b) ELSE r
    <3>1. /\ r \in NodeState(n) /\ r.db = s.db /\ r.adj = s.adj /\ r.defer = s.defer
          /\ r.srm = s.srm /\ r.ack = s.ack
      BY <1>0, Zenon DEF NodeState
    <3>2. node' = [node EXCEPT ![n] = t] /\ net' = net
      BY <2>3, Zenon DEF ReleaseWrap
    <3> HIDE DEF r
    <3>3. Handles(n, r, t)
      BY <3>1, OwnHandles, SameHandles DEF ownsLSP
    <3> HIDE DEF t, s
    <3>4. Handles(n, s, t)
      BY <3>1, <3>3, HandlesFrom, Zenon
    <3> QED BY <3>2, <3>4, Zenon
  <2>4. CASE LifetimeEnds(n, i)
    <3> DEFINE e == [s.db[i] EXCEPT !.age = "expired"]
               t == [s EXCEPT !.db[i] = e]
    <3>1. s.db[i] # NONE /\ node' = [node EXCEPT ![n].db[i].age = "expired"] /\ net' = net
      BY <2>4, Zenon DEF LifetimeEnds
    <3>2. e \in Entry /\ e.seq = s.db[i].seq /\ e.age = "expired"
      BY <1>0, <3>1, Held DEF Entry
    <3>3. node' = [node EXCEPT ![n] = t]
      BY <1>0, <3>1, Zenon
    <3> HIDE DEF e, s
    <3>4. /\ t \in NodeState(n) /\ t.adj = s.adj /\ t.defer = s.defer /\ t.srm = s.srm /\ t.ack = s.ack
          /\ \A j \in LspId : t.db[j] = IF j = i THEN e ELSE s.db[j]
      BY <1>0, <3>2, Zenon DEF NodeState
    <3> HIDE DEF t
    <3>5. \A j \in LspId : WroteAt(n, j, s.db[j], t.db[j])
      BY <3>1, <3>2, <3>4, NilAssumption, Zenon DEF WroteAt, Zero
    <3>6. ASSUME NEW c \in CircuitsOf(n), NEW j \in LspId
          PROVE  FlowsAt(n, s, t, c, j) /\ AckedAt(n, s, t, c, j)
      <4>1. AckedAt(n, s, t, c, j)
        BY <3>4, Zenon DEF AckedAt
      <4>2. CASE j = i
        BY <3>2, <3>4, <4>1, <4>2 DEF FlowsAt
      <4>3. CASE j # i
        BY <3>4, <4>1, <4>3, Zenon DEF FlowsAt, Flagged
      <4> QED BY <4>2, <4>3, Zenon
    <3>7. Handles(n, s, t)
      BY <3>4, <3>5, <3>6, Zenon DEF Handles, HeardAt
    <3> QED BY <3>1, <3>3, <3>7, Zenon
  <2>5. CASE FromOutside(n, i, q, b)
    <3> DEFINE h == [seq |-> q, zero |-> FALSE, body |-> b]
               e == [seq |-> h.seq, age |-> IF h.zero THEN "purged" ELSE "live",
                     body |-> h.body, own |-> FALSE]
    <3>1. Owner[i] = NONE /\ node' = [node EXCEPT ![n] = store(s, i, e)] /\ net' = net
      BY <2>5, Zenon DEF FromOutside, Learn
    <3>2. e \in Entry
      BY DEF Entry
    <3> HIDE DEF e, s
    <3>3. WroteAt(n, i, s.db[i], e)
      BY <3>1, <3>2, NilAssumption, Zenon DEF WroteAt
    <3> QED BY <1>0, <3>1, <3>2, <3>3, StoreHandles, Zenon
  <2> QED BY <2>1, <2>2, <2>3, <2>4, <2>5, Zenon
<1>2. PICK t : Handles(n, s, t) /\ node' = [node EXCEPT ![n] = t] /\ net' = net
  BY <1>1, Zenon
<1>3. Says(n, s, t)
  BY <1>2, Silent, Zenon
<1> QED BY <1>2, <1>3, Zenon DEF Steps

\* A neighbor is one of the routers on the circuit.
NeighborsKnown ==
    \A n \in Node : \A c \in CircuitsOf(n) : \A m \in Node :
        node[n].adj[c][m] # "down" => m \in Neighbors(n, c)

\* There is one at most.
LEMMA OneNeighbor ==
    ASSUME NEW n, NEW c \in CircuitsOf(n), NEW m \in Neighbors(n, c), NEW o \in Neighbors(n, c)
    PROVE  o = m
<1>1. n \in Ends[c] /\ m \in Ends[c] /\ o \in Ends[c] /\ m # n /\ o # n /\ c \in Circuit
  BY Zenon DEF CircuitsOf, Neighbors
<1>2. PICK x \in Node, y \in Node : Ends[c] = {x, y}
  BY <1>1, P2PAssumption
<1> QED BY <1>1, <1>2

\* The end of a hold-down, a lost frame, the periodic hello.
LEMMA PlainSteps ==
    ASSUME TypeOK, NEW n \in Node, NEW c \in Circuit,
           HoldDownEnds(n, c) \/ Lose(n, c) \/ SendHello(n, c)
    PROVE  Steps(n)
<1> DEFINE s == node[n]
<1>0. s \in NodeState(n) /\ node = [m \in Node |-> node[m]] /\ net \in Queues(Frame \cup Hello)
  BY HelloType DEF UpdateTypeOK, Queues
<1>1. node = [node EXCEPT ![n] = s]
  BY <1>0, Zenon
<1>2. CASE HoldDownEnds(n, c)
  <2> DEFINE t == [s EXCEPT !.hold[c] = FALSE]
  <2>1. c \in CircuitsOf(n) /\ node' = [node EXCEPT ![n] = t] /\ net' = net
    BY <1>0, <1>2, Zenon DEF HoldDownEnds
  <2>2. /\ t \in NodeState(n) /\ t.db = s.db /\ t.adj = s.adj /\ t.defer = s.defer
        /\ t.srm = s.srm /\ t.ack = s.ack
    BY <1>0, <2>1, Zenon DEF NodeState
  <2> HIDE DEF t, s
  <2>3. Handles(n, s, t)
    BY <1>0, <2>2, StayHandles, Zenon DEF AckedAt
  <2>4. Says(n, s, t)
    BY <2>1, Silent, Zenon
  <2> QED BY <2>1, <2>3, <2>4, Zenon DEF Steps, s
<1>3. CASE Lose(n, c)
  <2>1. node' = node /\ net[c][n] # <<>> /\ net' = [net EXCEPT ![c][n] = Tail(@)]
    BY <1>3, Zenon DEF Lose, Pending
  <2>2. Says(n, s, s)
    BY <2>1, Silent, Zenon
  <2>3. Handles(n, s, s)
    BY <1>0, SameHandles, Zenon
  <2> QED BY <1>1, <2>1, <2>2, <2>3 DEF Steps
<1>4. CASE SendHello(n, c)
  <2> DEFINE f == helloFrame(n, echoes(node[n], c))
             out == Only(n, c, <<f>>)
  <2>1. node' = node /\ net' = Sent(n, net, out)
    BY <1>4, Zenon DEF SendHello
  <2>2. f \in Frame \cup Hello
    BY HelloType, Zenon DEF echoes
  <2>3. ASSUME NEW d \in CircuitsOf(n)
        PROVE  AllIn(out[d], {g \in Frame \cup Hello : Speaks(n, s, s, d, g)})
    <3>1. f \in {g \in Frame \cup Hello : Speaks(n, s, s, d, g)}
      BY <2>2, SpeaksHello, Zenon
    <3>2. out[d] = IF d = c THEN <<f>> ELSE <<>>
      BY Zenon DEF Only
    <3> HIDE DEF f, out
    <3> QED BY <2>2, <3>1, <3>2, OneFrame, Zenon
  <2> HIDE DEF out
  <2>4. Says(n, s, s)
    BY <1>0, <2>1, <2>3, SentSays, Zenon
  <2>5. Handles(n, s, s)
    BY <1>0, SameHandles, Zenon
  <2> QED BY <1>1, <2>1, <2>4, <2>5 DEF Steps
<1> QED BY <1>2, <1>3, <1>4, Zenon

\* teardownP2PAdj drops the flags of a circuit nobody is left on.
LEMMA TearDownSteps ==
    ASSUME TypeOK, NeighborsKnown, NEW n \in Node, NEW c \in Circuit, NEW m \in Node,
           TearDown(n, c, m)
    PROVE  Steps(n)
<1> DEFINE s == node[n]
           r == [s EXCEPT !.adj[c][m] = "down"]
           t == clearFlags(r, c)
<1>1. c \in CircuitsOf(n) /\ s.adj[c][m] # "down" /\ node' = [node EXCEPT ![n] = t] /\ net' = net
  BY Zenon DEF TearDown
<1>2. s \in NodeState(n)
  BY HelloType DEF UpdateTypeOK
<1>3. m \in Neighbors(n, c)
  BY <1>1, Zenon DEF NeighborsKnown
<1> HIDE DEF s
<1>4. /\ r \in NodeState(n) /\ r.db = s.db /\ r.defer = s.defer /\ r.srm = s.srm /\ r.ack = s.ack
      /\ r.adj = [s.adj EXCEPT ![c][m] = "down"]
  BY <1>1, <1>2, Zenon DEF NodeState
<1> HIDE DEF r
<1>5. /\ t \in NodeState(n) /\ t.db = r.db /\ t.adj = r.adj /\ t.defer = r.defer
      /\ t.srm = [r.srm EXCEPT ![c] = [i \in LspId |-> "off"]]
      /\ t.ack = [r.ack EXCEPT ![c] = [i \in LspId |-> NONE]]
  BY <1>1, <1>4, Zenon DEF NodeState, clearFlags
<1> HIDE DEF t
<1>6. /\ s.adj \in [CircuitsOf(n) -> [Node -> {"down", "init", "up"}]]
      /\ s.srm \in [CircuitsOf(n) -> [LspId -> {"off", "due", "wait"}]]
      /\ s.ack \in [CircuitsOf(n) -> [LspId -> Header \cup {NONE}]]
  BY <1>2, Zenon DEF NodeState
<1>7. \A d \in CircuitsOf(n) : /\ d # c => t.srm[d] = s.srm[d] /\ t.adj[d] = s.adj[d]
                               /\ \A i \in LspId : t.ack[d][i] \in {s.ack[d][i], NONE}
                               /\ \A o \in Node : t.adj[d][o] \in {s.adj[d][o], "down"}
  BY <1>4, <1>5, <1>6
<1>8. \A o \in Neighbors(n, c) : t.adj[c][o] # "up"
  <2>1. t.adj[c][m] = "down"
    BY <1>1, <1>4, <1>5, <1>6
  <2>2. \A o \in Neighbors(n, c) : o = m
    BY <1>1, <1>3, OneNeighbor
  <2> QED BY <2>1, <2>2
<1>9. ASSUME NEW d \in CircuitsOf(n), NEW i \in LspId
      PROVE  FlowsAt(n, s, t, d, i) /\ AckedAt(n, s, t, d, i)
  <2>1. AckedAt(n, s, t, d, i)
    BY <1>7, Zenon DEF AckedAt
  <2>2. CASE d = c
    BY <1>8, <2>1, <2>2, Zenon DEF FlowsAt
  <2>3. CASE d # c
    BY <1>4, <1>5, <1>7, <2>1, <2>3, Zenon DEF FlowsAt, Flagged
  <2> QED BY <2>2, <2>3, Zenon
<1>10. \A d \in CircuitsOf(n) : HeardAt(n, s, t, d)
  BY <1>7, Zenon DEF HeardAt
<1>11. \A i \in LspId : WroteAt(n, i, s.db[i], t.db[i])
  BY <1>4, <1>5, Zenon DEF WroteAt
<1>12. Handles(n, s, t)
  BY <1>5, <1>9, <1>10, <1>11, Zenon DEF Handles
<1>13. Says(n, s, t)
  BY <1>1, Silent, Zenon
<1> QED BY <1>1, <1>12, <1>13, Zenon DEF Steps, s

\* processP2PHello: a neighbor that comes up is owed the whole database, now or
\* when the hold-down ends.
LEMMA HelloSteps ==
    ASSUME TypeOK, NEW n \in Node, NEW c \in Circuit, ReceiveHello(n, c)
    PROVE  Steps(n)
<1> DEFINE f == Head(net[c][n])
           s == node[n]
           new == IF f.echo THEN "up" ELSE "init"
           changed == s.adj[c][f.src] # new
           r == [s EXCEPT !.adj[c][f.src] = new]
           t == IF changed /\ new = "up" THEN synced(r, c) ELSE r
           hello == IF changed THEN <<helloFrame(n, TRUE)>> ELSE <<>>
           csnp == IF changed /\ new = "up" /\ ~s.hold[c] THEN <<sendCSNP(n, r)>> ELSE <<>>
           q == [net EXCEPT ![c][n] = Tail(@)]
           out == Only(n, c, hello \o csnp)
<1>1. /\ Pending(n, c) /\ f.kind = "hello"
      /\ node' = [node EXCEPT ![n] = t] /\ net' = Sent(n, q, out)
  BY Zenon DEF ReceiveHello
<1>2. Hellos(Hello) /\ UpdateTypeOK(Hello)
  BY HelloType
<1>3. c \in CircuitsOf(n) /\ s \in NodeState(n) /\ f \in Hello /\ q \in Queues(Frame \cup Hello)
  BY <1>1, <1>2, HeadFrame, Zenon DEF Queues
<1>4. f.src \in Node /\ new \in {"init", "up"}
  BY <1>3 DEF Hello
<1>5. f \in Range(net[c][n]) /\ \A d \in Circuit, m \in Node : Range(q[d][m]) \subseteq Range(net[d][m])
  <2>1. net \in [Circuit -> [Node -> Seq(Frame \cup Hello)]] /\ net[c][n] # <<>>
    BY <1>1, <1>2, Zenon DEF UpdateTypeOK, Pending
  <2>2. f \in Range(net[c][n]) /\ Range(Tail(net[c][n])) \subseteq Range(net[c][n])
    BY <2>1, Ranges
  <2>3. \A d \in Circuit, m \in Node : q[d][m] = net[d][m] \/ (d = c /\ m = n /\ q[d][m] = Tail(net[d][m]))
    BY <2>1
  <2> HIDE DEF q, f
  <2> QED BY <2>2, <2>3, Zenon
<1> HIDE DEF f, new, q, s
<1>6. /\ r \in NodeState(n) /\ r.db = s.db /\ r.defer = s.defer /\ r.srm = s.srm /\ r.ack = s.ack
      /\ r.hold = s.hold /\ r.adj = [s.adj EXCEPT ![c][f.src] = new]
  <2>1. new \in {"down", "init", "up"}
    BY <1>4
  <2> QED BY <1>3, <1>4, <2>1, Zenon DEF NodeState
<1>7. s.adj \in [CircuitsOf(n) -> [Node -> {"down", "init", "up"}]]
  BY <1>3, Zenon DEF NodeState
<1>8. \A d \in CircuitsOf(n), m \in Node :
          /\ d # c => r.adj[d][m] = s.adj[d][m]
          /\ m # f.src => r.adj[d][m] = s.adj[d][m]
          /\ ~(changed /\ new = "up") => (r.adj[d][m] = "up" => s.adj[d][m] = "up")
  BY <1>3, <1>4, <1>6, <1>7
<1> HIDE DEF r
<1>9. /\ t \in NodeState(n) /\ t.db = r.db /\ t.adj = r.adj /\ t.ack = r.ack
      /\ \A d \in CircuitsOf(n) \ {c} : t.srm[d] = r.srm[d] /\ t.defer[d] = r.defer[d]
      /\ changed /\ new = "up" =>
             \A i \in LspId : t.defer[c] \/ t.db[i] = NONE \/ t.srm[c][i] = "due"
      /\ ~(changed /\ new = "up") => t = r
  <2>1. CASE ~(changed /\ new = "up")
    BY <1>6, <2>1, Zenon
  <2>2. CASE changed /\ new = "up"
    <3> DEFINE v == synced(r, c)
    <3>1. t = v
      BY <2>2, Zenon
    <3>2. v \in NodeState(n) /\ v.db = r.db
      BY <1>3, <1>6, SyncedFlags, Zenon
    <3>3. v.adj = r.adj /\ v.ack = r.ack
      BY <1>6, Zenon DEF NodeState, synced
    <3>4. \A d \in CircuitsOf(n) \ {c} : v.srm[d] = r.srm[d] /\ v.defer[d] = r.defer[d]
      BY <1>3, <1>6 DEF NodeState, synced
    <3>5. \A i \in LspId : v.defer[c] \/ v.db[i] = NONE \/ v.srm[c][i] = "due"
      <4>1. CASE r.hold[c]
        <5>1. v.defer[c]
          BY <1>3, <1>6, <4>1, Zenon DEF NodeState, synced
        <5> QED BY <5>1, Zenon
      <4>2. CASE ~r.hold[c]
        <5>1. v.srm[c] = flagAll(r, r.srm[c])
          BY <1>3, <1>6, <4>2, Zenon DEF NodeState, synced
        <5> HIDE DEF v
        <5> QED BY <3>2, <5>1, Zenon DEF flagAll
      <4> QED BY <4>1, <4>2, Zenon
    <3> HIDE DEF v, t
    <3> QED BY <2>2, <3>1, <3>2, <3>3, <3>4, <3>5, Zenon
  <2> QED BY <2>1, <2>2, Zenon
<1> HIDE DEF t
<1>10. ASSUME NEW d \in CircuitsOf(n), NEW i \in LspId
       PROVE  FlowsAt(n, s, t, d, i) /\ AckedAt(n, s, t, d, i)
  <2>1. AckedAt(n, s, t, d, i)
    BY <1>6, <1>9, Zenon DEF AckedAt
  <2>2. CASE d = c /\ changed /\ new = "up"
    <3>1. Flagged(t, d, i) \/ t.db[i] = NONE
      BY <1>9, <2>2 DEF Flagged
    <3> QED BY <2>1, <3>1, Zenon DEF FlowsAt
  <2>3. CASE ~(changed /\ new = "up") \/ d # c
    <3>1. t.srm[d] = s.srm[d] /\ t.defer[d] = s.defer[d] /\ t.db[i] = s.db[i]
      BY <1>6, <1>9, <2>3
    <3>2. \A m \in Node : t.adj[d][m] = "up" => s.adj[d][m] = "up"
      BY <1>8, <1>9, <2>3
    <3> QED BY <2>1, <3>1, <3>2, Zenon DEF FlowsAt, Flagged
  <2> QED BY <2>2, <2>3, Zenon
<1>11. \A d \in CircuitsOf(n) : HeardAt(n, s, t, d)
  BY <1>5, <1>8, <1>9, SMTT(30) DEF HeardAt
<1>12. \A i \in LspId : WroteAt(n, i, s.db[i], t.db[i])
  BY <1>6, <1>9, Zenon DEF WroteAt
<1>13. Handles(n, s, t)
  BY <1>9, <1>10, <1>11, <1>12, Zenon DEF Handles
<1>14. ASSUME NEW d \in CircuitsOf(n)
       PROVE  AllIn(out[d], {g \in Frame \cup Hello : Speaks(n, s, t, d, g)})
  <2> DEFINE S == {g \in Frame \cup Hello : Speaks(n, s, t, d, g)}
  <2>1. helloFrame(n, TRUE) \in Frame \cup Hello /\ sendCSNP(n, r) \in Frame \cup Hello
    BY <1>3, <1>6, HelloType, SNPFrames, Zenon
  <2>2. r.db = t.db
    BY <1>9, Zenon
  <2>3. helloFrame(n, TRUE) \in S /\ sendCSNP(n, r) \in S
    BY <2>1, <2>2, SpeaksHello, SpeaksCSNP, Zenon
  <2>4. out[d] \in {hello \o csnp, <<>>}
    BY Zenon DEF Only
  <2>5. hello \in {<<helloFrame(n, TRUE)>>, <<>>} /\ csnp \in {<<sendCSNP(n, r)>>, <<>>}
    BY Zenon
  <2> HIDE DEF S, out, hello, csnp
  <2>6. AllIn(<<>>, S) /\ AllIn(<<helloFrame(n, TRUE)>>, S) /\ AllIn(<<sendCSNP(n, r)>>, S)
    BY <2>1, <2>3, OneFrame, Zenon
  <2>7. AllIn(hello, S) /\ AllIn(csnp, S)
    BY <2>5, <2>6, Zenon
  <2>8. AllIn(hello \o csnp, S)
    BY <2>7, JoinFrames, Zenon
  <2> QED BY <2>4, <2>6, <2>8, Zenon DEF S
<1> HIDE DEF out
<1>15. Says(n, s, t)
  BY <1>1, <1>3, <1>5, <1>14, SentSays, Zenon
<1> QED BY <1>1, <1>13, <1>15, Zenon DEF Steps, s

----------------------------------------------------------------------------
(* What frames and acknowledgements say is still true *)

\* Entry e is at least as new as header h.
Behind(h, e) ==
    e # NONE /\ (e.seq > h.seq \/ (e.seq = h.seq /\ (h.zero => Zero(e))))

AtLeast(e, q) == e # NONE /\ e.seq >= q

\* A record of a PSNP is a request, a version its sender holds, or the
\* acknowledgement of a purge the receiver still holds or has gone beyond.
Answered(h, theirs, mine) ==
    h.seq = 0 \/ AtLeast(theirs, h.seq) \/ (h.zero /\ Behind(h, mine))

\* A frame on c that r has not read comes from the other end, whose database has
\* not fallen behind what the frame says of it.
FrameTrue(f, c, r) ==
    /\ r \in Ends[c] /\ f.src \in Neighbors(r, c)
    /\ f.kind = "lsp" => Behind(f.hdr, node[f.src].db[f.id])
    /\ f.kind = "csnp" => \A i \in LspId : f.list[i] # NONE =>
           AtLeast(node[f.src].db[i], f.list[i].seq)
    /\ f.kind = "psnp" => \A i \in LspId : f.list[i] # NONE =>
           Answered(f.list[i], node[f.src].db[i], node[r].db[i])

FramesTrue ==
    \A c \in Circuit, r \in Node : \A f \in Range(net[c][r]) : FrameTrue(f, c, r)

\* A purge acknowledged without being stored is still the neighbor's, or outdated there.
AcksTrue ==
    \A n \in Node : \A c \in CircuitsOf(n) : \A i \in LspId : node[n].ack[c][i] # NONE =>
        /\ node[n].ack[c][i].zero
        /\ \A m \in Neighbors(n, c) : Behind(node[n].ack[c][i], node[m].db[i])

FlowInv == NeighborsKnown /\ FramesTrue /\ AcksTrue /\ NoLostUpdate

\* No database falls behind.
Onward ==
    \A n \in Node, i \in LspId :
        /\ \A h \in Header : Behind(h, node[n].db[i]) => Behind(h, node'[n].db[i])
        /\ \A q \in Int : AtLeast(node[n].db[i], q) => AtLeast(node'[n].db[i], q)

\* A step that drops no purge and restarts nobody.
LEMMA StepsOnward ==
    ASSUME TypeOK, TypeOK', NEW n \in Node, Steps(n), AllAdvance
    PROVE  Onward
<1>1. PICK t : Handles(n, node[n], t) /\ node' = [node EXCEPT ![n] = t]
  BY Zenon DEF Steps
<1>2. \A m \in Node : node[m] \in NodeState(m) /\ node'[m] \in NodeState(m)
  BY Zenon DEF TypeOK, UpdateTypeOK
<1>3. node'[n] = t /\ \A m \in Node \ {n} : node'[m] = node[m]
  <2>1. node = [m \in Node |-> node[m]]
    BY Zenon DEF TypeOK, UpdateTypeOK
  <2> QED BY <1>1, <2>1, Zenon
<1>4. ASSUME NEW m \in Node, NEW i \in LspId, node[m].db[i] # NONE
      PROVE  /\ node'[m].db[i] # NONE /\ Follows(node[m].db[i], node'[m].db[i])
             /\ node[m].db[i].seq \in Int /\ node'[m].db[i].seq \in Int
  <2>1. node'[m].db[i] # NONE
    <3>1. CASE m = n
      <4>1. WroteAt(n, i, node[n].db[i], t.db[i])
        BY <1>1, Zenon DEF Handles
      <4> QED BY <1>3, <1>4, <3>1, <4>1, Zenon DEF WroteAt
    <3>2. CASE m # n
      BY <1>3, <1>4, <3>2, Zenon
    <3> QED BY <3>1, <3>2, Zenon
  <2>2. Follows(node[m].db[i], node'[m].db[i])
    BY <1>4, Zenon DEF AllAdvance
  <2>3. \A q \in Seqno : q \in Int
    BY DEF Seqno
  <2> QED BY <1>2, <1>4, <2>1, <2>2, <2>3, Held, Zenon
<1>5. \A h \in Header : h.seq \in Int
  BY UpdateAssumption DEF Header
<1>6. ASSUME NEW m \in Node, NEW i \in LspId, NEW h \in Header, Behind(h, node[m].db[i])
      PROVE  Behind(h, node'[m].db[i])
  <2> DEFINE d == node[m].db[i]
             e == node'[m].db[i]
  <2>1. d # NONE /\ e # NONE /\ Follows(d, e) /\ d.seq \in Int /\ e.seq \in Int /\ h.seq \in Int
    BY <1>4, <1>5, <1>6, Zenon DEF Behind
  <2>2. Behind(h, d)
    BY <1>6, Zenon
  <2> HIDE DEF d, e
  <2>3. Behind(h, e)
    BY <2>1, <2>2 DEF Behind, Follows
  <2> QED BY <2>3, Zenon DEF e
<1>7. ASSUME NEW m \in Node, NEW i \in LspId, NEW q \in Int, AtLeast(node[m].db[i], q)
      PROVE  AtLeast(node'[m].db[i], q)
  <2> DEFINE d == node[m].db[i]
             e == node'[m].db[i]
  <2>1. d # NONE /\ e # NONE /\ Follows(d, e) /\ d.seq \in Int /\ e.seq \in Int /\ d.seq >= q
    BY <1>4, <1>7, Zenon DEF AtLeast
  <2> HIDE DEF d, e
  <2>2. AtLeast(e, q)
    BY <2>1 DEF AtLeast, Follows
  <2> QED BY <2>2, Zenon DEF e
<1> QED BY <1>6, <1>7, Zenon DEF Onward

\* The parts of a frame on the wire.
LEMMA FrameParts ==
    ASSUME TypeOK, NEW c \in Circuit, NEW r \in Node, NEW f \in Range(net[c][r])
    PROVE  /\ f.kind = "lsp" => f.id \in LspId /\ f.hdr \in Header
           /\ f.kind \in {"csnp", "psnp"} => f.list \in [LspId -> Header \cup {NONE}]
<1>1. net[c][r] \in Seq(Frame \cup Hello)
  BY HelloType DEF UpdateTypeOK
<1>2. f \in Frame \cup Hello
  BY <1>1 DEF Range
<1> QED BY <1>2 DEF Frame, Hello

\* Frames under way stay true.
LEMMA FramesStay ==
    ASSUME TypeOK, TypeOK', FramesTrue, AcksTrue, NEW n \in Node, Steps(n), Onward
    PROVE  FramesTrue'
<1>1. PICK t : /\ node' = [node EXCEPT ![n] = t] /\ Says(n, node[n], t)
  BY Zenon DEF Steps
<1>2. node'[n] = t
  <2>1. node = [m \in Node |-> node[m]]
    BY Zenon DEF TypeOK, UpdateTypeOK
  <2> QED BY <1>1, <2>1, Zenon
<1>3. \A h \in Header : h.seq \in Int
  BY UpdateAssumption DEF Header
<1>4. SUFFICES ASSUME NEW c \in Circuit, NEW r \in Node, NEW f \in Range(net'[c][r])
               PROVE  FrameTrue(f, c, r)'
  BY Zenon DEF FramesTrue
<1>5. /\ f.kind = "lsp" => f.id \in LspId /\ f.hdr \in Header
      /\ f.kind \in {"csnp", "psnp"} => f.list \in [LspId -> Header \cup {NONE}]
  <2>1. net'[c][r] \in Seq(Frame \cup Hello)
    BY DEF TypeOK, UpdateTypeOK, Hello
  <2>2. f \in Frame \cup Hello
    BY <2>1 DEF Range
  <2> QED BY <2>2 DEF Frame, Hello
<1>6. CASE f \in Range(net[c][r])
  <2>1. FrameTrue(f, c, r)
    BY <1>6, Zenon DEF FramesTrue
  <2>2. r \in Ends[c] /\ f.src \in Neighbors(r, c) /\ f.src \in Node
    <3>1. r \in Ends[c] /\ f.src \in Neighbors(r, c)
      BY <2>1, Zenon DEF FrameTrue
    <3> QED BY <3>1, UpdateAssumption, Zenon DEF Neighbors
  <2>3. f.kind = "lsp" => Behind(f.hdr, node'[f.src].db[f.id])
    BY <1>5, <2>1, <2>2, Zenon DEF FrameTrue, Onward
  <2>4. ASSUME f.kind = "csnp", NEW i \in LspId, f.list[i] # NONE
        PROVE  AtLeast(node'[f.src].db[i], f.list[i].seq)
    <3>1. f.list[i] \in Header /\ f.list[i].seq \in Int
      BY <1>3, <1>5, <2>4, Zenon
    <3> QED BY <2>1, <2>2, <2>4, <3>1, Zenon DEF FrameTrue, Onward
  <2>5. ASSUME f.kind = "psnp", NEW i \in LspId, f.list[i] # NONE
        PROVE  Answered(f.list[i], node'[f.src].db[i], node'[r].db[i])
    <3>1. f.list[i] \in Header /\ f.list[i].seq \in Int
      BY <1>3, <1>5, <2>5, Zenon
    <3>2. Answered(f.list[i], node[f.src].db[i], node[r].db[i])
      BY <2>1, <2>5, Zenon DEF FrameTrue
    <3> QED BY <2>2, <3>1, <3>2, Zenon DEF Answered, Onward
  <2> QED BY <2>2, <2>3, <2>4, <2>5, Zenon DEF FrameTrue
<1>7. CASE c \in CircuitsOf(n) /\ r \in Neighbors(n, c) /\ Speaks(n, node[n], t, c, f)
  <2>1. r \in Ends[c] /\ f.src \in Neighbors(r, c) /\ f.src = n
    BY <1>7, Opposite, Zenon DEF Speaks
  <2>2. node'[n] \in NodeState(n)
    BY Zenon DEF TypeOK, UpdateTypeOK
  <2>3. ASSUME NEW i \in LspId, node'[n].db[i] # NONE
        PROVE  Behind(wire(node'[n].db[i]), node'[n].db[i]) /\ AtLeast(node'[n].db[i], wire(node'[n].db[i]).seq)
    <3> DEFINE e == node'[n].db[i]
    <3>1. e # NONE /\ e.seq \in Int
      BY <2>2, <2>3, Held DEF Seqno
    <3> HIDE DEF e
    <3>2. wire(e).seq = e.seq /\ (wire(e).zero => Zero(e))
      BY Zenon DEF wire, Zero
    <3>3. AtLeast(e, wire(e).seq)
      BY <3>1, <3>2 DEF AtLeast
    <3>4. Behind(wire(e), e)
      BY <3>1, <3>2, Zenon DEF Behind
    <3> QED BY <3>3, <3>4, Zenon DEF e
  <2>4. f.kind = "lsp" => Behind(f.hdr, node'[f.src].db[f.id])
    BY <1>2, <1>5, <1>7, <2>1, <2>3, Zenon DEF Speaks
  <2>5. ASSUME f.kind = "csnp", NEW i \in LspId, f.list[i] # NONE
        PROVE  AtLeast(node'[f.src].db[i], f.list[i].seq)
    BY <1>2, <1>7, <2>1, <2>3, <2>5, Zenon DEF Speaks
  <2>6. ASSUME f.kind = "psnp", NEW i \in LspId, f.list[i] # NONE
        PROVE  Answered(f.list[i], node'[f.src].db[i], node'[r].db[i])
    <3>1. CASE node'[n].db[i] # NONE /\ f.list[i] = wire(node'[n].db[i])
      BY <2>1, <2>3, <3>1, Zenon DEF Answered
    <3>2. CASE f.list[i] = node[n].ack[c][i]
      <4>1. f.list[i].zero /\ Behind(f.list[i], node[r].db[i]) /\ f.list[i] \in Header
        BY <1>5, <1>7, <2>6, <3>2, Zenon DEF AcksTrue
      <4> QED BY <4>1, Zenon DEF Answered, Onward
    <3>3. CASE f.list[i].seq = 0
      BY <3>3, Zenon DEF Answered
    <3> QED BY <1>2, <1>7, <2>6, <3>1, <3>2, <3>3, Zenon DEF Speaks
  <2> QED BY <2>1, <2>4, <2>5, <2>6, Zenon DEF FrameTrue
<1> QED BY <1>1, <1>6, <1>7, Zenon DEF Says

\* Known neighbors stay the other end and acknowledged purges stay theirs.
LEMMA AcksStay ==
    ASSUME TypeOK, TypeOK', NeighborsKnown, FramesTrue, AcksTrue, NEW n \in Node, Steps(n), Onward
    PROVE  NeighborsKnown' /\ AcksTrue'
<1>1. PICK t : Handles(n, node[n], t) /\ node' = [node EXCEPT ![n] = t]
  BY Zenon DEF Steps
<1>2. node'[n] = t /\ \A m \in Node \ {n} : node'[m] = node[m]
  <2>1. node = [m \in Node |-> node[m]]
    BY Zenon DEF TypeOK, UpdateTypeOK
  <2> QED BY <1>1, <2>1, Zenon
<1>3. \A x \in Node : \A c \in CircuitsOf(x) : c \in Circuit
  BY Zenon DEF CircuitsOf
<1>4. NeighborsKnown'
  <2>1. SUFFICES ASSUME NEW x \in Node, NEW c \in CircuitsOf(x), NEW m \in Node,
                        node'[x].adj[c][m] # "down"
                 PROVE  m \in Neighbors(x, c)
    BY Zenon DEF NeighborsKnown
  <2>2. CASE x = n
    <3>1. node[n].adj[c][m] # "down" \/ \E f \in Range(net[c][n]) : f.src = m
      <4>1. HeardAt(n, node[n], t, c)
        BY <1>1, <2>2, Zenon DEF Handles
      <4> QED BY <1>2, <2>1, <2>2, <4>1, Zenon DEF HeardAt
    <3> QED BY <1>3, <2>2, <3>1, Zenon DEF NeighborsKnown, FramesTrue, FrameTrue
  <2>3. CASE x # n
    BY <1>2, <2>1, <2>3, Zenon DEF NeighborsKnown
  <2> QED BY <2>2, <2>3, Zenon
<1>5. AcksTrue'
  <2>1. SUFFICES ASSUME NEW x \in Node, NEW c \in CircuitsOf(x), NEW i \in LspId,
                        node'[x].ack[c][i] # NONE
                 PROVE  /\ node'[x].ack[c][i].zero
                        /\ \A m \in Neighbors(x, c) : Behind(node'[x].ack[c][i], node'[m].db[i])
    BY Zenon DEF AcksTrue
  <2> DEFINE h == node'[x].ack[c][i]
  <2>2. h.zero /\ \A m \in Neighbors(x, c) : Behind(h, node[m].db[i])
    <3>1. CASE h = node[x].ack[c][i]
      BY <2>1, <3>1, Zenon DEF AcksTrue
    <3>2. CASE x = n /\ h # node[x].ack[c][i]
      <4>1. PICK f \in Range(net[c][n]) : f.kind = "lsp" /\ f.id = i /\ f.hdr = h /\ f.hdr.zero
        <5>1. AckedAt(n, node[n], t, c, i)
          BY <1>1, <3>2, Zenon DEF Handles
        <5>2. h = t.ack[c][i] /\ h # NONE /\ h # node[n].ack[c][i]
          BY <1>2, <2>1, <3>2, Zenon
        <5> QED BY <5>1, <5>2 DEF AckedAt
      <4>2. FrameTrue(f, c, n)
        BY <1>3, Zenon DEF FramesTrue
      <4>3. f.src \in Neighbors(n, c) /\ Behind(h, node[f.src].db[i])
        BY <4>1, <4>2, Zenon DEF FrameTrue
      <4>4. \A m \in Neighbors(n, c) : m = f.src
        BY <3>2, <4>3, OneNeighbor, Zenon
      <4> QED BY <3>2, <4>1, <4>3, <4>4, Zenon
    <3>3. CASE x # n
      BY <1>2, <3>1, <3>3, Zenon
    <3> QED BY <3>1, <3>2, <3>3, Zenon
  <2>3. h \in Header
    <3>1. node'[x] \in NodeState(x)
      BY Zenon DEF TypeOK, UpdateTypeOK
    <3> QED BY <2>1, <3>1 DEF NodeState
  <2> HIDE DEF h
  <2>4. \A m \in Neighbors(x, c) : Behind(h, node'[m].db[i])
    BY <2>2, <2>3, Opposite, Zenon DEF Onward
  <2> QED BY <2>2, <2>4, Zenon DEF h
<1> QED BY <1>4, <1>5, Zenon

\* What a frame that settles version e of LSP i for n shows of the other end: it is
\* not behind e, unless e is no longer live.
LEMMA SettledTheirs ==
    ASSUME TypeOK, FramesTrue, NEW n \in Node, NEW c \in CircuitsOf(n), NEW i \in LspId,
           NEW f \in Range(net[c][n]), NEW e \in Entry,
           Settles(f, i, e.seq), e # NONE, ~Zero(e),
           node[n].db[i] # NONE => Follows(node[n].db[i], e)
    PROVE  AtLeast(node[f.src].db[i], e.seq)
<1>1. c \in Circuit
  BY Zenon DEF CircuitsOf
<1>2. /\ f.kind = "lsp" => f.id \in LspId /\ f.hdr \in Header
      /\ f.kind \in {"csnp", "psnp"} => f.list \in [LspId -> Header \cup {NONE}]
  BY <1>1, FrameParts, Zenon
<1>3. FrameTrue(f, c, n)
  BY <1>1, Zenon DEF FramesTrue
<1>4. f.src \in Node
  <2>1. f.src \in Neighbors(n, c)
    BY <1>3, Zenon DEF FrameTrue
  <2> QED BY <2>1, Opposite, Zenon
<1>5. node[f.src] \in NodeState(f.src) /\ node[n] \in NodeState(n)
  BY <1>4, Zenon DEF TypeOK, UpdateTypeOK
<1>6. e.seq \in Int /\ e.seq > 0
  BY UpdateAssumption DEF Entry, Seqno
<1>7. \A m \in Node : \A d : node[m] \in NodeState(m) /\ d = node[m].db[i] /\ d # NONE => d.seq \in Int
  BY Held DEF Seqno
<1>8. \A h \in Header : h.seq \in Int
  BY UpdateAssumption DEF Header
<1> DEFINE theirs == node[f.src].db[i]
           mine == node[n].db[i]
<1>9. (theirs # NONE => theirs.seq \in Int) /\ (mine # NONE => mine.seq \in Int /\ Follows(mine, e))
  BY <1>4, <1>5, <1>7, Zenon
<1>10. CASE f.kind = "lsp" /\ f.id = i /\ f.hdr.seq >= e.seq
  <2>1. Behind(f.hdr, theirs) /\ f.hdr.seq \in Int
    BY <1>2, <1>3, <1>8, <1>10, Zenon DEF FrameTrue
  <2> HIDE DEF theirs
  <2>2. AtLeast(theirs, e.seq)
    BY <1>6, <1>9, <1>10, <2>1 DEF AtLeast, Behind
  <2> QED BY <2>2, Zenon DEF theirs
<1>11. CASE f.kind \in {"csnp", "psnp"} /\ f.list[i] # NONE /\ f.list[i].seq >= e.seq
  <2> DEFINE h == f.list[i]
  <2>1. h.seq \in Int /\ h.seq >= e.seq
    BY <1>2, <1>8, <1>11, Zenon
  <2>2. AtLeast(theirs, h.seq) \/ h.seq = 0 \/ (h.zero /\ Behind(h, mine))
    BY <1>3, <1>11, Zenon DEF FrameTrue, Answered
  <2> HIDE DEF theirs, mine, h
  <2>3. AtLeast(theirs, e.seq)
    <3>1. CASE AtLeast(theirs, h.seq)
      BY <1>6, <1>9, <2>1, <3>1 DEF AtLeast
    <3>2. CASE h.seq = 0
      BY <1>6, <2>1, <3>2
    <3>3. CASE h.zero /\ Behind(h, mine)
      <4>1. mine # NONE /\ mine.seq >= h.seq /\ (mine.seq = h.seq => Zero(mine))
        BY <1>9, <2>1, <3>3 DEF Behind
      <4>2. Follows(mine, e) /\ mine.seq \in Int /\ e # NONE
        BY <1>9, <4>1, Zenon
      <4>3. e.seq = mine.seq /\ mine.seq = h.seq
        BY <1>6, <2>1, <4>1, <4>2 DEF Follows
      <4>4. ~(e.seq > mine.seq)
        BY <1>6, <4>3
      <4> QED BY <4>1, <4>2, <4>3, <4>4, Zenon DEF Follows
    <3> QED BY <2>2, <3>1, <3>2, <3>3, Zenon
  <2> QED BY <2>3, Zenon DEF theirs
<1> QED BY <1>10, <1>11, Zenon DEF Settles

\* No step loses the last reason to send an LSP.
LEMMA UpdatesStay ==
    ASSUME TypeOK, TypeOK', FramesTrue, NoLostUpdate, NEW n \in Node, Steps(n), AllAdvance, Onward
    PROVE  NoLostUpdate'
<1>1. PICK t : Handles(n, node[n], t) /\ node' = [node EXCEPT ![n] = t]
  BY Zenon DEF Steps
<1>2. node'[n] = t /\ \A m \in Node \ {n} : node'[m] = node[m]
  <2>1. node = [m \in Node |-> node[m]]
    BY Zenon DEF TypeOK, UpdateTypeOK
  <2> QED BY <1>1, <2>1, Zenon
<1>3. SUFFICES ASSUME NEW c \in P2P, NEW x \in Ends[c], NEW m \in Neighbors(x, c), NEW i \in LspId,
                      node'[x].adj[c][m] = "up",
                      node'[x].db[i] # NONE, node'[x].db[i].age = "live",
                      node'[m].db[i] # NONE => node'[m].db[i].seq < node'[x].db[i].seq
               PROVE  Flagged(node'[x], c, i)
  BY Zenon DEF NoLostUpdate, Flagged
<1>4. x \in Node /\ c \in CircuitsOf(x) /\ m \in Node /\ m # x
  <2>1. c \in Circuit
    BY P2PAssumption, Zenon
  <2>2. x \in Node
    BY <2>1, UpdateAssumption, Zenon
  <2>3. c \in CircuitsOf(x)
    BY <2>1, Zenon DEF CircuitsOf
  <2> QED BY <2>2, <2>3, Opposite, Zenon
<1> DEFINE e == node'[x].db[i]
           theirs == node'[m].db[i]
<1>5. e \in Entry /\ e.seq \in Int /\ (theirs # NONE => theirs.seq \in Int)
  <2>1. node'[x] \in NodeState(x) /\ node'[m] \in NodeState(m)
    BY <1>4, Zenon DEF TypeOK, UpdateTypeOK
  <2>2. e \in Entry
    BY <1>3, <2>1, Zenon DEF NodeState
  <2> QED BY <1>3, <2>1, Held DEF Seqno
<1>6. ~AtLeast(theirs, e.seq)
  BY <1>3, <1>5 DEF AtLeast
<1>7. CASE x # n
  <2>1. node'[x] = node[x]
    BY <1>2, <1>4, <1>7, Zenon
  <2>2. ~AtLeast(node[m].db[i], e.seq)
    BY <1>4, <1>5, <1>6, Zenon DEF Onward
  <2>3. node[m].db[i] # NONE => node[m].db[i].seq < node[x].db[i].seq
    <3>1. node[m] \in NodeState(m)
      BY <1>4, Zenon DEF TypeOK, UpdateTypeOK
    <3>2. node[m].db[i] # NONE => node[m].db[i].seq \in Int
      BY <3>1, Held DEF Seqno
    <3> QED BY <1>5, <2>1, <2>2, <3>2 DEF AtLeast
  <2> QED BY <1>3, <2>1, <2>3, Zenon DEF NoLostUpdate, Flagged
<1>8. CASE x = n
  <2>1. FlowsAt(n, node[n], t, c, i)
    BY <1>1, <1>4, <1>8, Zenon DEF Handles
  <2>2. node'[m] = node[m]
    BY <1>2, <1>4, <1>8, Zenon
  <2>3. t = node'[x]
    BY <1>2, <1>8, Zenon
  <2>4. CASE /\ ~Flagged(node[n], c, i) /\ t.db[i] = node[n].db[i]
             /\ \A o \in Node : t.adj[c][o] = "up" => node[n].adj[c][o] = "up"
    <3>1. node[x].adj[c][m] = "up" /\ node[x].db[i] = node'[x].db[i]
      BY <1>3, <1>4, <1>8, <2>3, <2>4, Zenon
    <3>2. Flagged(node[x], c, i)
      BY <1>3, <2>2, <3>1, Zenon DEF NoLostUpdate, Flagged
    <3> QED BY <1>8, <2>4, <3>2, Zenon
  <2>5. ASSUME NEW f \in Range(net[c][n]), Settles(f, i, t.db[i].seq)
        PROVE  FALSE
    <3>1. (node[n].db[i] # NONE => Follows(node[n].db[i], e)) /\ e # NONE
      BY <1>3, <1>8, Zenon DEF AllAdvance
    <3>2. Settles(f, i, e.seq)
      BY <2>3, <2>5, Zenon
    <3>3. ~Zero(e)
      BY <1>3, Zenon DEF Zero
    <3>4. f.src = m
      <4>1. c \in Circuit
        BY P2PAssumption, Zenon
      <4>2. f.src \in Neighbors(n, c)
        BY <4>1, Zenon DEF FramesTrue, FrameTrue
      <4> QED BY <1>4, <1>8, <4>2, OneNeighbor, Zenon
    <3> HIDE DEF e
    <3>5. AtLeast(node[f.src].db[i], e.seq)
      BY <1>4, <1>5, <1>8, <3>1, <3>2, <3>3, SettledTheirs
    <3>6. theirs = node[m].db[i]
      BY <2>2, Zenon
    <3> HIDE DEF theirs
    <3> QED BY <1>6, <3>4, <3>5, <3>6, Zenon
  <2> QED BY <1>3, <1>8, <2>1, <2>3, <2>4, <2>5, Zenon DEF FlowsAt
<1> QED BY <1>7, <1>8, Zenon

\* The flooding invariant, over one step of a node.
LEMMA FlowStays ==
    ASSUME TypeOK, TypeOK', FlowInv, NEW n \in Node, Steps(n), AllAdvance
    PROVE  FlowInv'
<1>1. Onward
  BY StepsOnward, Zenon
<1>2. NeighborsKnown /\ FramesTrue /\ AcksTrue /\ NoLostUpdate
  BY Zenon DEF FlowInv
<1>3. FramesTrue'
  BY <1>1, <1>2, FramesStay, Zenon
<1>4. NeighborsKnown' /\ AcksTrue'
  BY <1>1, <1>2, AcksStay, Zenon
<1>5. NoLostUpdate'
  BY <1>1, <1>2, UpdatesStay, Zenon
<1> QED BY <1>3, <1>4, <1>5, Zenon DEF FlowInv

----------------------------------------------------------------------------
(* Copies of an LSP *)

Newest(i) == node[Owner[i]].db[i]

\* The originator holds the highest version and live copies of a version are alike.
AgreeOn(i) ==
    /\ Newest(i) # NONE
    /\ \A h \in CopiesOf(i) :
           /\ h.seq <= Newest(i).seq
           /\ \A g \in CopiesOf(i) : g.seq = h.seq /\ ~g.zero /\ ~h.zero => g.body = h.body

AgreeInv == \A i \in LspId : Owner[i] # NONE => AgreeOn(i)

\* A copy after a step of n: there before, a purge of a version there before, or a
\* version the originator just made, higher than its last.
CopyFrom(n, i, h) ==
    \/ h \in CopiesOf(i)
    \/ h.zero /\ \E g \in CopiesOf(i) : g.seq = h.seq
    \/ Owner[i] = n /\ h = wire(node'[n].db[i]) /\ h.seq > Newest(i).seq

\* Where copies are.
LEMMA Copies ==
    ASSUME NEW i \in LspId
    PROVE  /\ \A n \in Node : node[n].db[i] # NONE => wire(node[n].db[i]) \in CopiesOf(i)
           /\ \A c \in Circuit, m \in Node : \A f \in Range(net[c][m]) :
                  f.kind = "lsp" /\ f.id = i => f.hdr \in CopiesOf(i)
           /\ \A h \in CopiesOf(i) :
                  \/ \E n \in Node : node[n].db[i] # NONE /\ h = wire(node[n].db[i])
                  \/ \E c \in Circuit, m \in Node : \E f \in Range(net[c][m]) :
                         f.kind = "lsp" /\ f.id = i /\ h = f.hdr
<1>1. \A n \in Node : node[n].db[i] # NONE => wire(node[n].db[i]) \in CopiesOf(i)
  BY DEF CopiesOf
<1>2. ASSUME NEW c \in Circuit, NEW m \in Node, NEW f \in Range(net[c][m]), f.kind = "lsp", f.id = i
      PROVE  f.hdr \in CopiesOf(i)
  <2> DEFINE On(d, x) == {g.hdr : g \in {k \in Range(net[d][x]) : k.kind = "lsp" /\ k.id = i}}
  <2>1. f.hdr \in On(c, m)
    BY <1>2, Zenon
  <2>2. UNION {On(d, x) : d \in Circuit, x \in Node} \subseteq CopiesOf(i)
    BY DEF CopiesOf
  <2> HIDE DEF On
  <2>3. On(c, m) \in {On(d, x) : d \in Circuit, x \in Node}
    OBVIOUS
  <2> QED BY <2>1, <2>2, <2>3
<1>3. ASSUME NEW h \in CopiesOf(i)
      PROVE  \/ \E n \in Node : node[n].db[i] # NONE /\ h = wire(node[n].db[i])
             \/ \E c \in Circuit, m \in Node : \E f \in Range(net[c][m]) :
                    f.kind = "lsp" /\ f.id = i /\ h = f.hdr
  BY DEF CopiesOf
<1> QED BY <1>1, <1>2, <1>3, Zenon

\* Where they are after a step.
LEMMA CopiesAfter ==
    ASSUME NEW i \in LspId, NEW h \in CopiesOf(i)'
    PROVE  \/ \E n \in Node : node'[n].db[i] # NONE /\ h = wire(node'[n].db[i])
           \/ \E c \in Circuit, m \in Node : \E f \in Range(net'[c][m]) :
                  f.kind = "lsp" /\ f.id = i /\ h = f.hdr
BY DEF CopiesOf

\* Every copy after a step is one of these.
LEMMA CopiesCome ==
    ASSUME TypeOK, TypeOK', NEW n \in Node, Steps(n),
           NEW i \in LspId, Owner[i] # NONE, AgreeOn(i), NEW h \in CopiesOf(i)'
    PROVE  CopyFrom(n, i, h)
<1>1. PICK t : Handles(n, node[n], t) /\ node' = [node EXCEPT ![n] = t] /\ Says(n, node[n], t)
  BY Zenon DEF Steps
<1>2. node'[n] = t /\ \A m \in Node \ {n} : node'[m] = node[m]
  <2>1. node = [m \in Node |-> node[m]]
    BY Zenon DEF TypeOK, UpdateTypeOK
  <2> QED BY <1>1, <2>1, Zenon
<1>3. ASSUME NEW m \in Node, node'[m].db[i] # NONE
      PROVE  CopyFrom(n, i, wire(node'[m].db[i]))
  <2>1. CASE m # n
    BY <1>2, <1>3, <2>1, Copies, Zenon DEF CopyFrom
  <2>2. CASE m = n
    <3> DEFINE d == node[n].db[i]
               e == node'[n].db[i]
    <3>1. WroteAt(n, i, d, e)
      BY <1>1, <1>2, Zenon DEF Handles
    <3>2. wire(e).seq = e.seq /\ wire(d).seq = d.seq /\ (Zero(e) => wire(e).zero)
      BY Zenon DEF wire, Zero
    <3>3. d # NONE => wire(d) \in CopiesOf(i)
      BY Copies, Zenon
    <3>4. Owner[i] = n => d = Newest(i) /\ d # NONE
      BY Zenon DEF AgreeOn, Newest
    <3>5. \A c \in CircuitsOf(n) : \A f \in Range(net[c][n]) :
              f.kind = "lsp" /\ f.id = i => f.hdr \in CopiesOf(i)
      BY Copies, Zenon DEF CircuitsOf
    <3>6. e # NONE
      BY <1>3, <2>2, Zenon
    <3>7. Owner[i] = n => wire(e) = wire(node'[n].db[i])
      BY Zenon
    <3> HIDE DEF d, e
    <3>8. CopyFrom(n, i, wire(e))
      <4>1. CASE e = d
        BY <3>3, <3>6, <4>1, Zenon DEF CopyFrom
      <4>2. CASE d # NONE /\ e.seq = d.seq /\ Zero(e)
        BY <3>2, <3>3, <4>2, Zenon DEF CopyFrom
      <4>3. CASE Owner[i] = n /\ (d # NONE => e.seq > d.seq)
        <5>1. wire(e).seq > Newest(i).seq
          BY <3>2, <3>4, <4>3
        <5> QED BY <3>7, <4>3, <5>1, Zenon DEF CopyFrom
      <4>4. CASE \E c \in CircuitsOf(n) : \E f \in Range(net[c][n]) :
                    f.kind = "lsp" /\ f.id = i /\ f.hdr = wire(e)
        BY <3>5, <4>4, Zenon DEF CopyFrom
      <4> QED BY <3>1, <4>1, <4>2, <4>3, <4>4, Zenon DEF WroteAt
    <3> QED BY <2>2, <3>8, Zenon DEF e
  <2> QED BY <2>1, <2>2, Zenon
<1>4. ASSUME NEW c \in Circuit, NEW m \in Node, NEW f \in Range(net'[c][m]), f.kind = "lsp", f.id = i
      PROVE  CopyFrom(n, i, f.hdr)
  <2>1. CASE f \in Range(net[c][m])
    BY <1>4, <2>1, Copies, Zenon DEF CopyFrom
  <2>2. CASE Speaks(n, node[n], t, c, f)
    <3>1. node'[n].db[i] # NONE /\ f.hdr = wire(node'[n].db[i])
      BY <1>2, <1>4, <2>2, Zenon DEF Speaks
    <3>2. CopyFrom(n, i, wire(node'[n].db[i]))
      BY <1>3, <3>1, Zenon
    <3> QED BY <3>1, <3>2, Zenon
  <2> QED BY <1>1, <2>1, <2>2, Zenon DEF Says
<1>5. CASE \E m \in Node : node'[m].db[i] # NONE /\ h = wire(node'[m].db[i])
  BY <1>3, <1>5, Zenon
<1>6. CASE \E c \in Circuit, m \in Node : \E f \in Range(net'[c][m]) :
               f.kind = "lsp" /\ f.id = i /\ h = f.hdr
  BY <1>4, <1>6
<1> QED BY <1>5, <1>6, CopiesAfter

\* Sequence numbers of copies are integers.
LEMMA CopySeqs ==
    ASSUME TypeOK, NEW i \in LspId, NEW h \in CopiesOf(i)
    PROVE  h.seq \in Int
<1>1. \A g \in Header : g.seq \in Int
  BY UpdateAssumption DEF Header
<1>2. ASSUME NEW n \in Node, node[n].db[i] # NONE, h = wire(node[n].db[i])
      PROVE  h.seq \in Int
  <2>1. node[n] \in NodeState(n)
    BY Zenon DEF TypeOK, UpdateTypeOK
  <2>2. node[n].db[i].seq \in Int
    BY <1>2, <2>1, Held DEF Seqno
  <2> QED BY <1>2, <2>2, Zenon DEF wire
<1>3. ASSUME NEW c \in Circuit, NEW m \in Node, NEW f \in Range(net[c][m]), f.kind = "lsp", h = f.hdr
      PROVE  h.seq \in Int
  BY <1>1, <1>3, FrameParts, Zenon
<1> QED BY <1>2, <1>3, Copies

\* Agreement, over one step of a node.
LEMMA AgreeStays ==
    ASSUME TypeOK, TypeOK', AgreeInv, NEW n \in Node, Steps(n), AllAdvance
    PROVE  AgreeInv'
<1>1. Onward
  BY StepsOnward, Zenon
<1>2. SUFFICES ASSUME NEW i \in LspId, Owner[i] # NONE
               PROVE  AgreeOn(i)'
  BY Zenon DEF AgreeInv
<1>3. AgreeOn(i)
  BY <1>2, Zenon DEF AgreeInv
<1>4. Owner[i] \in Node
  BY <1>2, UpdateAssumption, Zenon
<1> DEFINE old == Newest(i)
           new == node'[Owner[i]].db[i]
<1>5. old # NONE /\ old.seq \in Int
  <2>1. node[Owner[i]] \in NodeState(Owner[i])
    BY <1>4, Zenon DEF TypeOK, UpdateTypeOK
  <2>2. old # NONE
    BY <1>3, Zenon DEF AgreeOn
  <2> QED BY <2>1, <2>2, Held DEF Seqno, Newest
<1>6. \A q \in Int : AtLeast(old, q) => AtLeast(new, q)
  BY <1>1, <1>4, Zenon DEF Onward, Newest
<1>7. \A h \in CopiesOf(i) : h.seq \in Int /\ AtLeast(old, h.seq)
  <2>1. \A h \in CopiesOf(i) : h.seq \in Int /\ h.seq <= old.seq
    BY <1>3, CopySeqs, Zenon DEF AgreeOn
  <2> HIDE DEF old
  <2> QED BY <1>5, <2>1 DEF AtLeast
<1>8. \A h \in CopiesOf(i)' : CopyFrom(n, i, h)
  BY <1>2, <1>3, CopiesCome, Zenon
<1>9. new # NONE /\ new.seq \in Int
  <2>1. AtLeast(old, old.seq)
    <3> HIDE DEF old
    <3> QED BY <1>5 DEF AtLeast
  <2>2. new # NONE
    BY <1>5, <1>6, <2>1, Zenon DEF AtLeast
  <2>3. node'[Owner[i]] \in NodeState(Owner[i])
    BY <1>4, Zenon DEF TypeOK, UpdateTypeOK
  <2> QED BY <2>2, <2>3, Held DEF Seqno
<1>10. \A h : CopyFrom(n, i, h) =>
           \/ h \in CopiesOf(i)
           \/ h.zero /\ \E g \in CopiesOf(i) : g.seq = h.seq
           \/ h = wire(new) /\ h.seq > old.seq
  BY Zenon DEF CopyFrom
<1>11. wire(new).seq = new.seq
  BY Zenon DEF wire
<1>12. \A g, h \in CopiesOf(i) : g.seq = h.seq /\ ~g.zero /\ ~h.zero => g.body = h.body
  BY <1>3, Zenon DEF AgreeOn
<1> HIDE DEF old, new
<1>13. ASSUME NEW h \in CopiesOf(i)'
       PROVE  h.seq <= new.seq
  <2>1. ASSUME NEW g \in CopiesOf(i), g.seq = h.seq
        PROVE  h.seq <= new.seq
    <3>1. AtLeast(new, g.seq) /\ g.seq \in Int
      BY <1>6, <1>7, Zenon
    <3> QED BY <1>9, <2>1, <3>1 DEF AtLeast
  <2>2. CASE h = wire(new)
    BY <1>9, <1>11, <2>2
  <2> QED BY <1>8, <1>10, <2>1, <2>2, Zenon
<1>14. ASSUME NEW g \in CopiesOf(i)', NEW h \in CopiesOf(i)', g.seq = h.seq, ~g.zero, ~h.zero
       PROVE  g.body = h.body
  <2>1. /\ g \in CopiesOf(i) \/ (g = wire(new) /\ g.seq > old.seq)
        /\ h \in CopiesOf(i) \/ (h = wire(new) /\ h.seq > old.seq)
    BY <1>8, <1>10, <1>14, Zenon
  <2>2. \A f \in CopiesOf(i) : ~(f.seq > old.seq)
    BY <1>5, <1>7 DEF AtLeast
  <2> QED BY <1>12, <1>14, <2>1, <2>2, Zenon
<1>15. new = Newest(i)'
  BY Zenon DEF new, Newest
<1> QED BY <1>9, <1>13, <1>14, <1>15, Zenon DEF AgreeOn

----------------------------------------------------------------------------
(* The steps while no node restarted and no purge was dropped *)

Within == left["crash"] <= Budget["crash"] /\ left["gone"] <= Budget["gone"]

\* What a fault takes from the budget.
LEMMA Spends ==
    ASSUME TypeOK, NEW k \in FaultKind \ {"any"}, Spend(k)
    PROVE  /\ left'[k] = left[k] - 1
           /\ \A j \in FaultKind \ {k, "any"} : left'[j] = left[j]
<1>1. left \in [FaultKind -> Nat]
  BY Zenon DEF TypeOK, UpdateTypeOK
<1>2. left' = [left EXCEPT ![k] = left[k] - 1, !["any"] = left["any"] - 1]
  BY Zenon DEF Spend, FaultKind
<1> QED BY <1>1, <1>2, Zenon

\* Every step leaves the budget alone or takes one fault from it.
LEMMA NextLeft ==
    ASSUME Next
    PROVE  /\ UNCHANGED left \/ \E k \in FaultKind \ {"any"} : Spend(k)
           /\ \A n \in Node : TickRemoving(n) => Spend("gone")
           /\ \A n \in Node, b \in Body : Crash(n, b) => Spend("crash")
<1>1. PICK n \in Node :
        \/ \E c \in Circuit : Receive(n, c) \/ SendHello(n, c) \/ Lose(n, c)
        \/ \E c \in Circuit, m \in Node : TearDown(n, c, m)
        \/ \E c \in Circuit : HoldDownEnds(n, c) /\ UNCHANGED left
        \/ \E i \in LspId, b \in Body : NewVersion(n, i, b)
        \/ \E i \in LspId, b \in Body, q \in Seqno : FromOutside(n, i, q, b)
        \/ \E i \in LspId : PurgeStale(n, i) /\ Spend("stale")
        \/ \E i \in LspId, b \in Body : ReleaseWrap(n, i, b) /\ UNCHANGED left
        \/ \E i \in LspId : LifetimeEnds(n, i) /\ Spend("life")
        \/ Tick(n) \/ TickRemoving(n) \/ TickFailing(n)
        \/ \E b \in Body : Crash(n, b)
  BY Zenon DEF Next
<1>2. \A c \in Circuit : Receive(n, c) \/ SendHello(n, c) => UNCHANGED left
  BY Zenon DEF Receive, ReceiveHello, ReceiveUpdate, SendHello
<1>3. \A c \in Circuit : Lose(n, c) => Spend("loss")
  BY Zenon DEF Lose
<1>4. \A c \in Circuit, m \in Node : TearDown(n, c, m) => Spend("flap")
  BY Zenon DEF TearDown
<1>5. \A i \in LspId, b \in Body : NewVersion(n, i, b) => UNCHANGED left
  BY Zenon DEF NewVersion
<1>6. \A i \in LspId, b \in Body, q \in Seqno : FromOutside(n, i, q, b) => UNCHANGED left
  BY Zenon DEF FromOutside
<1>7. /\ Tick(n) => UNCHANGED left
      /\ TickFailing(n) => Spend("loss")
      /\ \A m \in Node : TickRemoving(m) => Spend("gone")
  BY Zenon DEF Tick, TickFailing, TickRemoving
<1>8. \A m \in Node, b \in Body : Crash(m, b) => Spend("crash")
  BY Zenon DEF Crash, CrashWith
<1>9. {"loss", "crash", "flap", "life", "gone", "stale"} \subseteq FaultKind \ {"any"}
  BY DEF FaultKind
<1>10. UNCHANGED left \/ Spend("loss") \/ Spend("crash") \/ Spend("flap") \/ Spend("life")
       \/ Spend("gone") \/ Spend("stale")
  BY <1>1, <1>2, <1>3, <1>4, <1>5, <1>6, <1>7, <1>8, Zenon
<1> QED BY <1>7, <1>8, <1>9, <1>10, Zenon

\* Crashes and dropped purges are never given back, and such a step is not quiet.
LEMMA QuietStays ==
    ASSUME TypeOK, Within, [Next]_vars
    PROVE  /\ Within' /\ (Quiet' => Quiet)
           /\ Quiet' /\ Next => \A n \in Node : ~TickRemoving(n) /\ \A b \in Body : ~Crash(n, b)
<1>0. left["crash"] \in Nat /\ left["gone"] \in Nat /\ Budget["crash"] \in Nat /\ Budget["gone"] \in Nat
  BY UpdateAssumption DEF TypeOK, UpdateTypeOK, FaultKind
<1>1. \A k \in FaultKind \ {"any"} : Spend(k) =>
          /\ left'[k] = left[k] - 1
          /\ \A j \in FaultKind \ {k, "any"} : left'[j] = left[j]
  BY Spends, Zenon
<1>2. {"crash", "gone"} \subseteq FaultKind \ {"any"}
  BY DEF FaultKind
<1>3. \A k \in FaultKind \ {"any"}, j \in {"crash", "gone"} :
          Spend(k) => left'[j] = left[j] \/ left'[j] = left[j] - 1
  BY <1>1, <1>2, Zenon
<1>4. UNCHANGED left \/ \E k \in FaultKind \ {"any"} : Spend(k)
  BY NextLeft, Zenon DEF vars
<1>5. \A j \in {"crash", "gone"} : left'[j] = left[j] \/ left'[j] = left[j] - 1
  BY <1>3, <1>4, Zenon
<1>6. /\ left'["crash"] = left["crash"] \/ left'["crash"] = left["crash"] - 1
      /\ left'["gone"] = left["gone"] \/ left'["gone"] = left["gone"] - 1
  BY <1>5, Zenon
<1>7. Within' /\ (Quiet' => Quiet)
  BY <1>0, <1>6 DEF Within, Quiet
<1>8. Quiet' => left'["crash"] # left["crash"] - 1 /\ left'["gone"] # left["gone"] - 1
  BY <1>0 DEF Within, Quiet
<1>9. ASSUME Quiet', Next, NEW n \in Node
      PROVE  ~TickRemoving(n) /\ \A b \in Body : ~Crash(n, b)
  <2>1. ~Spend("gone") /\ ~Spend("crash")
    BY <1>1, <1>2, <1>8, <1>9, Zenon
  <2> QED BY <1>9, <2>1, NextLeft, Zenon
<1> QED BY <1>7, <1>9, Zenon

\* Every other step is a handler's.
LEMMA NextSteps ==
    ASSUME TypeOK, OwnLSPs, NeighborsKnown, Next,
           \A n \in Node : ~TickRemoving(n) /\ \A b \in Body : ~Crash(n, b)
    PROVE  \E n \in Node : Steps(n)
<1>1. PICK n \in Node :
        \/ \E c \in Circuit : Receive(n, c) \/ SendHello(n, c) \/ Lose(n, c)
        \/ \E c \in Circuit, m \in Node : TearDown(n, c, m)
        \/ \E c \in Circuit : HoldDownEnds(n, c) /\ UNCHANGED left
        \/ \E i \in LspId, b \in Body : NewVersion(n, i, b)
        \/ \E i \in LspId, b \in Body, q \in Seqno : FromOutside(n, i, q, b)
        \/ \E i \in LspId : PurgeStale(n, i) /\ Spend("stale")
        \/ \E i \in LspId, b \in Body : ReleaseWrap(n, i, b) /\ UNCHANGED left
        \/ \E i \in LspId : LifetimeEnds(n, i) /\ Spend("life")
        \/ Tick(n) \/ TickFailing(n)
  BY Zenon DEF Next
<1>2. PICK b \in Body : TRUE
  BY UpdateAssumption, Zenon
<1>3. 1 \in Seqno
  BY UpdateAssumption DEF Seqno
<1>4. \A c \in Circuit : Receive(n, c) \/ SendHello(n, c) \/ Lose(n, c) \/ HoldDownEnds(n, c) => Steps(n)
  BY ReceiveSteps, HelloSteps, PlainSteps, Zenon DEF Receive
<1>5. \A c \in Circuit, m \in Node : TearDown(n, c, m) => Steps(n)
  BY TearDownSteps, Zenon
<1>6. \A i \in LspId, d \in Body : NewVersion(n, i, d) \/ ReleaseWrap(n, i, d) => Steps(n)
  BY <1>3, OwnSteps, Zenon DEF NewVersion
<1>7. \A i \in LspId : PurgeStale(n, i) \/ LifetimeEnds(n, i) => Steps(n)
  BY <1>2, <1>3, OwnSteps, Zenon
<1>8. \A i \in LspId, d \in Body, q \in Seqno : FromOutside(n, i, q, d) => Steps(n)
  BY OwnSteps, Zenon
<1>9. Tick(n) \/ TickFailing(n) => Steps(n)
  <2>1. Tick(n) \/ TickFailing(n) => \E pick : Housekeeping(n, {}, pick)
    BY Zenon DEF Tick, TickFailing
  <2> QED BY <2>1, HousekeepingSteps, Zenon
<1> QED BY <1>1, <1>4, <1>5, <1>6, <1>7, <1>8, <1>9, Zenon

\* The start: everybody is down, the wire carries hellos, and only the originator
\* has an LSP.
LEMMA InitFlow ==
    ASSUME Init
    PROVE  Within /\ FlowInv /\ AgreeInv
<1> DEFINE hello == [n \in Node |-> helloFrame(n, FALSE)]
<1>1. /\ \A n \in Node : \E b \in Body : node[n] = Started(n, b)
      /\ left = Budget
      /\ net = [c \in Circuit |-> [m \in Node |->
                   IF m \in Ends[c] THEN Listing({hello[n] : n \in Neighbors(m, c)})
                   ELSE <<>>]]
  BY Zenon DEF Init, InitWith
<1>2. Within
  BY <1>1, UpdateAssumption DEF Within, FaultKind
<1>3. ASSUME NEW c \in Circuit, NEW r \in Node, NEW f \in Range(net[c][r])
      PROVE  r \in Ends[c] /\ f.src \in Neighbors(r, c) /\ f.kind = "hello"
  <2> DEFINE S == {hello[n] : n \in Neighbors(r, c)}
  <2>1. net[c][r] = IF r \in Ends[c] THEN Listing(S) ELSE <<>>
    BY <1>1, Zenon
  <2>2. r \in Ends[c]
    <3>1. Range(<<>>) = {}
      BY DEF Range
    <3> QED BY <2>1, <3>1, Zenon
  <2>3. Neighbors(r, c) \subseteq Node
    BY UpdateAssumption, Zenon DEF Neighbors
  <2>4. IsFiniteSet(S)
    <3>1. IsFiniteSet(Neighbors(r, c))
      BY <2>3, UpdateAssumption, FS_Subset, Zenon
    <3>2. [n \in Neighbors(r, c) |-> hello[n]] \in Surjection(Neighbors(r, c), S)
      BY Zenon DEF Surjection
    <3> QED BY <3>1, <3>2, FS_Surjection, Zenon
  <2>5. Listing(S) \in Seq(S)
    <3> HIDE DEF S
    <3> QED BY <2>4, ListSet, Zenon
  <2>6. f \in S
    <3> HIDE DEF S
    <3>1. net[c][r] = Listing(S)
      BY <2>1, <2>2, Zenon
    <3> QED BY <2>5, <3>1 DEF Range
  <2>7. PICK n \in Neighbors(r, c) : f = helloFrame(n, FALSE)
    BY <2>3, <2>6, Zenon
  <2> QED BY <2>2, <2>7, Zenon DEF helloFrame
<1>4. ASSUME NEW n \in Node, NEW c \in CircuitsOf(n)
      PROVE  /\ \A m \in Node : node[n].adj[c][m] = "down"
             /\ \A i \in LspId : node[n].ack[c][i] = NONE
  <2>1. PICK b \in Body : node[n] = Started(n, b)
    BY <1>1, Zenon
  <2>2. /\ Started(n, b).ack = [d \in CircuitsOf(n) |-> [i \in LspId |-> NONE]]
        /\ Started(n, b).adj = [d \in CircuitsOf(n) |-> [m \in Node |-> "down"]]
    BY StartedWith, Zenon
  <2> QED BY <2>1, <2>2
<1>5. FramesTrue
  BY <1>3 DEF FramesTrue, FrameTrue
<1>6. NeighborsKnown /\ AcksTrue
  BY <1>4, Zenon DEF NeighborsKnown, AcksTrue
<1>7. NoLostUpdate
  <2>1. ASSUME NEW c \in P2P, NEW n \in Ends[c], NEW m \in Neighbors(n, c)
        PROVE  node[n].adj[c][m] # "up"
    <3>1. c \in Circuit
      BY P2PAssumption, Zenon
    <3>2. n \in Node /\ c \in CircuitsOf(n)
      BY <3>1, UpdateAssumption, Zenon DEF CircuitsOf
    <3>3. m \in Node
      BY <3>2, Opposite, Zenon
    <3>4. node[n].adj[c][m] = "down"
      BY <1>4, <3>2, <3>3, Zenon
    <3> QED BY <3>4
  <2> QED BY <2>1, Zenon DEF NoLostUpdate
<1>8. ASSUME NEW i \in LspId, Owner[i] # NONE
      PROVE  AgreeOn(i)
  <2>1. Pseudonode[i] = NONE /\ Owner[i] \in Node
    BY <1>8, UpdateAssumption, P2PAssumption
  <2>2. \A n \in Node : \E b \in Body : node[n].db[i] = IF Owner[i] = n THEN live(1, b) ELSE NONE
    <3> SUFFICES ASSUME NEW n \in Node
                 PROVE  \E b \in Body : node[n].db[i] = IF Owner[i] = n THEN live(1, b) ELSE NONE
      OBVIOUS
    <3>1. PICK b \in Body : node[n] = Started(n, b)
      BY <1>1, Zenon
    <3>2. Started(n, b).db[i] = IF Owner[i] = n THEN live(1, b) ELSE NONE
      BY <2>1, StartedHolds, Zenon
    <3>3. node[n].db[i] = IF Owner[i] = n THEN live(1, b) ELSE NONE
      BY <2>1, <3>1, <3>2
    <3> QED BY <3>3, Zenon
  <2>3. Newest(i) # NONE /\ Newest(i).seq = 1
    <3>1. PICK b \in Body : Newest(i) = live(1, b)
      BY <2>1, <2>2, Zenon DEF Newest
    <3>2. live(1, b) \in Entry /\ live(1, b).seq = 1
      BY UpdateAssumption DEF live, Entry, Seqno
    <3> QED BY <3>1, <3>2, NilAssumption, Zenon
  <2>4. ASSUME NEW h \in CopiesOf(i)
        PROVE  h = wire(Newest(i))
    <3>1. \A c \in Circuit, m \in Node : \A f \in Range(net[c][m]) : f.kind # "lsp"
      BY <1>3
    <3>2. PICK n \in Node : node[n].db[i] # NONE /\ h = wire(node[n].db[i])
      BY <3>1, Copies
    <3>3. n = Owner[i]
      BY <2>2, <3>2, Zenon
    <3> QED BY <3>2, <3>3, Zenon DEF Newest
  <2>5. wire(Newest(i)).seq = 1
    BY <2>3, Zenon DEF wire
  <2>6. \A h \in CopiesOf(i) : h.seq <= Newest(i).seq
    BY <2>3, <2>4, <2>5
  <2> QED BY <2>3, <2>4, <2>6, Zenon DEF AgreeOn
<1>9. AgreeInv
  BY <1>8, Zenon DEF AgreeInv
<1> QED BY <1>2, <1>5, <1>6, <1>7, <1>9, Zenon DEF FlowInv

\* The inductive invariant of the flooding.
QuietInv == Within /\ (Quiet => FlowInv /\ AgreeInv)

\* One step of the system.
LEMMA QuietKept ==
    ASSUME TypeOK, TypeOK', OwnLSPs, QuietInv, [Next]_vars
    PROVE  QuietInv'
<1>1. Within' /\ (Quiet' => Quiet)
  BY QuietStays, Zenon DEF QuietInv
<1>2. CASE UNCHANGED vars
  <2>1. UNCHANGED <<node, net, left>>
    BY <1>2, Zenon DEF vars
  <2>2. Quiet' <=> Quiet
    BY <2>1, Zenon DEF Quiet
  <2>3. FlowInv => NeighborsKnown' /\ AcksTrue' /\ NoLostUpdate'
    <3>1. NeighborsKnown => NeighborsKnown'
      BY <2>1, Zenon DEF NeighborsKnown
    <3>2. AcksTrue => AcksTrue'
      BY <2>1, Zenon DEF AcksTrue
    <3>3. NoLostUpdate => NoLostUpdate'
      BY <2>1 DEF NoLostUpdate
    <3> QED BY <3>1, <3>2, <3>3, Zenon DEF FlowInv
  <2>4. FlowInv => FramesTrue'
    BY <2>1, Zenon DEF FlowInv, FramesTrue, FrameTrue
  <2>5. AgreeInv => AgreeInv'
    <3>1. \A i \in LspId : CopiesOf(i)' = CopiesOf(i) /\ Newest(i)' = Newest(i)
      BY <2>1 DEF CopiesOf, Newest
    <3> QED BY <3>1, Zenon DEF AgreeInv, AgreeOn
  <2> QED BY <1>1, <2>2, <2>3, <2>4, <2>5, Zenon DEF QuietInv, FlowInv
<1>3. ASSUME Next, Quiet'
      PROVE  FlowInv' /\ AgreeInv'
  <2>1. FlowInv /\ AgreeInv /\ NeighborsKnown /\ Within
    BY <1>1, <1>3, Zenon DEF QuietInv, FlowInv
  <2>2. \A n \in Node : ~TickRemoving(n) /\ \A b \in Body : ~Crash(n, b)
    BY <1>3, <2>1, QuietStays, Zenon
  <2>3. PICK n \in Node : Steps(n)
    BY <1>3, <2>1, <2>2, NextSteps, Zenon
  <2>4. AllAdvance
    <3>1. left'["crash"] = left["crash"]
      BY <1>1, <1>3, Zenon DEF Quiet
    <3> QED BY <3>1, NextKeeps, Zenon
  <2> QED BY <2>1, <2>3, <2>4, FlowStays, AgreeStays, Zenon
<1> QED BY <1>1, <1>2, <1>3, Zenon DEF QuietInv

\* The invariant holds throughout.
LEMMA QuietInductive == Spec => []QuietInv
<1>1. Init => QuietInv
  BY InitFlow, Zenon DEF QuietInv
<1>2. TypeOK /\ TypeOK' /\ OwnLSPs /\ QuietInv /\ [Next]_vars => QuietInv'
  BY QuietKept, Zenon
<1> QED BY <1>1, <1>2, Inductive, PTL DEF Spec

\* In every point-to-point network, while no node restarted and no purge was
\* dropped, the originator of an LSP holds its highest version and live copies with
\* one sequence number have one content: what VersionsAgree says of reoriginateOwn,
\* purgeOwn, originate and expirePurge.
THEOREM Agreement == Spec => []VersionsAgree
<1>1. QuietInv => VersionsAgree
  BY Zenon DEF QuietInv, Quiet, VersionsAgree, AgreeInv, AgreeOn, Newest
<1> QED BY <1>1, QuietInductive, PTL

\* In every point-to-point network, while no node restarted and no purge was
\* dropped, transmitSRM, processPSNP, processCSNP and teardownP2PAdj never drop the
\* last reason to send an LSP the other end of an Up adjacency lacks.
THEOREM Delivery == Spec => [](Quiet => NoLostUpdate)
<1>1. QuietInv => (Quiet => NoLostUpdate)
  BY Zenon DEF QuietInv, FlowInv
<1> QED BY <1>1, QuietInductive, PTL

============================================================================
