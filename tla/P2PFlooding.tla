---------------------------- MODULE P2PFlooding ----------------------------
(***************************************************************************)
(* The update process over point-to-point circuits together with the       *)
(* three-way handshake that brings their adjacencies up and down           *)
(* (processP2PHello, teardownP2PAdj in pkg/server/hello.go).  Hellos share  *)
(* the wire with LSPs and SNPs, so a frame sent under one adjacency can be *)
(* read under the next.  Frames may be lost, nodes may crash and restart   *)
(* with empty databases, adjacencies may expire on one side only.          *)
(*                                                                         *)
(* Hellos carry one fact here, whether their sender echoes the receiver:   *)
(* both ends run this code, stay in one area and keep their circuit IDs.   *)
(***************************************************************************)
EXTENDS UpdateProcess

\* Every circuit is point-to-point and joins two routers.
ASSUME P2PAssumption ==
    P2P = Circuit /\ \A c \in Circuit : \E n, m \in Node : Ends[c] = {n, m}

----------------------------------------------------------------------------
(* The handshake *)

helloFrame(n, echo) == [kind |-> "hello", src |-> n, echo |-> echo]

Init == InitWith([n \in Node |-> helloFrame(n, FALSE)])

Crash(n, b) == CrashWith(n, b, helloFrame(n, FALSE))

\* buildP2PHello echoes the neighbor as soon as one is known.
echoes(s, c) == \E m \in Node : s.adj[c][m] # "down"

\* The periodic hello; at most one per direction is in flight (a bound).
SendHello(n, c) ==
    /\ c \in CircuitsOf(n)
    /\ \A m \in Neighbors(n, c) : InFlight(net[c][m]) = net[c][m]
    /\ net' = Sent(n, net, Only(n, c, <<helloFrame(n, echoes(node[n], c))>>))
    /\ UNCHANGED <<node, left>>

\* Mutant: a synchronization asked for inside the hold-down is dropped.
synced_dropping(s, c) ==
    IF s.hold[c] THEN s
    ELSE [s EXCEPT !.srm[c] = flagAll(s, @), !.hold[c] = TRUE, !.defer[c] = FALSE]

\* syncCircuitLevel: defer inside the hold-down, else flag the whole database.
synced(s, c) ==
    IF s.hold[c] THEN [s EXCEPT !.defer[c] = TRUE]
    ELSE [s EXCEPT !.srm[c] = flagAll(s, @), !.hold[c] = TRUE, !.defer[c] = FALSE]

\* processP2PHello. A change of state is answered by a hello; a transition to
\* Up also synchronizes the database, with a CSNP unless it is held down.
ReceiveHello(n, c) ==
    LET f == Head(net[c][n])
        s == node[n]
        new == IF f.echo THEN "up" ELSE "init"
        changed == s.adj[c][f.src] # new
        t == [s EXCEPT !.adj[c][f.src] = new]
        hello == IF changed THEN <<helloFrame(n, TRUE)>> ELSE <<>>
        csnp == IF changed /\ new = "up" /\ ~s.hold[c] THEN <<sendCSNP(n, t)>> ELSE <<>>
    IN  /\ Pending(n, c) /\ f.kind = "hello"
        /\ node' = [node EXCEPT ![n] = IF changed /\ new = "up" THEN synced(t, c) ELSE t]
        /\ net' = Sent(n, [net EXCEPT ![c][n] = Tail(@)], Only(n, c, hello \o csnp))
        /\ UNCHANGED left

\* expireAdjacencies and ClearAdjacency: teardownP2PAdj.
TearDown(n, c, m) ==
    /\ Spend("flap")
    /\ c \in CircuitsOf(n) /\ node[n].adj[c][m] # "down"
    /\ node' = [node EXCEPT ![n] = clearFlags([@ EXCEPT !.adj[c][m] = "down"], c)]
    /\ UNCHANGED net

----------------------------------------------------------------------------
(* The next-state relation *)

Receive(n, c) == ReceiveHello(n, c) \/ ReceiveUpdate(n, c)

Next ==
    \E n \in Node :
        \/ \E c \in Circuit : Receive(n, c) \/ SendHello(n, c) \/ Lose(n, c)
        \/ \E c \in Circuit, m \in Node : TearDown(n, c, m)
        \/ \E c \in Circuit : HoldDownEnds(n, c) /\ UNCHANGED left
        \/ \E i \in LspId, b \in Body : NewVersion(n, i, b)
        \/ \E i \in LspId, b \in Body, q \in Seqno : FromOutside(n, i, q, b)
        \/ \E i \in LspId : PurgeStale(n, i) /\ Spend("stale")
        \/ \E i \in LspId, b \in Body : ReleaseWrap(n, i, b) /\ UNCHANGED left
        \/ \E i \in LspId : LifetimeEnds(n, i) /\ Spend("life")
        \/ Tick(n) \/ TickRemoving(n) \/ TickFailing(n)
        \/ \E b \in Body : Crash(n, b)

Spec == Init /\ [][Next]_vars

\* The reader goroutines and the Serve loop keep running, hellos are periodic,
\* the tick recurs every second and the hold-down is a timer.
Fairness ==
    \A n \in Node :
        /\ WF_vars(FullTick(n))
        /\ \A c \in Circuit : /\ WF_vars(Receive(n, c))
                              /\ WF_vars(SendHello(n, c))
                              /\ WF_vars(HoldDownEnds(n, c) /\ UNCHANGED left)

FairSpec == Spec /\ Fairness

----------------------------------------------------------------------------
(* Properties *)

TypeOK == UpdateTypeOK([kind : {"hello"}, src : Node, echo : BOOLEAN])

\* The copies of LSP i in databases and in LSP frames under way.
CopiesOf(i) ==
    {wire(node[n].db[i]) : n \in {m \in Node : node[m].db[i] # NONE}}
    \cup UNION {{f.hdr : f \in {g \in Range(net[c][m]) : g.kind = "lsp" /\ g.id = i}} :
                   c \in Circuit, m \in Node}

\* As long as no node restarted and no purge was dropped, the router that
\* originates an LSP holds it in the highest version anywhere, and two live
\* copies with one sequence number have one content: reoriginateOwn, purgeOwn,
\* originate and the equal-sequence purges of expirePurge never produce the
\* conflict processLSP and processCSNP are prepared for.
VersionsAgree ==
    (left["crash"] = Budget["crash"] /\ left["gone"] = Budget["gone"]) =>
        \A i \in LspId : Owner[i] # NONE => \A h \in CopiesOf(i) :
            LET mine == node[Owner[i]].db[i] IN
            /\ mine # NONE /\ h.seq <= mine.seq
            /\ \A g \in CopiesOf(i) :
                   g.seq = h.seq /\ ~g.zero /\ ~h.zero => g.body = h.body

\* Every live LSP a node holds and the neighbor at the other end of an Up
\* adjacency lacks, or holds in an older version, is flagged for it, or a
\* deferred synchronization is going to flag it: transmitSRM, processPSNP and
\* teardownP2PAdj never drop the last reason to send an LSP.
NoLostUpdate ==
    \A c \in P2P : \A n \in Ends[c] : \A m \in Neighbors(n, c) : \A i \in LspId :
        LET mine == node[n].db[i]  theirs == node[m].db[i] IN
        (/\ node[n].adj[c][m] = "up"
         /\ mine # NONE /\ mine.age = "live"
         /\ theirs # NONE => theirs.seq < mine.seq)
            => node[n].srm[c][i] # "off" \/ node[n].defer[c]

\* Once both ends of a circuit are Up and no frame is in flight on it, every LSP
\* one end lacks is flagged at the other: the CSNP of syncCircuitLevel "also draws
\* out LSPs the neighbor holds and we do not", and the neighbours of a router that
\* restarts "reinitialise their adjacencies" (design.md) and so synchronize too.
SynchronizedWhenQuiet ==
    \A c \in P2P : \A n \in Ends[c] : \A m \in Neighbors(n, c) : \A i \in LspId :
        LET mine == node[n].db[i]  theirs == node[m].db[i] IN
        (/\ node[n].adj[c][m] = "up" /\ node[m].adj[c][n] = "up"
         /\ net[c][n] = <<>> /\ net[c][m] = <<>>
         /\ mine # NONE /\ mine.age = "live"
         /\ theirs # NONE => theirs.seq < mine.seq)
            => node[n].srm[c][i] # "off" \/ node[n].defer[c]

\* While a node holds a purge and the neighbor at the other end of an Up
\* adjacency still holds a copy the purge supersedes, with no frame in flight,
\* the purge is flagged for that neighbor: processPSNP stops retransmitting
\* only "if they confirm a copy at least as new as ours".
NoLostPurge ==
    \A c \in P2P : \A n \in Ends[c] : \A m \in Neighbors(n, c) : \A i \in LspId :
        LET mine == node[n].db[i]  theirs == node[m].db[i] IN
        (/\ node[n].adj[c][m] = "up" /\ node[m].adj[c][n] = "up"
         /\ net[c][n] = <<>> /\ net[c][m] = <<>>
         /\ mine # NONE /\ mine.age = "purged"
         /\ theirs # NONE /\ newer(wire(mine), theirs)
         /\ node[m].srm[c][i] = "off")
            => node[n].srm[c][i] # "off" \/ node[n].defer[c]

\* A router that restarts at sequence number 1 "is ignored until its stale LSP ages
\* out" (newer in lsdb.go): as long as a neighbor holds a live copy with a higher
\* number than the originator's own LSP, the originator does not overtake it. The
\* step by step growth of refreshes, which can draw level, is not ruled out.
OutshoutedUntilAged ==
    [][\A i \in LspId : \A m \in Node : \A o \in {Owner[i]} \ {NONE, m} :
           LET mine == node[o].db[i]  theirs == node[m].db[i]  mine2 == node'[o].db[i] IN
           (/\ mine # NONE /\ mine.age = "live"
            /\ theirs # NONE /\ theirs.age = "live" /\ mine.seq < theirs.seq
            /\ node'[m].db[i] = theirs /\ mine2 # NONE /\ mine2.age = "live")
               => mine2.seq <= theirs.seq]_vars

\* Every adjacency comes up and stays up and the databases at its two ends end
\* up alike, once versions stop changing and faults stop happening.
Converges ==
    <>[](\A c \in P2P : \A n \in Ends[c] : \A m \in Neighbors(n, c) :
             /\ node[n].adj[c][m] = "up"
             /\ \A i \in LspId : Alike(node[n].db[i], node[m].db[i]))
============================================================================
