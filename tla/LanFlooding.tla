---------------------------- MODULE LanFlooding ----------------------------
(***************************************************************************)
(* The update process over broadcast circuits, together with LAN hellos    *)
(* (processLANHello, dropAdjacencies in pkg/server/hello.go), the election *)
(* of the designated IS (dis.go) and the pseudonode LSPs that follow it    *)
(* (regeneratePseudonodeLSPs in origination.go).  A frame goes to every    *)
(* other station of the LAN and each may lose it.                          *)
(*                                                                         *)
(* All stations run this code and stay in one area; the restart signalling *)
(* of RFC 5306, which this code answers and never starts, is left out.     *)
(***************************************************************************)
EXTENDS UpdateProcess

CONSTANT Rank   \* Rank[n]: the DIS priority of n, ties broken by SNPA

ASSUME LanAssumption ==
    /\ P2P = {}
    /\ Rank \in [Node -> Nat]
    /\ \A m, n \in Node : Rank[m] = Rank[n] => m = n

----------------------------------------------------------------------------
(* Hellos and the election *)

\* buildLANHello: the stations heard, and the LAN ID, zero until one is known.
helloFrame(n, s, c) ==
    [kind |-> "hello", src |-> n, lan |-> s.dis[c],
     echo |-> {m \in Node : s.adj[c][m] # "down"}]

FirstHello(n) == [kind |-> "hello", src |-> n, lan |-> NONE, echo |-> {}]

Init == InitWith([n \in Node |-> FirstHello(n)])

Crash(n, b) == CrashWith(n, b, FirstHello(n))

\* The periodic hello; no receiver has one unread (a bound).
SendHello(n, c) ==
    /\ c \in CircuitsOf(n)
    /\ \A m \in Neighbors(n, c) : InFlight(net[c][m]) = net[c][m]
    /\ net' = Sent(n, net, Only(n, c, <<helloFrame(n, node[n], c)>>))
    /\ UNCHANGED <<node, left>>

upAdjacencies(s, c) == {m \in Node : s.adj[c][m] = "up"}

\* Highest priority, then highest SNPA; the winner's advertised LAN ID is used,
\* and the previous value is kept while it advertises none.
electDIS(n, s, c) ==
    LET Up == upAdjacencies(s, c)
        Best == {m \in Up : \A k \in Up \cup {n} : Rank[k] <= Rank[m]}
        Said == {s.lan[c][m] : m \in Best} \ {NONE}
    IN  [s EXCEPT !.dis[c] = IF \A k \in Up : Rank[k] <= Rank[n] THEN n
                             ELSE IF Said # {} THEN CHOOSE l \in Said : TRUE ELSE @]

\* Mutant: a neighbor's new LAN ID does not count.
Reelects_onlyUp(prev, new, lan, said) == (prev = "up") # (new = "up")

\* The hello makes the neighbor usable or unusable, or names another LAN ID.
Reelects(prev, new, lan, said) ==
    \/ (prev = "up") # (new = "up")
    \/ new = "up" /\ prev # "down" /\ lan # said

\* processLANHello. The triggered hello leaves before the election.
ReceiveHello(n, c) ==
    LET f == Head(net[c][n])
        s == node[n]
        prev == s.adj[c][f.src]
        new == IF n \in f.echo THEN "up" ELSE "init"
        t == [s EXCEPT !.adj[c][f.src] = new, !.lan[c][f.src] = f.lan]
        elect == Reelects(prev, new, s.lan[c][f.src], f.lan)
    IN  /\ Pending(n, c) /\ f.kind = "hello"
        /\ node' = [node EXCEPT ![n] = IF elect THEN electDIS(n, t, c) ELSE t]
        /\ net' = Sent(n, [net EXCEPT ![c][n] = Tail(@)],
                       Only(n, c, IF prev # new THEN <<helloFrame(n, t, c)>> ELSE <<>>))
        /\ UNCHANGED left

\* expireAdjacencies and ClearAdjacency: dropAdjacencies for one neighbor. The
\* flooding flags are the circuit's and stay.
Drop(n, c, m) ==
    /\ Spend("flap")
    /\ c \in CircuitsOf(n) /\ node[n].adj[c][m] # "down"
    /\ node' = [node EXCEPT ![n] =
                   electDIS(n, [@ EXCEPT !.adj[c][m] = "down", !.lan[c][m] = NONE], c)]
    /\ UNCHANGED net

----------------------------------------------------------------------------
(* Pseudonode LSPs *)

\* Every election asks for a regeneration, which drainLSPGen runs within
\* minLSPGenInterval: the DIS originates the LSP of its LAN, and a station that
\* is not DIS purges the one it has.
Pseudonodes(n) == {i \in LspId : Owner[i] = n /\ Pseudonode[i] # NONE}

Announce(n, i, b) ==
    /\ i \in Pseudonodes(n) /\ ~Originating(n, node[n], i)
    /\ Originate(n, i, b) /\ UNCHANGED left

Relinquish(n, i) ==
    /\ i \in Pseudonodes(n) /\ ~ownsLSP(n, node[n], i)
    /\ PurgeStale(n, i) /\ UNCHANGED left

----------------------------------------------------------------------------
(* The next-state relation *)

Receive(n, c) == ReceiveHello(n, c) \/ ReceiveUpdate(n, c)

Next ==
    \E n \in Node :
        \/ \E c \in Circuit : Receive(n, c) \/ SendHello(n, c) \/ Lose(n, c)
        \/ \E c \in Circuit, m \in Node : Drop(n, c, m)
        \/ \E i \in LspId, b \in Body : NewVersion(n, i, b) \/ Announce(n, i, b)
        \/ \E i \in LspId : Relinquish(n, i)
        \/ \E i \in LspId, b \in Body : ReleaseWrap(n, i, b) /\ UNCHANGED left
        \/ \E i \in LspId : PurgeStale(n, i) /\ Spend("stale")
        \/ \E i \in LspId : LifetimeEnds(n, i) /\ Spend("life")
        \/ Tick(n) \/ TickRemoving(n) \/ TickFailing(n)
        \/ \E b \in Body : Crash(n, b)

Spec == Init /\ [][Next]_vars

\* The reader goroutines and the Serve loop keep running, hellos are periodic
\* whoever else sends, the tick recurs every second, csnpInterval is ten of them,
\* and every election is followed by a regeneration.
Fairness ==
    \A n \in Node :
        /\ WF_vars(FullTick(n))
        /\ \A c \in Circuit : WF_vars(Receive(n, c)) /\ SF_vars(SendHello(n, c))
        /\ \A i \in Pseudonodes(n) : /\ WF_vars(Relinquish(n, i))
                                     /\ WF_vars(\E b \in Body : Announce(n, i, b))

FairSpec == Spec /\ Fairness

----------------------------------------------------------------------------
(* Properties *)

TypeOK == UpdateTypeOK([kind : {"hello"}, src : Node, lan : Node \cup {NONE},
                        echo : SUBSET Node])

\* The station that ought to win: highest priority, then highest SNPA.
BestOf(c) == CHOOSE m \in Ends[c] : \A k \in Ends[c] : Rank[k] <= Rank[m]

\* Once faults stop, all stations of a LAN are mutually Up and agree that the one
\* with the highest priority and SNPA is the DIS, whatever LAN IDs the hellos
\* under way carried and in whatever order adjacencies formed and expired.
OneDIS ==
    <>[](\A c \in Circuit : \A n \in Ends[c] :
             /\ node[n].dis[c] = BestOf(c)
             /\ \A m \in Neighbors(n, c) : node[n].adj[c][m] = "up")

\* Once faults stop, the databases on a LAN end up alike although an LSP is sent
\* once and not acknowledged: "the DIS CSNP provides reliability" (transmitSRM).
LanConverges ==
    <>[](\A c \in Circuit : \A m, n \in Ends[c] : \A i \in LspId :
             Alike(node[m].db[i], node[n].db[i]))

\* Once faults stop, the pseudonode LSPs that are live anywhere are those of
\* stations that are DIS: one that lost the election purges its own, and no copy
\* of it survives or comes back.
OnePseudonode ==
    <>[](\A n \in Node, i \in LspId :
             (Pseudonode[i] # NONE /\ node[n].db[i] # NONE /\ node[n].db[i].age = "live")
                 => Owner[i] = BestOf(Pseudonode[i]))

\* What the next CSNP of the DIS d brings about for LSP i: station m flags its own
\* copy, or asks for that of d, which flags it.
CSNPRepairs(c, d, m, i) ==
    LET t == processCSNP(node[m], c, sendCSNP(d, node[d]).list)
        asked == psnpFrame(m, t, c).list
    IN  t.srm[c][i] # "off" \/ processPSNP(d, node[d], c, asked).srm[c][i] # "off"

\* While a station holds a purge and another, mutually Up with it and of one mind
\* about the DIS, holds a copy the purge supersedes, with no frame unread, one of
\* the two is flagged or the next CSNP of the DIS will have one flagged: a flag is
\* cleared after one send because "the DIS CSNP provides reliability" (transmitSRM),
\* and processCSNP re-sends "LSPs we hold that are newer".
NoLostLanPurge ==
    \A c \in Circuit : \A n \in Ends[c] : \A m \in Neighbors(n, c) : \A i \in LspId :
        LET mine == node[n].db[i]  theirs == node[m].db[i]  d == node[n].dis[c] IN
        (/\ node[n].adj[c][m] = "up" /\ node[m].adj[c][n] = "up"
         /\ d \in {n, m} /\ node[m].dis[c] = d
         /\ net[c][n] = <<>> /\ net[c][m] = <<>>
         /\ mine # NONE /\ mine.age = "purged"
         /\ theirs # NONE /\ newer(wire(mine), theirs))
            => \/ node[n].srm[c][i] # "off" \/ node[m].srm[c][i] # "off"
               \/ \A k \in {n, m} \ {d} : CSNPRepairs(c, d, k, i)
============================================================================
