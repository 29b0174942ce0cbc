--------------------------- MODULE UpdateProcess ---------------------------
(***************************************************************************)
(* The update process of one IS-IS level (pkg/server/flooding.go,          *)
(* lsdb.go, lifetime.go and the flags of circuit.go): the link-state       *)
(* database of every node, the SRM and SSN flags of its circuits, and one  *)
(* action per branch of the handlers that read and write them.             *)
(*                                                                         *)
(* A node's state is one record, because one goroutine owns it; handlers   *)
(* are operators from the record before to the record after.  Time is kept *)
(* as the order of the events the code tells apart: a lifetime that ran    *)
(* out, a retransmission that is due, a hold-down that lapsed.             *)
(*                                                                         *)
(* Hellos, adjacencies and the next-state relation are left to the modules *)
(* that extend this one: P2PFlooding and LanFlooding.                      *)
(***************************************************************************)
EXTENDS Integers, Sequences, FiniteSets, Functions

CONSTANTS
    Node,       \* routers
    Circuit,    \* links of this level
    Ends,       \* Ends[c]: the nodes attached to circuit c
    P2P,        \* the circuits configured point-to-point; the others are LANs
    LspId,      \* LSP IDs
    Owner,      \* Owner[i]: the node whose System ID is in i, NONE for a router
                \* beyond the modelled circuits
    Pseudonode, \* Pseudonode[i]: the LAN i describes, NONE for a node LSP
    Body,       \* contents an LSP may have; equal bodies have equal checksums
    MaxSeq,     \* maxLSPSeq
    MaxSend,    \* maxLSPSendPerTick
    EntryLimit, \* lsdbEntryLimit
    NONE,       \* nil
    SeqBound,   \* bound: no new version is originated from this number on
    QueueBound, \* bound: frames of earlier ticks still unread when a node ticks
    Budget      \* bound: how often each kind of fault happens

\* A lost frame or failed write, a crash, an adjacency torn down, a lifetime that
\* runs out, a purge dropped after ZeroAgeLifetime, an LSP no longer needed; "any"
\* bounds their sum.
FaultKind == {"loss", "crash", "flap", "life", "gone", "stale", "any"}

ASSUME UpdateAssumption ==
    /\ P2P \subseteq Circuit
    /\ Ends \in [Circuit -> SUBSET Node]
    /\ Owner \in [LspId -> Node \cup {NONE}]
    /\ Pseudonode \in [LspId -> (Circuit \ P2P) \cup {NONE}]
    /\ MaxSeq \in Nat \ {0}
    /\ MaxSend \in Nat \ {0}
    /\ EntryLimit \in Nat
    /\ IsFiniteSet(LspId) /\ IsFiniteSet(Node)
    /\ NONE \notin Body \cup Node /\ Body # {}
    /\ SeqBound \in Nat
    /\ QueueBound \in Nat
    /\ Budget \in [FaultKind -> Nat]

VARIABLES
    node,   \* node[n]: what the Serve goroutine of n owns
    net,    \* net[c][n]: frames sent on c that n has not read yet, in order
    left    \* left[k]: faults of kind k still to come

vars == <<node, net, left>>

Spend(k) ==
    /\ left[k] > 0 /\ left["any"] > 0
    /\ left' = [left EXCEPT ![k] = @ - 1, !["any"] = @ - 1]

----------------------------------------------------------------------------
(* Entries and headers *)

Seqno == 1..MaxSeq

\* lspEntry. "expired" is the second or less in which remaining() is 0 and
\* ageLSPs has not run yet; a purge has no body.
Entry == [seq : Seqno, age : {"live", "expired", "purged"},
          body : Body \cup {NONE}, own : BOOLEAN]

\* What an LSP frame or one LSP Entries record says of an LSP; seq 0 is the
\* record of a PSNP that requests an LSP its sender does not hold.
Header == [seq : 0..MaxSeq, zero : BOOLEAN, body : Body \cup {NONE}]

ASSUME NilAssumption == NONE \notin Entry \cup Header

Zero(e) == e.age # "live"

wire(e) == [seq |-> e.seq, zero |-> Zero(e), body |-> e.body]

\* Mutant: an equal sequence number is enough.
newer_orEqual(h, ex) == ex # NONE => h.seq >= ex.seq

newer(h, ex) ==
    ex # NONE => \/ h.seq > ex.seq
                 \/ h.seq = ex.seq /\ h.zero /\ ~Zero(ex)

\* Equal sequence number, both live, different checksum.
Conflict(h, ex) ==
    ex # NONE /\ h.seq = ex.seq /\ ~h.zero /\ ~Zero(ex) /\ h.body # ex.body

CircuitsOf(n) == {c \in Circuit : n \in Ends[c]}

Neighbors(n, c) == Ends[c] \ {n}

----------------------------------------------------------------------------
(* A node and its flags *)

\* srm[c][i] is "due" when its send time has come and "wait" between two
\* retransmissions. ack is ssnAck, wrap the keys of seqWrapUntil, lan the LAN ID
\* in the last hello of each neighbor; hold and defer are syncHold and syncDeferred.
NodeState(n) ==
    [db    : [LspId -> Entry \cup {NONE}],
     wrap  : SUBSET LspId,
     srm   : [CircuitsOf(n) -> [LspId -> {"off", "due", "wait"}]],
     ssn   : [CircuitsOf(n) -> SUBSET LspId],
     ack   : [CircuitsOf(n) -> [LspId -> Header \cup {NONE}]],
     adj   : [CircuitsOf(n) -> [Node -> {"down", "init", "up"}]],
     lan   : [CircuitsOf(n) -> [Node -> Node \cup {NONE}]],
     dis   : [CircuitsOf(n) -> Node \cup {NONE}],
     hold  : [CircuitsOf(n) -> BOOLEAN],
     defer : [CircuitsOf(n) -> BOOLEAN]]

setSRM(s, c, i) == [s EXCEPT !.srm[c][i] = "due"]

clearSRM(s, c, i) == [s EXCEPT !.srm[c][i] = "off"]

setSSN(s, c, i) == [s EXCEPT !.ssn[c] = @ \cup {i}]

setSSNAck(s, c, i, h) == [setSSN(s, c, i) EXCEPT !.ack[c][i] = h]

clearSSN(s, c, i) == [s EXCEPT !.ssn[c] = @ \ {i}, !.ack[c][i] = NONE]

clearFlags(s, c) ==
    [s EXCEPT !.srm[c] = [i \in LspId |-> "off"],
              !.ssn[c] = {},
              !.ack[c] = [i \in LspId |-> NONE]]

floodReady(s, c) == c \in P2P => \E m \in Node : s.adj[c][m] = "up"

isDIS(n, s, c) == c \notin P2P /\ s.dis[c] = n

\* Mutant: a pseudonode LSP of ours is ours to originate, DIS or not.
ownsLSP_always(n, s, i) == Owner[i] = n

ownsLSP(n, s, i) ==
    /\ Owner[i] = n
    /\ Pseudonode[i] # NONE =>
           Pseudonode[i] \in CircuitsOf(n) /\ isDIS(n, s, Pseudonode[i])

\* SRM on every circuit but those in `except`, where SSN is cleared as well.
floodLSP(s, i, except) ==
    LET F == DOMAIN s.srm \ except IN
    [s EXCEPT
        !.srm = [c \in DOMAIN @ |-> IF c \in F THEN [@[c] EXCEPT ![i] = "due"] ELSE @[c]],
        !.ssn = [c \in DOMAIN @ |-> IF c \in F THEN @[c] \ {i} ELSE @[c]],
        !.ack = [c \in DOMAIN @ |-> IF c \in F THEN [@[c] EXCEPT ![i] = NONE] ELSE @[c]]]

\* An entry written to the database and flooded everywhere.
store(s, i, e) == floodLSP([s EXCEPT !.db[i] = e], i, {})

purge(seq, own) == [seq |-> seq, age |-> "purged", body |-> NONE, own |-> own]

live(seq, b) == [seq |-> seq, age |-> "live", body |-> b, own |-> TRUE]

\* Mutant: the purge of a foreign LSP advances its sequence number.
expired_advanced(e) == purge(IF e.seq < MaxSeq THEN e.seq + 1 ELSE e.seq, e.own)

\* The purge of an LSP that is not ours keeps its sequence number.
expired(e) == purge(e.seq, e.own)

expirePurge(s, i, e) == store(s, i, expired(e))

exhaustSeq(s, i) ==
    store([s EXCEPT !.wrap = @ \cup {i}], i, purge(MaxSeq, TRUE))

\* Mutant: no test for the last sequence number.
reoriginateOwn_wraps(s, i, seen) == store(s, i, live(seen + 1, s.db[i].body))

reoriginateOwn(s, i, seen) ==
    IF seen = MaxSeq THEN exhaustSeq(s, i)
    ELSE store(s, i, live(seen + 1, s.db[i].body))

\* Mutant: no test for the last sequence number.
purgeOwn_wraps(s, i) == store(s, i, purge(s.db[i].seq + 1, TRUE))

purgeOwn(s, i) ==
    IF s.db[i].seq = MaxSeq THEN exhaustSeq(s, i)
    ELSE store(s, i, purge(s.db[i].seq + 1, TRUE))

originate(s, i, b) ==
    IF s.db[i] = NONE THEN store(s, i, live(1, b))
    ELSE IF s.db[i].seq = MaxSeq THEN exhaustSeq(s, i)
    ELSE store(s, i, live(s.db[i].seq + 1, b))

----------------------------------------------------------------------------
(* Frames *)

lspFrame(n, i, e) == [kind |-> "lsp", src |-> n, id |-> i, hdr |-> wire(e)]

snpFrame(kind, n, list) == [kind |-> kind, src |-> n, list |-> list]

Frame ==
    [kind : {"lsp"}, src : Node, id : LspId,
     hdr : {h \in Header : h.seq > 0}]
    \cup [kind : {"csnp", "psnp"}, src : Node, list : [LspId -> Header \cup {NONE}]]

\* sendCSNP: the PDUs of one run cover the whole range of LSP IDs between them,
\* and are one frame here.
sendCSNP(n, s) ==
    snpFrame("csnp", n, [i \in LspId |-> IF s.db[i] = NONE THEN NONE ELSE wire(s.db[i])])

\* The record of a PSNP: our copy, else the header being acknowledged, else a
\* request.
psnpEntry(s, c, i) ==
    IF s.db[i] # NONE THEN wire(s.db[i])
    ELSE IF s.ack[c][i] # NONE THEN s.ack[c][i]
    ELSE [seq |-> 0, zero |-> TRUE, body |-> NONE]

psnpFrame(n, s, c) ==
    snpFrame("psnp", n, [i \in LspId |-> IF i \in s.ssn[c] THEN psnpEntry(s, c, i) ELSE NONE])

\* The network after n put the frames out[c] on each of its circuits c.
Sent(n, queues, out) ==
    [c \in Circuit |-> [m \in Node |->
        IF c \in CircuitsOf(n) /\ m \in Neighbors(n, c)
        THEN queues[c][m] \o out[c] ELSE queues[c][m]]]

\* Frames on circuit c alone.
Only(n, c, frames) == [d \in CircuitsOf(n) |-> IF d = c THEN frames ELSE <<>>]

----------------------------------------------------------------------------
(* Receiving *)

Pending(n, c) == n \in Ends[c] /\ net[c][n] # <<>>

\* adjacencyGate: an LSP or SNP counts only from a source that is Up.
Gate(n, c) == node[n].adj[c][Head(net[c][n]).src] = "up"

Arrives(n, c, kind) ==
    Pending(n, c) /\ Head(net[c][n]).kind = kind /\ Gate(n, c)

\* The frame at the head is consumed and leaves the node in state s.
Handled(n, c, s) ==
    /\ node' = [node EXCEPT ![n] = s]
    /\ net' = [net EXCEPT ![c][n] = Tail(@)]

DropUngated(n, c) ==
    /\ Pending(n, c) /\ Head(net[c][n]).kind # "hello" /\ ~Gate(n, c)
    /\ Handled(n, c, node[n])

\* The branches of processLSP for a copy h of LSP i arriving on c, in order.
HoldNewer(n, c, i, h, s) ==
    /\ s.db[i] # NONE /\ h.seq < s.db[i].seq
    /\ Handled(n, c, clearSSN(setSRM(s, c, i), c, i))

HoldPurge(n, c, i, h, s) ==
    /\ s.db[i] # NONE /\ h.seq = s.db[i].seq /\ Zero(s.db[i]) /\ ~h.zero
    /\ Handled(n, c, clearSSN(setSRM(s, c, i), c, i))

ConflictForeign(n, c, i, h, s) ==
    /\ Conflict(h, s.db[i]) /\ ~s.db[i].own
    /\ Handled(n, c, expirePurge(s, i, s.db[i]))

ConflictOwn(n, c, i, h, s) ==
    /\ Conflict(h, s.db[i]) /\ s.db[i].own
    /\ Handled(n, c, reoriginateOwn(s, i, h.seq))

Duplicate(n, c, i, h, s) ==
    /\ s.db[i] # NONE /\ h.seq = s.db[i].seq /\ h.zero = Zero(s.db[i])
    /\ ~Conflict(h, s.db[i])
    /\ Handled(n, c, IF c \in P2P THEN setSSN(s, c, i) ELSE s)

UnknownPurge(n, c, i, h, s) ==
    /\ s.db[i] = NONE /\ h.zero
    /\ Handled(n, c, IF c \in P2P THEN setSSNAck(s, c, i, h) ELSE s)

\* Mutant: one LSP too many.
AtLimit_late(s, i) ==
    /\ s.db[i] = NONE /\ EntryLimit > 0
    /\ Cardinality({j \in LspId : s.db[j] # NONE}) > EntryLimit

AtLimit(s, i) ==
    /\ s.db[i] = NONE /\ EntryLimit > 0
    /\ Cardinality({j \in LspId : s.db[j] # NONE}) >= EntryLimit

OverLimit(n, c, i, h, s) ==
    /\ ~h.zero /\ AtLimit(s, i)
    /\ Handled(n, c, s)

\* The copy supersedes ours and may be stored.
Accepted(s, i, h) ==
    newer(h, s.db[i]) /\ (s.db[i] = NONE => ~h.zero) /\ ~AtLimit(s, i)

\* handleOwnSystemID, first case: the LSP is one we are originating.
Originating(n, s, i) ==
    ownsLSP(n, s, i) /\ s.db[i] # NONE /\ s.db[i].own /\ s.db[i].age # "purged"

Reclaim(n, c, i, h, s) ==
    /\ Accepted(s, i, h) /\ Originating(n, s, i)
    /\ Handled(n, c, reoriginateOwn(s, i, h.seq))

\* Its default: our System ID on an LSP we do not originate.
Disown(n, c, i, h, s) ==
    /\ Accepted(s, i, h) /\ Owner[i] = n /\ ~Originating(n, s, i) /\ ~h.zero
    /\ Handled(n, c, store(s, i, purge(h.seq, FALSE)))

install(s, c, i, h) ==
    LET e == [seq |-> h.seq, age |-> IF h.zero THEN "purged" ELSE "live",
              body |-> h.body, own |-> FALSE]
        t == clearSRM(floodLSP([s EXCEPT !.db[i] = e], i, {c}), c, i)
    IN  IF c \in P2P THEN setSSN(t, c, i) ELSE t

\* Mutant: handleOwnSystemID is not consulted.
Install_unchecked(n, c, i, h, s) ==
    Accepted(s, i, h) /\ Handled(n, c, install(s, c, i, h))

Install(n, c, i, h, s) ==
    /\ Accepted(s, i, h) /\ (Owner[i] = n => ~Originating(n, s, i) /\ h.zero)
    /\ Handled(n, c, install(s, c, i, h))

processLSP(n, c) ==
    LET i == Head(net[c][n]).id
        h == Head(net[c][n]).hdr
        s == node[n]
    IN  /\ Arrives(n, c, "lsp")
        /\ \/ HoldNewer(n, c, i, h, s) \/ HoldPurge(n, c, i, h, s)
           \/ ConflictForeign(n, c, i, h, s) \/ ConflictOwn(n, c, i, h, s)
           \/ Duplicate(n, c, i, h, s) \/ UnknownPurge(n, c, i, h, s)
           \/ OverLimit(n, c, i, h, s) \/ Reclaim(n, c, i, h, s)
           \/ Disown(n, c, i, h, s) \/ Install(n, c, i, h, s)

\* The same branch of processLSP on a circuit that is not modelled: a version of
\* an LSP from beyond the modelled part of the area.
Learn(n, i, h) ==
    /\ Owner[i] = NONE /\ Accepted(node[n], i, h)
    /\ node' = [node EXCEPT ![n] = store(@, i,
                   [seq |-> h.seq, age |-> IF h.zero THEN "purged" ELSE "live",
                    body |-> h.body, own |-> FALSE])]
    /\ UNCHANGED net

\* Mutant: an LSP the sender did not list is not sent to it.
processCSNP_listedOnly(s, c, list) ==
    LET Listed  == {i \in LspId : list[i] # NONE}
        Request == {i \in Listed : newer(list[i], s.db[i])}
        Resend  == {i \in Listed : s.db[i] # NONE /\
                       (s.db[i].seq > list[i].seq \/ Conflict(list[i], s.db[i]))}
        Settled == Listed \ (Request \cup Resend)
    IN  [s EXCEPT
            !.ssn[c] = @ \cup Request,
            !.srm[c] = [i \in LspId |-> IF i \in Resend THEN "due"
                                        ELSE IF i \in Settled THEN "off" ELSE @[i]]]

\* processCSNP. The LSPs to request, those to send, and those both ends agree on.
processCSNP(s, c, list) ==
    LET Listed  == {i \in LspId : list[i] # NONE}
        Held    == {i \in LspId : s.db[i] # NONE}
        Request == {i \in Listed : newer(list[i], s.db[i])}
        Resend  == {i \in Held : i \in Listed =>
                       s.db[i].seq > list[i].seq \/ Conflict(list[i], s.db[i])}
        Settled == Listed \ (Request \cup Resend)
    IN  [s EXCEPT
            !.ssn[c] = @ \cup Request,
            !.srm[c] = [i \in LspId |-> IF i \in Resend THEN "due"
                                        ELSE IF i \in Settled THEN "off" ELSE @[i]]]

\* Mutant: any record acknowledges.
processPSNP_anyRecord(n, s, c, list) ==
    [s EXCEPT !.srm[c] = [i \in LspId |-> IF list[i] # NONE THEN "off" ELSE @[i]]]

\* processPSNP: acknowledgements on p2p, requests to the DIS on a LAN.
processPSNP(n, s, c, list) ==
    LET Both   == {i \in LspId : list[i] # NONE /\ s.db[i] # NONE}
        Acked  == {i \in Both : c \in P2P /\ list[i].seq >= s.db[i].seq}
        Resend == {i \in Both : isDIS(n, s, c) /\
                       (s.db[i].seq > list[i].seq \/ Conflict(list[i], s.db[i]))}
    IN  [s EXCEPT !.srm[c] = [i \in LspId |-> IF i \in Acked THEN "off"
                                              ELSE IF i \in Resend THEN "due" ELSE @[i]]]

ReceiveCSNP(n, c) ==
    /\ Arrives(n, c, "csnp")
    /\ Handled(n, c, processCSNP(node[n], c, Head(net[c][n]).list))

ReceivePSNP(n, c) ==
    /\ Arrives(n, c, "psnp")
    /\ Handled(n, c, processPSNP(n, node[n], c, Head(net[c][n]).list))

----------------------------------------------------------------------------
(* Originating *)

\* regenerateLSPs reaches LSP i, one of ours, with content b that differs or a
\* refresh that is due. Nothing in this module relates two of our LSPs, so the
\* loop over them is one action per LSP.
Originate(n, i, b) ==
    /\ ownsLSP(n, node[n], i) /\ i \notin node[n].wrap
    /\ node' = [node EXCEPT ![n] = originate(@, i, b)]
    /\ UNCHANGED net

\* purgeStaleFragments: the fragment is no longer needed, or n lost the LAN.
PurgeStale(n, i) ==
    /\ Owner[i] = n /\ node[n].db[i] # NONE
    /\ node[n].db[i].own /\ node[n].db[i].age # "purged"
    /\ node' = [node EXCEPT ![n] = purgeOwn(@, i)]
    /\ UNCHANGED net

\* refreshOwnLSPs drops a hold-down that elapsed and regenerates. The hold-down
\* outlasts ZeroAgeLifetime, so the purge that started it has left the database of
\* n; a purge that answered a copy received since may still be there.
ReleaseWrap(n, i, b) ==
    LET s == [node[n] EXCEPT !.wrap = @ \ {i}] IN
    /\ i \in node[n].wrap /\ (s.db[i] # NONE => ~s.db[i].own)
    /\ node' = [node EXCEPT ![n] = IF ownsLSP(n, s, i) THEN originate(s, i, b) ELSE s]
    /\ UNCHANGED net

----------------------------------------------------------------------------
(* Time and the housekeeping tick *)

\* The lifetime of a foreign LSP runs out; n's own are refreshed in time.
LifetimeEnds(n, i) ==
    /\ node[n].db[i] # NONE /\ node[n].db[i].age = "live" /\ ~node[n].db[i].own
    /\ node' = [node EXCEPT ![n].db[i].age = "expired"]
    /\ UNCHANGED net

\* syncHoldDown lapses.
HoldDownEnds(n, c) ==
    /\ c \in CircuitsOf(n) /\ node[n].hold[c]
    /\ node' = [node EXCEPT ![n].hold[c] = FALSE]
    /\ UNCHANGED net

\* ageLSPs. The purges in `gone` were held for ZeroAgeLifetime.
ageLSPs(s, gone) ==
    LET Old == {i \in LspId : s.db[i] # NONE /\ s.db[i].age = "expired" /\ ~s.db[i].own}
    IN  [s EXCEPT
            !.db = [i \in LspId |-> IF i \in Old THEN expired(@[i])
                                    ELSE IF i \in gone THEN NONE ELSE @[i]],
            !.srm = [c \in DOMAIN @ |-> [i \in LspId |-> IF i \in Old THEN "due" ELSE @[c][i]]],
            !.ssn = [c \in DOMAIN @ |-> @[c] \ Old],
            !.ack = [c \in DOMAIN @ |-> [i \in LspId |-> IF i \in Old THEN NONE ELSE @[c][i]]]]

\* syncCircuitLevel outside the hold-down: SRM for the whole database.
flagAll(s, flags) == [i \in LspId |-> IF s.db[i] # NONE THEN "due" ELSE flags[i]]

\* floodTransmit starts with the synchronizations the hold-down deferred.
ResyncDue(s, c) == s.defer[c] /\ ~s.hold[c] /\ floodReady(s, c)

resync(s) ==
    [s EXCEPT
        !.srm = [c \in DOMAIN @ |-> IF ResyncDue(s, c) THEN flagAll(s, @[c]) ELSE @[c]],
        !.hold = [c \in DOMAIN @ |-> @[c] \/ ResyncDue(s, c)],
        !.defer = [c \in DOMAIN @ |-> @[c] /\ ~ResyncDue(s, c)]]

\* What one tick finds on circuit c: the waiting flags whose time has come
\* again, the flags transmitSRM visits before its budget is spent, the writes
\* that fail, and whether the DIS's CSNP is due.
Present(s, V) == {i \in V : s.db[i] # NONE}

Due(s, c, again) == {i \in LspId : s.srm[c][i] = "due"} \cup again

TickChoice(n, s, c) ==
    {p \in [again : SUBSET {i \in LspId : s.srm[c][i] = "wait"},
            visit : SUBSET LspId, fail : SUBSET LspId, csnp : BOOLEAN] :
        /\ p.visit \subseteq Due(s, c, p.again)
        /\ Cardinality(Present(s, p.visit)) <= MaxSend
        /\ Cardinality(Present(s, p.visit)) < MaxSend => p.visit = Due(s, c, p.again)
        /\ p.fail \subseteq Present(s, p.visit)
        /\ p.csnp => isDIS(n, s, c)}

\* transmitSRM: a flag is rescheduled on p2p and cleared on a LAN once sent.
transmitSRM(s, c, p) ==
    [i \in LspId |->
        IF ~floodReady(s, c) \/ i \notin Due(s, c, p.again) THEN s.srm[c][i]
        ELSE IF i \notin p.visit \/ i \in p.fail THEN "due"
        ELSE IF s.db[i] # NONE /\ c \in P2P THEN "wait" ELSE "off"]

\* transmitPSNP empties both maps.
transmit(s, pick) ==
    [s EXCEPT
        !.srm = [c \in DOMAIN @ |-> transmitSRM(s, c, pick[c])],
        !.ssn = [c \in DOMAIN @ |-> IF floodReady(s, c) THEN {} ELSE @[c]],
        !.ack = [c \in DOMAIN @ |-> IF floodReady(s, c) THEN [i \in LspId |-> NONE] ELSE @[c]]]

\* The elements of S one after another, in some order.
Listing(S) == CHOOSE s \in Bijection(1..Cardinality(S), S) : TRUE

\* The frames of one tick on c. Handlers act per LSP, so the order in which the
\* LSPs of one burst go out matters only for which of them takes the last entry of
\* a database at EntryLimit; with a send budget of 1 each may come first.
FramesOf(n, s, c, p) ==
    LET lsps == Listing(Present(s, p.visit) \ p.fail) IN
    IF ~floodReady(s, c) THEN <<>>
    ELSE [k \in 1..Len(lsps) |-> lspFrame(n, lsps[k], s.db[lsps[k]])]
         \o (IF s.ssn[c] = {} THEN <<>> ELSE <<psnpFrame(n, s, c)>>)
         \o (IF p.csnp THEN <<sendCSNP(n, s)>> ELSE <<>>)

\* The part of housekeeping that is the update process: ageLSPs, then
\* floodTransmit on every circuit. `pick` is the choice of the tick.
AgedState(n, gone) == resync(ageLSPs(node[n], gone))

Housekeeping(n, gone, pick) ==
    LET a == ageLSPs(node[n], gone)
        s == resync(a)
        out == [c \in CircuitsOf(n) |->
                   (IF ResyncDue(a, c) THEN <<sendCSNP(n, a)>> ELSE <<>>)
                   \o FramesOf(n, s, c, pick[c])]
    IN  /\ gone \subseteq {i \in LspId : node[n].db[i] # NONE /\ node[n].db[i].age = "purged"}
        /\ \A c \in CircuitsOf(n) : pick[c] \in TickChoice(n, s, c)
        /\ node' = [node EXCEPT ![n] = transmit(s, pick)]
        /\ net' = Sent(n, net, out)

\* A tick waits until few of the frames sent before are still unread; hellos and
\* replies do not.
InFlight(q) == SelectSeq(q, LAMBDA f : f.kind # "hello")

Room(n) ==
    \A c \in CircuitsOf(n) : \A m \in Neighbors(n, c) :
        Len(InFlight(net[c][m])) < QueueBound

Picks(n, Again, Fail) ==
    [CircuitsOf(n) -> [again : Again, visit : SUBSET LspId, fail : Fail, csnp : BOOLEAN]]

\* A tick that removes no purge and whose writes succeed, and the others.
Tick(n) ==
    /\ Room(n)
    /\ \E pick \in Picks(n, SUBSET LspId, {{}}) : Housekeeping(n, {}, pick)
    /\ UNCHANGED left

\* Every waiting retransmission has come due, and the DIS's CSNP.
FullTick(n) ==
    LET s == AgedState(n, {})
        full(c, visit) == [again |-> {i \in LspId : s.srm[c][i] = "wait"}, visit |-> visit, fail |-> {},
                           csnp |-> isDIS(n, s, c)]
    IN  /\ Room(n)
        /\ \E pick \in {[c \in CircuitsOf(n) |-> full(c, visit[c])] : visit \in [CircuitsOf(n) -> SUBSET LspId]} :
               Housekeeping(n, {}, pick)
        /\ UNCHANGED left

TickRemoving(n) ==
    /\ Spend("gone") /\ Room(n)
    /\ \E gone \in SUBSET LspId \ {{}}, pick \in Picks(n, SUBSET LspId, {{}}) :
           Housekeeping(n, gone, pick)

TickFailing(n) ==
    /\ Spend("loss") /\ Room(n)
    /\ \E pick \in Picks(n, SUBSET LspId, SUBSET LspId) :
           /\ \E c \in CircuitsOf(n) : pick[c].fail # {}
           /\ Housekeeping(n, {}, pick)

----------------------------------------------------------------------------
(* Start, and the faults every kind of circuit has *)

\* NewIsisServer and the start of Serve: no neighbors, our node LSPs at
\* sequence number 1 and flagged on every circuit.
Started(n, b) ==
    LET mine(i) == Owner[i] = n /\ Pseudonode[i] = NONE
        C == CircuitsOf(n)
    IN  [db    |-> [i \in LspId |-> IF mine(i) THEN live(1, b) ELSE NONE],
         wrap  |-> {},
         srm   |-> [c \in C |-> [i \in LspId |-> IF mine(i) THEN "due" ELSE "off"]],
         ssn   |-> [c \in C |-> {}],
         ack   |-> [c \in C |-> [i \in LspId |-> NONE]],
         adj   |-> [c \in C |-> [m \in Node |-> "down"]],
         lan   |-> [c \in C |-> [m \in Node |-> NONE]],
         dis   |-> [c \in C |-> NONE],
         hold  |-> [c \in C |-> FALSE],
         defer |-> [c \in C |-> FALSE]]

\* Every node has started and its hello burst is on the wire.
InitWith(hello) ==
    /\ node \in {f \in [Node -> UNION {{Started(n, b) : b \in Body} : n \in Node}] :
                    \A n \in Node : \E b \in Body : f[n] = Started(n, b)}
    /\ net = [c \in Circuit |-> [m \in Node |->
                 IF m \in Ends[c] THEN Listing({hello[n] : n \in Neighbors(m, c)})
                 ELSE <<>>]]
    /\ left = Budget

\* The process dies, what its sockets held is gone, and it starts again.
CrashWith(n, b, hello) ==
    /\ Spend("crash")
    /\ node' = [node EXCEPT ![n] = Started(n, b)]
    /\ net' = Sent(n, [c \in Circuit |-> [net[c] EXCEPT ![n] = <<>>]],
                   [c \in CircuitsOf(n) |-> <<hello>>])

\* A frame is lost: on the wire, or because the receiver's buffers are full.
Lose(n, c) ==
    /\ Spend("loss") /\ Pending(n, c)
    /\ net' = [net EXCEPT ![c][n] = Tail(@)]
    /\ UNCHANGED node

\* What a node does apart from its hellos.
ReceiveUpdate(n, c) ==
    /\ DropUngated(n, c) \/ processLSP(n, c) \/ ReceiveCSNP(n, c) \/ ReceivePSNP(n, c)
    /\ UNCHANGED left

NewVersion(n, i, b) ==
    /\ node[n].db[i] # NONE => node[n].db[i].seq < SeqBound
    /\ Originate(n, i, b) /\ UNCHANGED left

FromOutside(n, i, seq, b) ==
    /\ seq <= SeqBound
    /\ Learn(n, i, [seq |-> seq, zero |-> FALSE, body |-> b]) /\ UNCHANGED left

UpdateTypeOK(Hello) ==
    /\ node = [n \in Node |-> node[n]]
    /\ \A n \in Node : node[n] \in NodeState(n)
    /\ net \in [Circuit -> [Node -> Seq(Frame \cup Hello)]]
    /\ left \in [FaultKind -> Nat]

----------------------------------------------------------------------------
(* Properties of both kinds of circuit *)

\* handleOwnSystemID and exhaustSeq: a live LSP with n's System ID in the
\* database of n is one n originated, n originates under its own System ID only,
\* and an ID whose sequence numbers ran out is not live at n while it is held down.
OwnLSPs ==
    \A n \in Node, i \in LspId :
        LET e == node[n].db[i] IN
        /\ e # NONE /\ e.own => Owner[i] = n
        /\ e # NONE /\ e.age # "purged" /\ Owner[i] = n => e.own /\ e.age = "live"
        /\ i \in node[n].wrap => Owner[i] = n /\ (e # NONE => e.age = "purged")

\* e2 may follow e1 in one database: a higher version, the purge of the same one,
\* or the same one ageing; only a purge is dropped.
Follows(e1, e2) ==
    IF e2 = NONE THEN e1.age = "purged"
    ELSE \/ e2.seq > e1.seq
         \/ /\ e2.seq = e1.seq /\ (Zero(e1) => Zero(e2))
            /\ ~Zero(e2) => e2.body = e1.body

\* A running node never goes back to an older version of an LSP it holds, never
\* revives a purged one at its sequence number, never changes a live one without
\* advancing it, and forgets only purges: every handler that writes db.entries.
NeverStepsBack ==
    [][left'["crash"] = left["crash"] =>
           \A n \in Node, i \in LspId :
               node[n].db[i] # NONE => Follows(node[n].db[i], node'[n].db[i])]_vars

\* LSPs with the System ID of another router never take more than lsdbEntryLimit
\* entries of a database, whatever mix of copies, replacements, conflicts, purges
\* and expiries came in: they enter in processLSP only, which refuses a new ID at
\* the limit. A router's own IDs are outside the bound: originate does not look at
\* the limit, and an own purge may become a stranger's when handleOwnSystemID or
\* the install path replaces it.
DatabaseBounded ==
    EntryLimit > 0 => \A n \in Node :
        Cardinality({i \in LspId : node[n].db[i] # NONE /\ Owner[i] # n}) <= EntryLimit

\* Both databases say the same of an LSP: equal live copies, or neither is live.
Alike(e, f) ==
    IF e # NONE /\ e.age = "live"
    THEN f # NONE /\ f.age = "live" /\ f.seq = e.seq /\ f.body = e.body
    ELSE f = NONE \/ f.age # "live"
============================================================================
