------------------------ MODULE UpdateProcessProofs ------------------------
(***************************************************************************)
(* What every handler of the update process does to the record of its      *)
(* node, for any constants: it keeps the record's type, the ownership of   *)
(* LSPs (OwnLSPs) and the bound on the database (DatabaseBounded), and it  *)
(* never steps a database entry back (NeverStepsBack).  Handles says where *)
(* entries, cleared flags, acknowledgements and neighbors come from.       *)
(* P2PFloodingProofs and LanFloodingProofs combine these lemmas into       *)
(* invariants of the two specifications.                                   *)
(***************************************************************************)
EXTENDS UpdateProcess, FiniteSetTheorems, TLAPS

\* OwnLSPs for one node.
OwnOK(n, s) ==
    \A i \in LspId :
        /\ s.db[i] # NONE /\ s.db[i].own => Owner[i] = n
        /\ s.db[i] # NONE /\ s.db[i].age # "purged" /\ Owner[i] = n
               => s.db[i].own /\ s.db[i].age = "live"
        /\ i \in s.wrap => Owner[i] = n /\ (s.db[i] # NONE => s.db[i].age = "purged")

\* NeverStepsBack for one node.
Advances(s, t) == \A i \in LspId : s.db[i] # NONE => Follows(s.db[i], t.db[i])

\* DatabaseBounded for one node.
Foreign(n, s) == {i \in LspId : s.db[i] # NONE /\ Owner[i] # n}

Limited(n, s) == EntryLimit > 0 => Cardinality(Foreign(n, s)) <= EntryLimit

\* The facts about a handler that takes node n from s to t.
Sound(n, s, t) ==
    /\ t \in NodeState(n)
    /\ OwnOK(n, s) => OwnOK(n, t)
    /\ OwnOK(n, s) /\ Limited(n, s) => Limited(n, t)
    /\ Advances(s, t)

\* A handler that brings in no LSP of another system keeps the bound.
LEMMA FewerForeign ==
    ASSUME NEW n, NEW s, NEW t, Foreign(n, t) \subseteq Foreign(n, s)
    PROVE  Limited(n, s) => Limited(n, t)
<1>1. IsFiniteSet(Foreign(n, s))
  BY UpdateAssumption, FS_Subset, Zenon DEF Foreign
<1>2. /\ Cardinality(Foreign(n, t)) \in Nat /\ Cardinality(Foreign(n, s)) \in Nat
      /\ Cardinality(Foreign(n, t)) <= Cardinality(Foreign(n, s))
  BY <1>1, FS_Subset, FS_CardinalityType, Zenon
<1> QED BY <1>2, UpdateAssumption DEF Limited

\* One that brings in one LSP below the limit (processLSP) keeps it as well.
LEMMA OneMore ==
    ASSUME NEW n, NEW s, NEW t, NEW i \in LspId, s.db[i] = NONE, ~AtLimit(s, i),
           Foreign(n, t) \subseteq Foreign(n, s) \cup {i}
    PROVE  Limited(n, t)
<1> DEFINE H == {j \in LspId : s.db[j] # NONE}
<1>1. IsFiniteSet(H) /\ i \notin H
  BY UpdateAssumption, FS_Subset, Zenon
<1>2. Foreign(n, t) \subseteq H \cup {i}
  BY Zenon DEF Foreign
<1>3. EntryLimit > 0 => ~(Cardinality(H) >= EntryLimit)
  BY Zenon DEF AtLimit
<1> HIDE DEF H
<1>4. IsFiniteSet(H \cup {i}) /\ Cardinality(H \cup {i}) = Cardinality(H) + 1 /\ Cardinality(H) \in Nat
  BY <1>1, FS_AddElement, FS_CardinalityType, Zenon
<1>5. Cardinality(Foreign(n, t)) \in Nat /\ Cardinality(Foreign(n, t)) <= Cardinality(H \cup {i})
  BY <1>2, <1>4, FS_Subset, FS_CardinalityType, Zenon
<1> QED BY <1>3, <1>4, <1>5, UpdateAssumption DEF Limited

----------------------------------------------------------------------------
(* Flags *)

\* A handler that leaves database and hold-downs alone is sound if it keeps the type.
LEMMA SameDb ==
    ASSUME NEW n, NEW s \in NodeState(n), NEW t \in NodeState(n),
           t.db = s.db, t.wrap = s.wrap
    PROVE  Sound(n, s, t)
<1>1. OwnOK(n, s) => OwnOK(n, t)
  BY Zenon DEF OwnOK
<1>2. Advances(s, t)
  <2> SUFFICES ASSUME NEW i \in LspId, s.db[i] # NONE PROVE Follows(s.db[i], s.db[i])
    BY Zenon DEF Advances
  <2>1. s.db[i].seq \in Int
    BY UpdateAssumption DEF NodeState, Entry, Seqno
  <2> QED BY <2>1, Zenon DEF Follows
<1>3. Limited(n, s) => Limited(n, t)
  BY Zenon DEF Limited, Foreign
<1> QED BY <1>1, <1>2, <1>3, Zenon DEF Sound

\* Every operation on the flags of a circuit keeps the type, the database and the
\* hold-downs.
LEMMA Flags ==
    ASSUME NEW n, NEW s \in NodeState(n), NEW c \in CircuitsOf(n), NEW i \in LspId,
           NEW h \in Header
    PROVE  /\ setSRM(s, c, i) \in NodeState(n)
           /\ setSRM(s, c, i).db = s.db /\ setSRM(s, c, i).wrap = s.wrap
           /\ clearSRM(s, c, i) \in NodeState(n)
           /\ clearSRM(s, c, i).db = s.db /\ clearSRM(s, c, i).wrap = s.wrap
           /\ setSSN(s, c, i) \in NodeState(n)
           /\ setSSN(s, c, i).db = s.db /\ setSSN(s, c, i).wrap = s.wrap
           /\ setSSNAck(s, c, i, h) \in NodeState(n)
           /\ setSSNAck(s, c, i, h).db = s.db /\ setSSNAck(s, c, i, h).wrap = s.wrap
           /\ clearSSN(s, c, i) \in NodeState(n)
           /\ clearSSN(s, c, i).db = s.db /\ clearSSN(s, c, i).wrap = s.wrap
<1>1. setSRM(s, c, i) \in NodeState(n) /\ setSRM(s, c, i).db = s.db /\ setSRM(s, c, i).wrap = s.wrap
  BY Zenon DEF NodeState, setSRM
<1>2. clearSRM(s, c, i) \in NodeState(n) /\ clearSRM(s, c, i).db = s.db
      /\ clearSRM(s, c, i).wrap = s.wrap
  BY Zenon DEF NodeState, clearSRM
<1>3. setSSN(s, c, i) \in NodeState(n) /\ setSSN(s, c, i).db = s.db /\ setSSN(s, c, i).wrap = s.wrap
  BY Zenon DEF NodeState, setSSN
<1>4. setSSNAck(s, c, i, h) \in NodeState(n) /\ setSSNAck(s, c, i, h).db = s.db
      /\ setSSNAck(s, c, i, h).wrap = s.wrap
  BY <1>3, Zenon DEF NodeState, setSSNAck
<1>5. clearSSN(s, c, i) \in NodeState(n) /\ clearSSN(s, c, i).db = s.db
      /\ clearSSN(s, c, i).wrap = s.wrap
  BY Zenon DEF NodeState, clearSSN
<1> QED BY <1>1, <1>2, <1>3, <1>4, <1>5, Zenon

\* floodLSP touches flags only.
LEMMA FloodFlags ==
    ASSUME NEW n, NEW s \in NodeState(n), NEW i \in LspId, NEW except
    PROVE  /\ floodLSP(s, i, except) \in NodeState(n)
           /\ floodLSP(s, i, except).db = s.db /\ floodLSP(s, i, except).wrap = s.wrap
BY Zenon DEF NodeState, floodLSP

\* Writing an entry and flooding it changes that entry of the database.
LEMMA StoreWrites ==
    ASSUME NEW n, NEW s \in NodeState(n), NEW i \in LspId, NEW e \in Entry
    PROVE  /\ store(s, i, e) \in NodeState(n)
           /\ store(s, i, e).db = [s.db EXCEPT ![i] = e] /\ store(s, i, e).wrap = s.wrap
<1> DEFINE t == [s EXCEPT !.db[i] = e]
<1>1. t \in NodeState(n) /\ t.db = [s.db EXCEPT ![i] = e] /\ t.wrap = s.wrap
  BY Zenon DEF NodeState
<1> HIDE DEF t
<1>2. store(s, i, e) = floodLSP(t, i, {})
  BY Zenon DEF store, t
<1> QED BY <1>1, <1>2, FloodFlags

----------------------------------------------------------------------------
(* Writing one entry *)

\* What OwnOK asks of entry e of LSP i at node n.
EntryOK(n, i, e, wrap) ==
    /\ e.own => Owner[i] = n
    /\ e.age # "purged" /\ Owner[i] = n => e.own /\ e.age = "live"
    /\ i \in wrap => Owner[i] = n /\ e.age = "purged"

\* A handler that writes one entry is sound if that entry is.
LEMMA WriteSound ==
    ASSUME NEW n, NEW s \in NodeState(n), NEW t \in NodeState(n),
           NEW i \in LspId, NEW e \in Entry,
           t.db = [s.db EXCEPT ![i] = e], t.wrap \ {i} \subseteq s.wrap,
           OwnOK(n, s) => EntryOK(n, i, e, t.wrap),
           OwnOK(n, s) => s.db[i] # NONE \/ Owner[i] = n \/ ~AtLimit(s, i),
           s.db[i] # NONE => Follows(s.db[i], e)
    PROVE  Sound(n, s, t)
<1> USE UpdateAssumption, NilAssumption
<1>1. t.db[i] = e /\ \A j \in LspId \ {i} : t.db[j] = s.db[j]
  BY Zenon DEF NodeState
<1>2. OwnOK(n, s) => OwnOK(n, t)
  BY <1>1, Zenon DEF OwnOK, EntryOK
<1>3. Advances(s, t)
  <2> SUFFICES ASSUME NEW j \in LspId, j # i, s.db[j] # NONE PROVE Follows(s.db[j], s.db[j])
    BY <1>1, Zenon DEF Advances
  <2>1. s.db[j].seq \in Int
    BY DEF NodeState, Entry, Seqno
  <2> QED BY <2>1, Zenon DEF Follows
<1>4. ASSUME OwnOK(n, s), Limited(n, s) PROVE Limited(n, t)
  <2>1. CASE s.db[i] # NONE \/ Owner[i] = n
    <3>1. Foreign(n, t) \subseteq Foreign(n, s)
      BY <1>1, <2>1, Zenon DEF Foreign
    <3> QED BY <1>4, <3>1, FewerForeign, Zenon
  <2>2. CASE s.db[i] = NONE /\ ~AtLimit(s, i)
    <3>1. Foreign(n, t) \subseteq Foreign(n, s) \cup {i}
      BY <1>1, Zenon DEF Foreign
    <3> QED BY <2>2, <3>1, OneMore, Zenon
  <2> QED BY <1>4, <2>1, <2>2, Zenon
<1> QED BY <1>2, <1>3, <1>4, Zenon DEF Sound

\* The entries the handlers write.
LEMMA PurgeEntry ==
    ASSUME NEW q \in Seqno, NEW own \in BOOLEAN
    PROVE  /\ purge(q, own) \in Entry /\ purge(q, own).seq = q
           /\ purge(q, own).age = "purged" /\ purge(q, own).own = own
BY Zenon DEF Entry, purge

\* The entry originate and reoriginateOwn write is well-formed, live and ours.
LEMMA LiveEntry ==
    ASSUME NEW q \in Seqno, NEW b \in Body \cup {NONE}
    PROVE  /\ live(q, b) \in Entry /\ live(q, b).seq = q
           /\ live(q, b).age = "live" /\ live(q, b).own = TRUE
BY Zenon DEF Entry, live

\* maxLSPSeq is the last sequence number.
LEMMA MaxSeqno == MaxSeq \in Seqno /\ \A q \in Seqno : q \in Nat /\ q <= MaxSeq
BY UpdateAssumption DEF Seqno

\* An entry of a database.
LEMMA Held ==
    ASSUME NEW n, NEW s \in NodeState(n), NEW i \in LspId, s.db[i] # NONE
    PROVE  /\ s.db[i] \in Entry /\ s.db[i].seq \in Seqno /\ s.db[i].own \in BOOLEAN
           /\ s.db[i].body \in Body \cup {NONE}
BY Zenon DEF NodeState, Entry

\* expirePurge on an entry of the database.
LEMMA ExpireSound ==
    ASSUME NEW n, NEW s \in NodeState(n), NEW i \in LspId, s.db[i] # NONE
    PROVE  Sound(n, s, expirePurge(s, i, s.db[i]))
<1> DEFINE e == purge(s.db[i].seq, s.db[i].own)
<1>1. e \in Entry /\ e.seq = s.db[i].seq /\ e.age = "purged" /\ e.own = s.db[i].own
  BY Held, PurgeEntry
<1>2. expirePurge(s, i, s.db[i]) = store(s, i, e)
  BY Zenon DEF expirePurge, expired
<1>3. Follows(s.db[i], e)
  BY <1>1, NilAssumption, Zenon DEF Follows, Zero
<1>4. OwnOK(n, s) => EntryOK(n, i, e, s.wrap)
  BY <1>1, Zenon DEF OwnOK, EntryOK
<1> HIDE DEF e
<1>5. /\ store(s, i, e) \in NodeState(n) /\ store(s, i, e).db = [s.db EXCEPT ![i] = e]
      /\ store(s, i, e).wrap = s.wrap
  BY <1>1, StoreWrites
<1> QED BY <1>1, <1>2, <1>3, <1>4, <1>5, WriteSound, Zenon

\* A purge with sequence number q that supersedes what the database holds.
LEMMA PurgeSound ==
    ASSUME NEW n, NEW s \in NodeState(n), NEW i \in LspId, NEW q \in Seqno,
           NEW own \in BOOLEAN, Owner[i] = n, s.db[i] # NONE => s.db[i].seq <= q
    PROVE  Sound(n, s, store(s, i, purge(q, own)))
<1> DEFINE e == purge(q, own)
<1>1. e \in Entry /\ e.seq = q /\ e.age = "purged" /\ e.own = own
  BY PurgeEntry, Zenon
<1>2. s.db[i] # NONE => Follows(s.db[i], e)
  <2>1. s.db[i] # NONE => s.db[i].seq \in Nat
    BY Held, MaxSeqno, Zenon
  <2> QED BY <1>1, <2>1, MaxSeqno, NilAssumption DEF Follows, Zero
<1>3. EntryOK(n, i, e, s.wrap)
  BY <1>1, Zenon DEF EntryOK
<1> HIDE DEF e
<1>4. /\ store(s, i, e) \in NodeState(n) /\ store(s, i, e).db = [s.db EXCEPT ![i] = e]
      /\ store(s, i, e).wrap = s.wrap
  BY <1>1, StoreWrites
<1>5. Sound(n, s, store(s, i, e))
  BY <1>1, <1>2, <1>3, <1>4, WriteSound, Zenon
<1> QED BY <1>5, Zenon DEF e

\* exhaustSeq on an LSP that is ours.
LEMMA ExhaustSound ==
    ASSUME NEW n, NEW s \in NodeState(n), NEW i \in LspId, OwnOK(n, s) => Owner[i] = n
    PROVE  Sound(n, s, exhaustSeq(s, i))
<1> DEFINE e == purge(MaxSeq, TRUE)
           r == [s EXCEPT !.wrap = @ \cup {i}]
<1>1. e \in Entry /\ e.seq = MaxSeq /\ e.age = "purged" /\ e.own = TRUE
  BY PurgeEntry, MaxSeqno, Zenon
<1>2. r \in NodeState(n) /\ r.db = s.db /\ r.wrap = s.wrap \cup {i}
  BY Zenon DEF NodeState
<1>3. exhaustSeq(s, i) = store(r, i, e)
  BY Zenon DEF exhaustSeq
<1> HIDE DEF e
<1>4. s.db[i] # NONE => Follows(s.db[i], e)
  <2>1. s.db[i] # NONE => s.db[i].seq \in Nat /\ s.db[i].seq <= MaxSeq
    BY Held, MaxSeqno, Zenon
  <2> QED BY <1>1, <2>1, MaxSeqno, NilAssumption DEF Follows, Zero
<1>5. OwnOK(n, s) => EntryOK(n, i, e, s.wrap \cup {i})
  BY <1>1, Zenon DEF EntryOK
<1> HIDE DEF r
<1>6. /\ store(r, i, e) \in NodeState(n) /\ store(r, i, e).db = [s.db EXCEPT ![i] = e]
      /\ store(r, i, e).wrap = s.wrap \cup {i}
  BY <1>1, <1>2, StoreWrites
<1> QED BY SMTT(60), <1>1, <1>3, <1>4, <1>5, <1>6, WriteSound, SMTT(30)

\* A new live version of an LSP that is ours and not held down.
LEMMA LiveSound ==
    ASSUME NEW n, NEW s \in NodeState(n), NEW i \in LspId, NEW q \in Seqno,
           NEW b \in Body \cup {NONE},
           OwnOK(n, s) => Owner[i] = n /\ i \notin s.wrap,
           s.db[i] # NONE => s.db[i].seq < q
    PROVE  Sound(n, s, store(s, i, live(q, b)))
<1> DEFINE e == live(q, b)
<1>1. e \in Entry /\ e.seq = q /\ e.age = "live" /\ e.own = TRUE
  BY LiveEntry, Zenon
<1>2. s.db[i] # NONE => Follows(s.db[i], e)
  BY <1>1, NilAssumption, Zenon DEF Follows
<1>3. OwnOK(n, s) => EntryOK(n, i, e, s.wrap)
  BY <1>1, Zenon DEF EntryOK
<1> HIDE DEF e
<1>4. /\ store(s, i, e) \in NodeState(n) /\ store(s, i, e).db = [s.db EXCEPT ![i] = e]
      /\ store(s, i, e).wrap = s.wrap
  BY <1>1, StoreWrites
<1>5. Sound(n, s, store(s, i, e))
  BY <1>1, <1>2, <1>3, <1>4, WriteSound, Zenon
<1> QED BY <1>5, Zenon DEF e

\* The operations on LSPs of our own.
LEMMA ReoriginateSound ==
    ASSUME NEW n, NEW s \in NodeState(n), NEW i \in LspId, NEW seen \in Seqno,
           s.db[i] # NONE, s.db[i].seq <= seen, s.db[i].own, s.db[i].age # "purged"
    PROVE  Sound(n, s, reoriginateOwn(s, i, seen))
<1>1. OwnOK(n, s) => Owner[i] = n /\ i \notin s.wrap
  BY Zenon DEF OwnOK
<1>2. CASE seen = MaxSeq
  BY <1>1, <1>2, ExhaustSound, Zenon DEF reoriginateOwn
<1>3. CASE seen # MaxSeq
  <2>1. seen + 1 \in Seqno /\ s.db[i].seq < seen + 1 /\ s.db[i].body \in Body \cup {NONE}
    BY <1>3, Held, UpdateAssumption DEF Seqno
  <2>2. Sound(n, s, store(s, i, live(seen + 1, s.db[i].body)))
    BY <1>1, <2>1, LiveSound, Zenon
  <2> QED BY <1>3, <2>2, Zenon DEF reoriginateOwn
<1> QED BY <1>2, <1>3, Zenon

\* purgeOwn purges at the next sequence number, or exhausts the ID at the last.
LEMMA PurgeOwnSound ==
    ASSUME NEW n, NEW s \in NodeState(n), NEW i \in LspId, s.db[i] # NONE, Owner[i] = n
    PROVE  Sound(n, s, purgeOwn(s, i))
<1>1. CASE s.db[i].seq = MaxSeq
  BY <1>1, ExhaustSound, Zenon DEF purgeOwn
<1>2. CASE s.db[i].seq # MaxSeq
  <2>1. s.db[i].seq + 1 \in Seqno /\ s.db[i].seq <= s.db[i].seq + 1 /\ TRUE \in BOOLEAN
    BY <1>2, Held, UpdateAssumption DEF Seqno
  <2>2. Sound(n, s, store(s, i, purge(s.db[i].seq + 1, TRUE)))
    BY <2>1, PurgeSound, Zenon
  <2> QED BY <1>2, <2>2, Zenon DEF purgeOwn
<1> QED BY <1>1, <1>2, Zenon

\* originate starts at 1, advances by one, or exhausts the ID.
LEMMA OriginateSound ==
    ASSUME NEW n, NEW s \in NodeState(n), NEW i \in LspId, NEW b \in Body,
           Owner[i] = n, i \notin s.wrap
    PROVE  Sound(n, s, originate(s, i, b))
<1>1. CASE s.db[i] = NONE
  <2>1. 1 \in Seqno
    BY UpdateAssumption DEF Seqno
  <2>2. Sound(n, s, store(s, i, live(1, b)))
    BY <1>1, <2>1, LiveSound, Zenon
  <2> QED BY <1>1, <2>2, Zenon DEF originate
<1>2. CASE s.db[i] # NONE /\ s.db[i].seq = MaxSeq
  BY <1>2, ExhaustSound, Zenon DEF originate
<1>3. CASE s.db[i] # NONE /\ s.db[i].seq # MaxSeq
  <2>1. s.db[i].seq + 1 \in Seqno /\ s.db[i].seq < s.db[i].seq + 1
    BY <1>3, Held, UpdateAssumption DEF Seqno
  <2>2. Sound(n, s, store(s, i, live(s.db[i].seq + 1, b)))
    BY <2>1, LiveSound, Zenon
  <2> QED BY <1>3, <2>2, Zenon DEF originate
<1> QED BY <1>1, <1>2, <1>3, Zenon

----------------------------------------------------------------------------
(* Receiving *)

\* A copy that may be stored: what processLSP's last branch writes.
LEMMA InstallSound ==
    ASSUME NEW n, NEW s \in NodeState(n), NEW c \in CircuitsOf(n), NEW i \in LspId,
           NEW h \in Header, h.seq \in Seqno, newer(h, s.db[i]), ~AtLimit(s, i), Owner[i] = n => h.zero
    PROVE  Sound(n, s, install(s, c, i, h))
<1> DEFINE e == [seq |-> h.seq, age |-> IF h.zero THEN "purged" ELSE "live",
                 body |-> h.body, own |-> FALSE]
           r == [s EXCEPT !.db[i] = e]
           f == floodLSP(r, i, {c})
           g == clearSRM(f, c, i)
<1>1. /\ e \in Entry /\ e.seq = h.seq /\ e.own = FALSE
      /\ h.zero => e.age = "purged"
      /\ ~h.zero => e.age = "live"
  BY Zenon DEF Entry, Header
<1>2. s.db[i] # NONE => Follows(s.db[i], e)
  <2>1. s.db[i] # NONE => s.db[i].seq \in Nat
    BY Held, MaxSeqno, Zenon
  <2> QED BY <1>1, <2>1, MaxSeqno, NilAssumption, Zenon DEF Follows, Zero, newer
<1>3. OwnOK(n, s) => EntryOK(n, i, e, s.wrap)
  BY <1>1, Zenon DEF EntryOK, OwnOK
<1> HIDE DEF e
<1>4. r \in NodeState(n) /\ r.db = [s.db EXCEPT ![i] = e] /\ r.wrap = s.wrap
  BY <1>1, Zenon DEF NodeState
<1> HIDE DEF r
<1>5. f \in NodeState(n) /\ f.db = r.db /\ f.wrap = r.wrap
  BY <1>4, FloodFlags, Zenon
<1> HIDE DEF f
<1>6. g \in NodeState(n) /\ g.db = r.db /\ g.wrap = r.wrap
  BY <1>5, Flags, Zenon
<1> HIDE DEF g
<1>7. /\ setSSN(g, c, i) \in NodeState(n)
      /\ setSSN(g, c, i).db = r.db /\ setSSN(g, c, i).wrap = r.wrap
  BY <1>6, Flags, Zenon
<1>8. install(s, c, i, h) \in {g, setSSN(g, c, i)}
  BY Zenon DEF install, g, f, r, e
<1>9. /\ install(s, c, i, h) \in NodeState(n) /\ install(s, c, i, h).wrap = s.wrap
      /\ install(s, c, i, h).db = [s.db EXCEPT ![i] = e]
  BY <1>4, <1>6, <1>7, <1>8, Zenon
<1> QED BY <1>1, <1>2, <1>3, <1>9, WriteSound, Zenon

\* The frames under way, given the hellos of the module that extends UpdateProcess.
Hellos(Hello) == \A f \in Hello : f.kind = "hello"

\* The frame a handler reads is a frame, its parts are what the handlers expect,
\* and consuming it leaves well-formed queues.
LEMMA HeadFrame ==
    ASSUME NEW Hello, Hellos(Hello), UpdateTypeOK(Hello), NEW n \in Node, NEW c \in Circuit,
           Pending(n, c), NEW f, f = Head(net[c][n])
    PROVE  /\ c \in CircuitsOf(n) /\ node[n] \in NodeState(n)
           /\ f \in Frame \cup Hello
           /\ f.kind = "hello" => f \in Hello
           /\ f.kind = "lsp" => f.id \in LspId /\ f.hdr \in Header /\ f.hdr.seq \in Seqno
           /\ f.kind \in {"csnp", "psnp"} => f.list \in [LspId -> Header \cup {NONE}]
           /\ [net EXCEPT ![c][n] = Tail(@)] \in [Circuit -> [Node -> Seq(Frame \cup Hello)]]
<1>1. c \in CircuitsOf(n) /\ node[n] \in NodeState(n) /\ net[c][n] # <<>>
  BY Zenon DEF Pending, CircuitsOf, UpdateTypeOK
<1>2. net[c][n] \in Seq(Frame \cup Hello) /\ net \in [Circuit -> [Node -> Seq(Frame \cup Hello)]]
  BY Zenon DEF UpdateTypeOK
<1>3. f \in Frame \cup Hello /\ Tail(net[c][n]) \in Seq(Frame \cup Hello)
  BY <1>1, <1>2
<1>4. f.kind = "hello" => f \in Hello
  BY <1>3, Zenon DEF Frame
<1>5. f.kind = "lsp" => f.id \in LspId /\ f.hdr \in Header /\ f.hdr.seq \in Seqno
  <2> SUFFICES ASSUME f.kind = "lsp"
               PROVE  f.id \in LspId /\ f.hdr \in Header /\ f.hdr.seq \in Seqno
    BY Zenon
  <2>1. f \in [kind : {"lsp"}, src : Node, id : LspId, hdr : {h \in Header : h.seq > 0}]
    BY <1>3, Zenon DEF Frame, Hellos
  <2> QED BY <2>1, UpdateAssumption DEF Header, Seqno
<1>6. f.kind \in {"csnp", "psnp"} => f.list \in [LspId -> Header \cup {NONE}]
  BY <1>3, Zenon DEF Frame, Hellos
<1>7. [net EXCEPT ![c][n] = Tail(@)] \in [Circuit -> [Node -> Seq(Frame \cup Hello)]]
  BY <1>2, <1>3, Zenon
<1> QED BY <1>1, <1>3, <1>4, <1>5, <1>6, <1>7, Zenon

\* Every branch of processLSP leaves the node in a state it may go to.
LEMMA LSPSound ==
    ASSUME NEW n, NEW s \in NodeState(n), NEW c \in CircuitsOf(n), NEW i \in LspId,
           NEW h \in Header, h.seq \in Seqno,
           \/ HoldNewer(n, c, i, h, s) \/ HoldPurge(n, c, i, h, s)
           \/ ConflictForeign(n, c, i, h, s) \/ ConflictOwn(n, c, i, h, s)
           \/ Duplicate(n, c, i, h, s) \/ UnknownPurge(n, c, i, h, s)
           \/ OverLimit(n, c, i, h, s) \/ Reclaim(n, c, i, h, s)
           \/ Disown(n, c, i, h, s) \/ Install(n, c, i, h, s)
    PROVE  \E t : Sound(n, s, t) /\ Handled(n, c, t)
<1>0. s.db[i] # NONE => s.db[i].seq \in Nat
  BY Held, MaxSeqno, Zenon
<1>1. CASE HoldNewer(n, c, i, h, s) \/ HoldPurge(n, c, i, h, s)
  <2> DEFINE r == setSRM(s, c, i)
             t == clearSSN(r, c, i)
  <2>1. r \in NodeState(n) /\ r.db = s.db /\ r.wrap = s.wrap
    BY Flags
  <2> HIDE DEF r
  <2>2. t \in NodeState(n) /\ t.db = s.db /\ t.wrap = s.wrap
    BY <2>1, Flags
  <2>3. Handled(n, c, t)
    BY <1>1, Zenon DEF HoldNewer, HoldPurge, r
  <2> HIDE DEF t
  <2> QED BY <2>2, <2>3, SameDb, Zenon
<1>2. CASE ConflictForeign(n, c, i, h, s)
  BY <1>2, ExpireSound, Zenon DEF ConflictForeign, Conflict
<1>3. CASE ConflictOwn(n, c, i, h, s)
  <2>1. /\ s.db[i] # NONE /\ s.db[i].seq <= h.seq /\ s.db[i].own /\ s.db[i].age # "purged"
        /\ Handled(n, c, reoriginateOwn(s, i, h.seq))
    BY <1>3, <1>0, MaxSeqno DEF ConflictOwn, Conflict, Zero
  <2> QED BY <2>1, ReoriginateSound, Zenon
<1>4. CASE Duplicate(n, c, i, h, s)
  <2>1. PICK t \in {s, setSSN(s, c, i)} : Handled(n, c, t)
    BY <1>4, Zenon DEF Duplicate
  <2> QED BY <2>1, Flags, SameDb, SMTT(30)
<1>5. CASE UnknownPurge(n, c, i, h, s)
  <2>1. PICK t \in {s, setSSNAck(s, c, i, h)} : Handled(n, c, t)
    BY <1>5, Zenon DEF UnknownPurge
  <2> QED BY <2>1, Flags, SameDb
<1>6. CASE OverLimit(n, c, i, h, s)
  BY <1>6, SameDb, SMTT(30) DEF OverLimit
<1>7. CASE Reclaim(n, c, i, h, s)
  <2>1. /\ s.db[i] # NONE /\ s.db[i].seq <= h.seq /\ s.db[i].own /\ s.db[i].age # "purged"
        /\ Handled(n, c, reoriginateOwn(s, i, h.seq))
    BY <1>7, <1>0, MaxSeqno, SMTT(30) DEF Reclaim, Accepted, newer, Originating
  <2> QED BY <2>1, ReoriginateSound, Zenon
<1>8. CASE Disown(n, c, i, h, s)
  <2>1. Owner[i] = n /\ newer(h, s.db[i]) /\ Handled(n, c, store(s, i, purge(h.seq, FALSE)))
    BY <1>8, Zenon DEF Disown, Accepted
  <2>2. s.db[i] # NONE => s.db[i].seq <= h.seq
    BY <1>0, <2>1, MaxSeqno DEF newer
  <2>3. FALSE \in BOOLEAN
    BY SMTT(30)
  <2>4. Sound(n, s, store(s, i, purge(h.seq, FALSE)))
    BY <2>1, <2>2, <2>3, PurgeSound, Zenon
  <2> QED BY <2>1, <2>4, Zenon
<1>9. CASE Install(n, c, i, h, s)
  BY <1>9, InstallSound, Zenon DEF Install, Accepted
<1> QED BY <1>1, <1>2, <1>3, <1>4, <1>5, <1>6, <1>7, <1>8, <1>9, SMTT(30)

\* Replacing the SRM flags of a circuit keeps the type, the database and the
\* hold-downs.
LEMMA NewSRM ==
    ASSUME NEW n, NEW s \in NodeState(n), NEW c \in CircuitsOf(n),
           NEW F \in [LspId -> {"off", "due", "wait"}]
    PROVE  /\ [s EXCEPT !.srm[c] = F] \in NodeState(n)
           /\ [s EXCEPT !.srm[c] = F].db = s.db /\ [s EXCEPT !.srm[c] = F].wrap = s.wrap
BY Zenon DEF NodeState

\* processCSNP and processPSNP touch flags only.
LEMMA SNPSound ==
    ASSUME NEW n, NEW s \in NodeState(n), NEW c \in CircuitsOf(n),
           NEW list \in [LspId -> Header \cup {NONE}]
    PROVE  Sound(n, s, processCSNP(s, c, list)) /\ Sound(n, s, processPSNP(n, s, c, list))
<1>1. /\ processCSNP(s, c, list) \in NodeState(n)
      /\ processCSNP(s, c, list).db = s.db /\ processCSNP(s, c, list).wrap = s.wrap
  <2> DEFINE Listed  == {i \in LspId : list[i] # NONE}
             Request == {i \in Listed : newer(list[i], s.db[i])}
             Resend  == {i \in {j \in LspId : s.db[j] # NONE} : i \in Listed =>
                            s.db[i].seq > list[i].seq \/ Conflict(list[i], s.db[i])}
             Settled == Listed \ (Request \cup Resend)
             F == [i \in LspId |-> IF i \in Resend THEN "due"
                                   ELSE IF i \in Settled THEN "off" ELSE s.srm[c][i]]
             r == [s EXCEPT !.ssn[c] = @ \cup Request]
  <2>1. Request \subseteq LspId
    BY Zenon
  <2>2. F \in [LspId -> {"off", "due", "wait"}]
    <3>1. s.srm[c] \in [LspId -> {"off", "due", "wait"}]
      BY Zenon DEF NodeState
    <3> HIDE DEF Resend, Settled
    <3> QED BY <3>1, Zenon
  <2>3. processCSNP(s, c, list) = [r EXCEPT !.srm[c] = F]
    <3>1. r.srm[c] = s.srm[c]
      BY Zenon DEF NodeState
    <3> QED BY <3>1, Zenon DEF processCSNP
  <2> HIDE DEF F, Request
  <2>4. r \in NodeState(n) /\ r.db = s.db /\ r.wrap = s.wrap
    BY <2>1, Zenon DEF NodeState
  <2> HIDE DEF r
  <2> QED BY <2>2, <2>3, <2>4, NewSRM
<1>2. /\ processPSNP(n, s, c, list) \in NodeState(n)
      /\ processPSNP(n, s, c, list).db = s.db /\ processPSNP(n, s, c, list).wrap = s.wrap
  <2>1. PICK F \in [LspId -> {"off", "due", "wait"}] :
            processPSNP(n, s, c, list) = [s EXCEPT !.srm[c] = F]
    <3> DEFINE Both == {i \in LspId : list[i] # NONE /\ s.db[i] # NONE}
               Acked == {i \in Both : c \in P2P /\ list[i].seq >= s.db[i].seq}
               Resend == {i \in Both : isDIS(n, s, c) /\
                              (s.db[i].seq > list[i].seq \/ Conflict(list[i], s.db[i]))}
               F == [i \in LspId |-> IF i \in Acked THEN "off"
                                     ELSE IF i \in Resend THEN "due" ELSE s.srm[c][i]]
    <3>1. processPSNP(n, s, c, list) = [s EXCEPT !.srm[c] = F]
      BY Zenon DEF processPSNP
    <3>2. s.srm[c] \in [LspId -> {"off", "due", "wait"}]
      BY Zenon DEF NodeState
    <3> HIDE DEF Acked, Resend
    <3>3. F \in [LspId -> {"off", "due", "wait"}]
      BY <3>2, Zenon
    <3> HIDE DEF F
    <3> QED BY <3>1, <3>3, Zenon
  <2> QED BY <2>1, NewSRM
<1> QED BY <1>1, <1>2, SameDb, Zenon

\* A frame of the update process is read: the node moves soundly and the frame
\* is consumed.
LEMMA ReceiveSound ==
    ASSUME NEW Hello, Hellos(Hello), UpdateTypeOK(Hello), NEW n \in Node, NEW c \in Circuit,
           ReceiveUpdate(n, c)
    PROVE  /\ \E t : Sound(n, node[n], t) /\ node' = [node EXCEPT ![n] = t]
           /\ net' \in [Circuit -> [Node -> Seq(Frame \cup Hello)]]
           /\ left' = left
<1> DEFINE f == Head(net[c][n])
<1>1. Pending(n, c)
  BY Zenon DEF ReceiveUpdate, DropUngated, processLSP, ReceiveCSNP, ReceivePSNP, Arrives
<1>2. /\ c \in CircuitsOf(n) /\ node[n] \in NodeState(n)
      /\ f.kind = "lsp" => f.id \in LspId /\ f.hdr \in Header /\ f.hdr.seq \in Seqno
      /\ f.kind \in {"csnp", "psnp"} => f.list \in [LspId -> Header \cup {NONE}]
      /\ [net EXCEPT ![c][n] = Tail(@)] \in [Circuit -> [Node -> Seq(Frame \cup Hello)]]
  BY <1>1, HeadFrame, Zenon
<1>3. \E t : Sound(n, node[n], t) /\ Handled(n, c, t)
  <2>1. CASE DropUngated(n, c)
    BY <1>2, <2>1, SameDb, Zenon DEF DropUngated
  <2>2. CASE processLSP(n, c)
    <3>1. f.kind = "lsp"
      BY <2>2, Zenon DEF processLSP, Arrives
    <3> QED BY <1>2, <2>2, <3>1, LSPSound, Zenon DEF processLSP
  <2>3. CASE ReceiveCSNP(n, c)
    BY <1>2, <2>3, SNPSound, Zenon DEF ReceiveCSNP, Arrives
  <2>4. CASE ReceivePSNP(n, c)
    BY <1>2, <2>4, SNPSound, Zenon DEF ReceivePSNP, Arrives
  <2> QED BY <2>1, <2>2, <2>3, <2>4, Zenon DEF ReceiveUpdate
<1>4. left' = left
  BY SMTT(30) DEF ReceiveUpdate
<1> QED BY <1>2, <1>3, <1>4, Zenon DEF Handled

----------------------------------------------------------------------------
(* The housekeeping tick *)

\* A sound step followed by changes to flags alone is sound.
LEMMA SoundThenFlags ==
    ASSUME NEW n, NEW s, NEW t, Sound(n, s, t), NEW u \in NodeState(n),
           u.db = t.db, u.wrap = t.wrap
    PROVE  Sound(n, s, u)
BY DEF Sound, OwnOK, Advances, Limited, Foreign

\* ageLSPs turns expired foreign LSPs into purges and drops old purges.
LEMMA AgeSound ==
    ASSUME NEW n, NEW s \in NodeState(n), NEW gone,
           gone \subseteq {i \in LspId : s.db[i] # NONE /\ s.db[i].age = "purged"}
    PROVE  Sound(n, s, ageLSPs(s, gone))
<1> DEFINE Old == {i \in LspId : s.db[i] # NONE /\ s.db[i].age = "expired" /\ ~s.db[i].own}
           D == [i \in LspId |-> IF i \in Old THEN expired(s.db[i])
                                 ELSE IF i \in gone THEN NONE ELSE s.db[i]]
           t == ageLSPs(s, gone)
<1>1. \A i \in LspId : s.db[i] # NONE => /\ expired(s.db[i]) \in Entry
                                         /\ expired(s.db[i]).seq = s.db[i].seq
                                         /\ expired(s.db[i]).age = "purged"
                                         /\ expired(s.db[i]).own = s.db[i].own
  BY Held, PurgeEntry DEF expired
<1>2. D \in [LspId -> Entry \cup {NONE}]
  BY <1>1, Zenon DEF NodeState
<1>3. t \in NodeState(n) /\ t.db = D /\ t.wrap = s.wrap
  <2> DEFINE R == [c \in DOMAIN s.srm |-> [i \in LspId |-> IF i \in Old THEN "due" ELSE s.srm[c][i]]]
             S == [c \in DOMAIN s.ssn |-> s.ssn[c] \ Old]
             A == [c \in DOMAIN s.ack |-> [i \in LspId |-> IF i \in Old THEN NONE ELSE s.ack[c][i]]]
  <2>1. t = [s EXCEPT !.db = D, !.srm = R, !.ssn = S, !.ack = A]
    BY Zenon DEF NodeState, ageLSPs
  <2> HIDE DEF D, Old, t
  <2>2. /\ R \in [CircuitsOf(n) -> [LspId -> {"off", "due", "wait"}]]
        /\ S \in [CircuitsOf(n) -> SUBSET LspId]
        /\ A \in [CircuitsOf(n) -> [LspId -> Header \cup {NONE}]]
    BY DEF NodeState
  <2> HIDE DEF R, S, A
  <2> QED BY <1>2, <2>1, <2>2, Zenon DEF NodeState
<1>4. \A i \in LspId : s.db[i] # NONE => s.db[i].seq \in Nat
  BY Held, MaxSeqno, Zenon
<1>5. \A i \in LspId : \/ D[i] = s.db[i]
                       \/ D[i] = NONE /\ s.db[i].age = "purged"
                       \/ i \in Old /\ D[i] = expired(s.db[i])
  BY Zenon
<1>6. Advances(s, t)
  <2> HIDE DEF D, t
  <2> SUFFICES ASSUME NEW i \in LspId, s.db[i] # NONE PROVE Follows(s.db[i], D[i])
    BY <1>3, Zenon DEF Advances
  <2> QED BY <1>1, <1>4, <1>5, NilAssumption DEF Follows, Zero
<1>7. OwnOK(n, s) => OwnOK(n, t)
  <2> HIDE DEF D, t
  <2> QED BY <1>1, <1>3, <1>5, NilAssumption DEF OwnOK
<1>8. Limited(n, s) => Limited(n, t)
  <2> HIDE DEF D, t
  <2>1. Foreign(n, t) \subseteq Foreign(n, s)
    BY <1>3, <1>5, NilAssumption, SMTT(30) DEF Foreign
  <2> QED BY <2>1, FewerForeign, Zenon
<1> QED BY <1>3, <1>6, <1>7, <1>8, Zenon DEF Sound

\* The deferred synchronizations at the start of floodTransmit change flags
\* alone.
LEMMA ResyncFlags ==
    ASSUME NEW n, NEW s \in NodeState(n)
    PROVE  resync(s) \in NodeState(n) /\ resync(s).db = s.db /\ resync(s).wrap = s.wrap
<1>1. \A c \in CircuitsOf(n) : flagAll(s, s.srm[c]) \in [LspId -> {"off", "due", "wait"}]
  BY DEF NodeState, flagAll
<1>2. \A c \in CircuitsOf(n) : ResyncDue(s, c) \in BOOLEAN
  BY Zenon DEF ResyncDue, NodeState
<1> QED BY <1>1, <1>2, Zenon DEF NodeState, resync

\* transmitSRM and transmitPSNP change flags alone.
LEMMA TransmitFlags ==
    ASSUME NEW n, NEW s \in NodeState(n), NEW pick
    PROVE  /\ transmit(s, pick) \in NodeState(n)
           /\ transmit(s, pick).db = s.db /\ transmit(s, pick).wrap = s.wrap
<1> DEFINE R == [c \in DOMAIN s.srm |-> transmitSRM(s, c, pick[c])]
           S == [c \in DOMAIN s.ssn |-> IF floodReady(s, c) THEN {} ELSE s.ssn[c]]
           A == [c \in DOMAIN s.ack |-> IF floodReady(s, c) THEN [i \in LspId |-> NONE] ELSE s.ack[c]]
<1>1. transmit(s, pick) = [s EXCEPT !.srm = R, !.ssn = S, !.ack = A]
  BY Zenon DEF NodeState, transmit
<1>2. \A c \in CircuitsOf(n) : transmitSRM(s, c, pick[c]) \in [LspId -> {"off", "due", "wait"}]
  <2> SUFFICES ASSUME NEW c \in CircuitsOf(n), NEW i \in LspId
               PROVE  transmitSRM(s, c, pick[c])[i] \in {"off", "due", "wait"}
    BY Zenon DEF transmitSRM
  <2>1. s.srm[c][i] \in {"off", "due", "wait"}
    BY DEF NodeState
  <2> QED BY <2>1, Zenon DEF transmitSRM
<1>3. /\ R \in [CircuitsOf(n) -> [LspId -> {"off", "due", "wait"}]]
      /\ S \in [CircuitsOf(n) -> SUBSET LspId]
      /\ A \in [CircuitsOf(n) -> [LspId -> Header \cup {NONE}]]
  BY <1>2, Zenon DEF NodeState
<1> HIDE DEF R, S, A
<1> QED BY <1>1, <1>3, Zenon DEF NodeState

\* What goes on the wire has the type of a frame.
LEMMA WireHeader ==
    ASSUME NEW e \in Entry
    PROVE  wire(e) \in Header /\ wire(e).seq > 0
BY UpdateAssumption DEF wire, Header, Entry, Seqno, Zero

\* sendCSNP and transmitPSNP build well-formed frames from the database and
\* ssnAck.
LEMMA SNPFrames ==
    ASSUME NEW n \in Node, NEW s \in NodeState(n), NEW c \in CircuitsOf(n)
    PROVE  sendCSNP(n, s) \in Frame /\ psnpFrame(n, s, c) \in Frame
<1>1. \A i \in LspId : s.db[i] # NONE => wire(s.db[i]) \in Header
  BY Held, WireHeader, Zenon
<1>2. [i \in LspId |-> IF s.db[i] = NONE THEN NONE ELSE wire(s.db[i])]
        \in [LspId -> Header \cup {NONE}]
  BY <1>1, Zenon
<1>3. \A i \in LspId : psnpEntry(s, c, i) \in Header
  <2>1. [seq |-> 0, zero |-> TRUE, body |-> NONE] \in Header
    BY UpdateAssumption DEF Header
  <2>2. \A i \in LspId : s.ack[c][i] \in Header \cup {NONE}
    BY DEF NodeState
  <2> QED BY <1>1, <2>1, <2>2, Zenon DEF psnpEntry
<1>4. [i \in LspId |-> IF i \in s.ssn[c] THEN psnpEntry(s, c, i) ELSE NONE]
        \in [LspId -> Header \cup {NONE}]
  BY <1>3, Zenon
<1> QED BY <1>2, <1>4, Zenon DEF sendCSNP, psnpFrame, snpFrame, Frame

\* Listing a finite set (the LSPs of one burst) yields a sequence over it.
LEMMA ListSet ==
    ASSUME NEW S, IsFiniteSet(S)
    PROVE  Listing(S) \in Seq(S)
<1>1. Cardinality(S) \in Nat
  BY FS_CardinalityType, Zenon
<1>2. PICK f : f \in Bijection(1..Cardinality(S), S)
  BY FS_CardinalityType, Zenon DEF ExistsBijection
<1>3. Listing(S) \in Bijection(1..Cardinality(S), S)
  BY <1>2, Zenon DEF Listing
<1> QED BY <1>1, <1>3 DEF Bijection, Injection

\* What floodTransmit sends on one circuit in one tick is a sequence of frames.
LEMMA TickFrames ==
    ASSUME NEW n \in Node, NEW s \in NodeState(n), NEW c \in CircuitsOf(n),
           NEW p, p.visit \subseteq LspId
    PROVE  FramesOf(n, s, c, p) \in Seq(Frame)
<1> DEFINE V == Present(s, p.visit) \ p.fail
           lsps == Listing(V)
           L == [k \in 1..Len(lsps) |-> lspFrame(n, lsps[k], s.db[lsps[k]])]
           P == IF s.ssn[c] = {} THEN <<>> ELSE <<psnpFrame(n, s, c)>>
           C == IF p.csnp THEN <<sendCSNP(n, s)>> ELSE <<>>
<1>1. V \subseteq LspId /\ \A i \in V : s.db[i] # NONE
  BY Zenon DEF Present
<1> HIDE DEF V
<1>2. lsps \in Seq(V)
  BY <1>1, UpdateAssumption, FS_Subset, ListSet, Zenon
<1> HIDE DEF lsps
<1>3. \A i \in V : lspFrame(n, i, s.db[i]) \in Frame
  <2> SUFFICES ASSUME NEW i \in V PROVE lspFrame(n, i, s.db[i]) \in Frame
    BY Zenon
  <2>1. wire(s.db[i]) \in {h \in Header : h.seq > 0}
    BY <1>1, Held, WireHeader, Zenon
  <2> QED BY <1>1, <2>1, Zenon DEF lspFrame, Frame
<1>4. L \in Seq(Frame)
  BY <1>2, <1>3
<1>5. P \in Seq(Frame) /\ C \in Seq(Frame)
  BY SNPFrames
<1>6. FramesOf(n, s, c, p) = IF ~floodReady(s, c) THEN <<>> ELSE L \o P \o C
  BY Zenon DEF FramesOf, lsps, V
<1> HIDE DEF L, P, C
<1> QED BY <1>4, <1>5, <1>6

\* The queues of a network whose frames are in F.
Queues(F) == [Circuit -> [Node -> Seq(F)]]

\* Sending keeps the queues well-formed.
LEMMA SentQueues ==
    ASSUME NEW F, NEW n \in Node, NEW q \in Queues(F), NEW out \in [CircuitsOf(n) -> Seq(F)]
    PROVE  Sent(n, q, out) \in Queues(F)
BY DEF Queues, Sent

\* So does sending on one circuit.
LEMMA OnlyQueues ==
    ASSUME NEW n \in Node, NEW c, NEW F, NEW frames \in Seq(F)
    PROVE  Only(n, c, frames) \in [CircuitsOf(n) -> Seq(F)]
BY SMTT(30) DEF Only

\* Node n moves soundly and the other nodes stay.
Moves(n) == \E t : Sound(n, node[n], t) /\ node' = [node EXCEPT ![n] = t]

\* One tick: the node moves soundly and sends frames.
LEMMA HousekeepingSound ==
    ASSUME NEW Hello, UpdateTypeOK(Hello), NEW n \in Node, NEW gone, NEW pick,
           Housekeeping(n, gone, pick)
    PROVE  Moves(n) /\ net' \in Queues(Frame \cup Hello)
<1> DEFINE a == ageLSPs(node[n], gone)
           s == resync(a)
           R == [c \in CircuitsOf(n) |-> IF ResyncDue(a, c) THEN <<sendCSNP(n, a)>> ELSE <<>>]
           T == [c \in CircuitsOf(n) |-> FramesOf(n, s, c, pick[c])]
           out == [c \in CircuitsOf(n) |-> R[c] \o T[c]]
<1>1. /\ gone \subseteq {i \in LspId : node[n].db[i] # NONE /\ node[n].db[i].age = "purged"}
      /\ \A c \in CircuitsOf(n) : pick[c] \in TickChoice(n, s, c)
      /\ node' = [node EXCEPT ![n] = transmit(s, pick)]
      /\ net' = Sent(n, net, out)
  BY Zenon DEF Housekeeping
<1>2. node[n] \in NodeState(n) /\ net \in Queues(Frame \cup Hello)
  BY Zenon DEF UpdateTypeOK, Queues
<1>3. Sound(n, node[n], a) /\ a \in NodeState(n)
  BY <1>1, <1>2, AgeSound, Zenon DEF Sound
<1> HIDE DEF a
<1>4. s \in NodeState(n) /\ s.db = a.db /\ s.wrap = a.wrap
  BY <1>3, ResyncFlags, SMTT(30)
<1>5. \A c \in CircuitsOf(n) : pick[c].visit \subseteq LspId
  BY <1>1, Zenon DEF TickChoice
<1> HIDE DEF s
<1>6. Sound(n, node[n], transmit(s, pick))
  BY <1>3, <1>4, TransmitFlags, SoundThenFlags, Zenon
<1>7. \A c \in CircuitsOf(n) : R[c] \in Seq(Frame \cup Hello)
  <2> SUFFICES ASSUME NEW c \in CircuitsOf(n) PROVE R[c] \in Seq(Frame \cup Hello)
    BY Zenon
  <2>1. sendCSNP(n, a) \in Frame \cup Hello
    BY <1>3, SNPFrames, Zenon
  <2>2. R[c] = <<sendCSNP(n, a)>> \/ R[c] = <<>>
    BY Zenon
  <2>3. \A F : \A x \in F : <<x>> \in Seq(F) /\ <<>> \in Seq(F)
    OBVIOUS
  <2> HIDE DEF R
  <2> QED BY <2>1, <2>2, <2>3, Zenon
<1>8. \A c \in CircuitsOf(n) : T[c] \in Seq(Frame \cup Hello)
  <2>1. \A c \in CircuitsOf(n) : T[c] \in Seq(Frame)
    BY <1>4, <1>5, TickFrames, Zenon
  <2> QED BY <2>1
<1> HIDE DEF R, T
<1>9. out \in [CircuitsOf(n) -> Seq(Frame \cup Hello)]
  BY <1>7, <1>8
<1> HIDE DEF out
<1> QED BY <1>1, <1>2, <1>6, <1>9, SentQueues, Zenon DEF Moves

----------------------------------------------------------------------------
(* Originating, time and faults *)

\* Regeneration, purging, the end of a hold-down and ageing move one node
\* soundly and send nothing themselves.
LEMMA OwnActionsSound ==
    ASSUME NEW Hello, UpdateTypeOK(Hello), NEW n \in Node, NEW i \in LspId, NEW b \in Body,
           \/ Originate(n, i, b) \/ PurgeStale(n, i) \/ ReleaseWrap(n, i, b)
           \/ LifetimeEnds(n, i)
    PROVE  Moves(n) /\ net' = net
<1>0. node[n] \in NodeState(n)
  BY Zenon DEF UpdateTypeOK
<1>1. CASE Originate(n, i, b)
  BY <1>0, <1>1, OriginateSound, Zenon DEF Originate, ownsLSP, Moves
<1>2. CASE PurgeStale(n, i)
  BY <1>0, <1>2, PurgeOwnSound, Zenon DEF PurgeStale, Moves
<1>3. CASE ReleaseWrap(n, i, b)
  <2> DEFINE s == [node[n] EXCEPT !.wrap = @ \ {i}]
             t == IF ownsLSP(n, s, i) THEN originate(s, i, b) ELSE s
  <2>1. s \in NodeState(n) /\ s.db = node[n].db /\ s.wrap = node[n].wrap \ {i}
    BY <1>0, Zenon DEF NodeState
  <2>2. node' = [node EXCEPT ![n] = t] /\ net' = net
    BY <1>3, Zenon DEF ReleaseWrap
  <2> HIDE DEF s
  <2>3. OwnOK(n, node[n]) => OwnOK(n, s)
    BY <2>1, Zenon DEF OwnOK
  <2>4. Sound(n, s, t)
    <3>1. CASE ownsLSP(n, s, i)
      BY <2>1, <3>1, OriginateSound, SMTT(30) DEF ownsLSP
    <3>2. CASE ~ownsLSP(n, s, i)
      BY <2>1, <3>2, SameDb, Zenon
    <3> QED BY <3>1, <3>2, SMTT(30)
  <2>5. Limited(n, node[n]) => Limited(n, s)
    BY <2>1, SMTT(30) DEF Limited, Foreign
  <2>6. Sound(n, node[n], t)
    BY <2>1, <2>3, <2>4, <2>5, Zenon DEF Sound, Advances
  <2> QED BY <2>2, <2>6, Zenon DEF Moves
<1>4. CASE LifetimeEnds(n, i)
  <2> DEFINE e == [node[n].db[i] EXCEPT !.age = "expired"]
             t == [node[n] EXCEPT !.db[i] = e]
  <2>1. /\ node[n].db[i] # NONE /\ node[n].db[i].age = "live" /\ ~node[n].db[i].own
        /\ node' = [node EXCEPT ![n].db[i].age = "expired"] /\ net' = net
    BY <1>4, Zenon DEF LifetimeEnds
  <2>2. e \in Entry /\ e.seq = node[n].db[i].seq /\ e.age = "expired" /\ ~e.own
    BY <1>0, <2>1, Held DEF Entry
  <2>3. node' = [node EXCEPT ![n] = t]
    BY <1>0, <2>1, Zenon
  <2> HIDE DEF e
  <2>4. t \in NodeState(n) /\ t.db = [node[n].db EXCEPT ![i] = e] /\ t.wrap = node[n].wrap
    BY <1>0, <2>2, Zenon DEF NodeState
  <2>5. Follows(node[n].db[i], e)
    BY <2>2, NilAssumption, Zenon DEF Follows, Zero
  <2>6. OwnOK(n, node[n]) => EntryOK(n, i, e, t.wrap)
    BY <2>1, <2>2, <2>4, Zenon DEF OwnOK, EntryOK
  <2> HIDE DEF t
  <2>7. Sound(n, node[n], t)
    BY <1>0, <2>1, <2>2, <2>4, <2>5, <2>6, WriteSound, Zenon
  <2> QED BY <2>1, <2>3, <2>7, Zenon DEF Moves
<1> QED BY <1>1, <1>2, <1>3, <1>4, Zenon

\* An LSP from beyond the modelled circuits.
LEMMA LearnSound ==
    ASSUME NEW Hello, UpdateTypeOK(Hello), NEW n \in Node, NEW i \in LspId, NEW h \in Header,
           h.seq \in Seqno, Learn(n, i, h)
    PROVE  Moves(n) /\ net' = net
<1> DEFINE s == node[n]
           e == [seq |-> h.seq, age |-> IF h.zero THEN "purged" ELSE "live",
                 body |-> h.body, own |-> FALSE]
<1>1. /\ Owner[i] = NONE /\ newer(h, s.db[i]) /\ ~AtLimit(s, i)
      /\ node' = [node EXCEPT ![n] = store(s, i, e)] /\ net' = net
  BY Zenon DEF Learn, Accepted
<1>2. s \in NodeState(n) /\ Owner[i] # n
  BY <1>1, UpdateAssumption, Zenon DEF UpdateTypeOK
<1>3. /\ e \in Entry /\ e.seq = h.seq /\ e.own = FALSE
      /\ h.zero => e.age = "purged"
      /\ ~h.zero => e.age = "live"
  BY Zenon DEF Entry, Header
<1> HIDE DEF e, s
<1>4. s.db[i] # NONE => Follows(s.db[i], e)
  <2>1. s.db[i] # NONE => s.db[i].seq \in Nat
    BY <1>2, Held, MaxSeqno, Zenon
  <2> QED BY <1>1, <1>3, <2>1, MaxSeqno, NilAssumption, Zenon DEF Follows, Zero, newer
<1>5. OwnOK(n, s) => EntryOK(n, i, e, s.wrap)
  BY <1>2, <1>3, Zenon DEF EntryOK, OwnOK
<1>6. /\ store(s, i, e) \in NodeState(n) /\ store(s, i, e).db = [s.db EXCEPT ![i] = e]
      /\ store(s, i, e).wrap = s.wrap
  BY <1>2, <1>3, StoreWrites, SMTT(30)
<1>7. Sound(n, s, store(s, i, e))
  BY <1>1, <1>2, <1>3, <1>4, <1>5, <1>6, WriteSound, Zenon
<1> QED BY <1>1, <1>7, Zenon DEF Moves, s

\* The end of a hold-down.
LEMMA HoldDownSound ==
    ASSUME NEW Hello, UpdateTypeOK(Hello), NEW n \in Node, NEW c \in Circuit, HoldDownEnds(n, c)
    PROVE  Moves(n) /\ net' = net
<1> DEFINE t == [node[n] EXCEPT !.hold[c] = FALSE]
<1>1. node[n] \in NodeState(n) /\ c \in CircuitsOf(n)
  BY Zenon DEF UpdateTypeOK, HoldDownEnds
<1>2. t \in NodeState(n) /\ t.db = node[n].db /\ t.wrap = node[n].wrap
  BY <1>1, Zenon DEF NodeState
<1>3. node' = [node EXCEPT ![n] = t] /\ net' = net
  BY <1>1, Zenon DEF HoldDownEnds
<1> HIDE DEF t
<1> QED BY <1>1, <1>2, <1>3, SameDb, Zenon DEF Moves

\* A node that has just started.
LEMMA StartedOK ==
    ASSUME NEW n \in Node, NEW b \in Body
    PROVE  Started(n, b) \in NodeState(n) /\ OwnOK(n, Started(n, b)) /\ Limited(n, Started(n, b))
<1>1. 1 \in Seqno
  BY UpdateAssumption DEF Seqno
<1>2. live(1, b) \in Entry /\ live(1, b).age = "live" /\ live(1, b).own = TRUE
  BY <1>1, LiveEntry, Zenon
<1>3. Started(n, b) \in NodeState(n)
  BY <1>2, Zenon DEF Started, NodeState
<1>4. /\ Started(n, b).wrap = {}
      /\ \A i \in LspId : \/ Started(n, b).db[i] = NONE
                          \/ Started(n, b).db[i] = live(1, b) /\ Owner[i] = n
  BY Zenon DEF Started
<1>5. OwnOK(n, Started(n, b))
  BY <1>2, <1>4, Zenon DEF OwnOK
<1>6. Limited(n, Started(n, b))
  <2>1. Foreign(n, Started(n, b)) = {}
    BY <1>4, Zenon DEF Foreign
  <2> QED BY <2>1, FS_EmptySet, UpdateAssumption DEF Limited
<1> QED BY <1>3, <1>5, <1>6, Zenon

\* The state every node starts in, with the hellos of its neighbors on the wire.
LEMMA InitOK ==
    ASSUME NEW Hello, NEW hello \in [Node -> Hello], InitWith(hello)
    PROVE  UpdateTypeOK(Hello) /\ OwnLSPs /\ DatabaseBounded
<1>1. node = [n \in Node |-> node[n]] /\ \A n \in Node : \E b \in Body : node[n] = Started(n, b)
  BY Zenon DEF InitWith
<1>2. \A n \in Node : node[n] \in NodeState(n) /\ OwnOK(n, node[n]) /\ Limited(n, node[n])
  BY <1>1, StartedOK, Zenon
<1>3. net \in [Circuit -> [Node -> Seq(Frame \cup Hello)]]
  <2> SUFFICES ASSUME NEW c \in Circuit, NEW m \in Node
               PROVE  Listing({hello[n] : n \in Neighbors(m, c)}) \in Seq(Frame \cup Hello)
    BY DEF InitWith
  <2> DEFINE S == {hello[n] : n \in Neighbors(m, c)}
  <2>1. Neighbors(m, c) \subseteq Node
    BY UpdateAssumption, Zenon DEF Neighbors
  <2>2. IsFiniteSet(S)
    <3>1. IsFiniteSet(Neighbors(m, c))
      BY <2>1, UpdateAssumption, FS_Subset, Zenon
    <3>2. [n \in Neighbors(m, c) |-> hello[n]] \in Surjection(Neighbors(m, c), S)
      BY Zenon DEF Surjection
    <3> QED BY <3>1, <3>2, FS_Surjection, Zenon
  <2>3. S \subseteq Hello
    BY <2>1, Zenon
  <2> HIDE DEF S
  <2>4. Listing(S) \in Seq(S)
    BY <2>2, ListSet, Zenon
  <2>5. Listing(S) \in Seq(Frame \cup Hello)
    BY <2>3, <2>4
  <2> QED BY <2>5, Zenon DEF S
<1>4. left \in [FaultKind -> Nat]
  BY UpdateAssumption, SMTT(30) DEF InitWith
<1> QED BY <1>1, <1>2, <1>3, <1>4, Zenon DEF UpdateTypeOK, OwnLSPs, OwnOK, DatabaseBounded, Limited, Foreign

----------------------------------------------------------------------------
(* Steps of the whole system *)

\* The parts of UpdateTypeOK and of the two properties that a sound move of one
\* node keeps.
NodesOK == node = [n \in Node |-> node[n]] /\ \A n \in Node : node[n] \in NodeState(n)

AllAdvance ==
    \A n \in Node, i \in LspId :
        node[n].db[i] # NONE => Follows(node[n].db[i], node'[n].db[i])

\* An entry may follow itself.
LEMMA StayAdvances ==
    ASSUME NodesOK, node' = node
    PROVE  AllAdvance
<1> SUFFICES ASSUME NEW n \in Node, NEW i \in LspId, node[n].db[i] # NONE
             PROVE  Follows(node[n].db[i], node[n].db[i])
  BY Zenon DEF AllAdvance
<1>1. node[n].db[i].seq \in Nat
  BY Held, MaxSeqno, Zenon DEF NodesOK
<1> QED BY <1>1, Zenon DEF Follows

\* A sound move of one node preserves ownership everywhere and steps no entry
\* back.
LEMMA MovesOK ==
    ASSUME NodesOK, NEW n \in Node, Moves(n)
    PROVE  /\ NodesOK' /\ (OwnLSPs => OwnLSPs') /\ AllAdvance
           /\ OwnLSPs /\ DatabaseBounded => DatabaseBounded'
<1>1. PICK t : Sound(n, node[n], t) /\ node' = [node EXCEPT ![n] = t]
  BY Zenon DEF Moves
<1>2. node'[n] = t /\ \A m \in Node \ {n} : node'[m] = node[m]
  BY <1>1, Zenon DEF NodesOK
<1>3. NodesOK'
  BY <1>1, <1>2, Zenon DEF NodesOK, Sound
<1>4. OwnLSPs => OwnLSPs'
  <2> SUFFICES ASSUME OwnLSPs PROVE OwnLSPs'
    BY SMTT(30)
  <2>1. \A m \in Node : OwnOK(m, node[m])
    BY Zenon DEF OwnLSPs, OwnOK
  <2>2. \A m \in Node : OwnOK(m, node'[m])
    BY <1>1, <1>2, <2>1, Zenon DEF Sound
  <2> QED BY <2>2, Zenon DEF OwnLSPs, OwnOK
<1>5. AllAdvance
  <2> SUFFICES ASSUME NEW m \in Node, NEW i \in LspId, node[m].db[i] # NONE
               PROVE  Follows(node[m].db[i], node'[m].db[i])
    BY Zenon DEF AllAdvance
  <2>1. CASE m = n
    BY <1>1, <1>2, <2>1, SMTT(30) DEF Sound, Advances
  <2>2. CASE m # n
    <3>1. node[m].db[i].seq \in Nat
      BY Held, MaxSeqno, Zenon DEF NodesOK
    <3> QED BY <1>2, <2>2, <3>1, Zenon DEF Follows
  <2> QED BY <2>1, <2>2, Zenon
<1>6. ASSUME OwnLSPs, DatabaseBounded PROVE DatabaseBounded'
  <2>1. \A m \in Node : OwnOK(m, node[m]) /\ Limited(m, node[m])
    BY <1>6, Zenon DEF OwnLSPs, OwnOK, DatabaseBounded, Limited, Foreign
  <2>2. \A m \in Node : Limited(m, node'[m])
    BY <1>1, <1>2, <2>1, Zenon DEF Sound
  <2> QED BY <2>2, SMTT(30) DEF DatabaseBounded, Limited, Foreign
<1> QED BY <1>3, <1>4, <1>5, <1>6, Zenon

\* A fault leaves the budget a function to the naturals, and only a crash
\* spends a crash.
LEMMA SpendOK ==
    ASSUME left \in [FaultKind -> Nat], NEW k \in FaultKind, k # "any", Spend(k)
    PROVE  left' \in [FaultKind -> Nat] /\ (k = "crash" => left'["crash"] # left["crash"])
<1>1. /\ left[k] > 0 /\ left["any"] > 0
      /\ left' = [left EXCEPT ![k] = left[k] - 1, !["any"] = left["any"] - 1]
  BY Zenon DEF Spend, FaultKind
<1>2. left[k] \in Nat /\ left["any"] \in Nat /\ "any" \in FaultKind
  BY Zenon DEF FaultKind
<1>3. left' \in [FaultKind -> Nat]
  BY <1>1, <1>2
<1>4. k = "crash" => left'["crash"] = left["crash"] - 1
  BY <1>1, Zenon
<1> QED BY <1>2, <1>3, <1>4

\* What every step but a crash keeps.
Keeps(Hello) == UpdateTypeOK(Hello)' /\ OwnLSPs' /\ (DatabaseBounded => DatabaseBounded') /\ AllAdvance

\* A step that moves at most one node, soundly, and keeps queues and budget
\* well-formed preserves the inductive invariant.
LEMMA MoveKeeps ==
    ASSUME NEW CONSTANT Hello, UpdateTypeOK(Hello), OwnLSPs, NEW n \in Node,
           Moves(n) \/ node' = node,
           net' \in Queues(Frame \cup Hello) \/ net' = net,
           left' \in [FaultKind -> Nat]
    PROVE  Keeps(Hello)
<1>1. NodesOK /\ net \in Queues(Frame \cup Hello)
  BY Zenon DEF NodesOK, UpdateTypeOK, Queues
<1>2. NodesOK' /\ OwnLSPs' /\ (DatabaseBounded => DatabaseBounded') /\ AllAdvance
  <2>1. CASE Moves(n)
    BY <1>1, <2>1, MovesOK, SMTT(30)
  <2>2. CASE node' = node
    BY <1>1, <2>2, StayAdvances DEF NodesOK, OwnLSPs, DatabaseBounded
  <2> QED BY <2>1, <2>2, Zenon
<1>3. net' \in Queues(Frame \cup Hello)
  BY <1>1, Zenon
<1> QED BY <1>2, <1>3, Zenon DEF Keeps, UpdateTypeOK, NodesOK, Queues

\* The actions of the update process, as the next-state relations use them.
UpdateAction(n) ==
    \/ \E c \in Circuit : ReceiveUpdate(n, c) \/ Lose(n, c)
    \/ \E c \in Circuit : HoldDownEnds(n, c) /\ UNCHANGED left
    \/ \E i \in LspId, b \in Body : NewVersion(n, i, b)
    \/ \E i \in LspId, b \in Body, q \in Seqno : FromOutside(n, i, q, b)
    \/ \E i \in LspId : PurgeStale(n, i) /\ (Spend("stale") \/ UNCHANGED left)
    \/ \E i \in LspId, b \in Body : ReleaseWrap(n, i, b) /\ UNCHANGED left
    \/ \E i \in LspId, b \in Body : Originate(n, i, b) /\ UNCHANGED left
    \/ \E i \in LspId : LifetimeEnds(n, i) /\ Spend("life")
    \/ Tick(n) \/ TickRemoving(n) \/ TickFailing(n)

\* Every action of the update process, on either kind of circuit, preserves the
\* inductive invariant.
LEMMA UpdateActionKeeps ==
    ASSUME NEW CONSTANT Hello, Hellos(Hello), UpdateTypeOK(Hello), OwnLSPs, NEW n \in Node,
           UpdateAction(n)
    PROVE  Keeps(Hello)
<1>0. left \in [FaultKind -> Nat] /\ net \in Queues(Frame \cup Hello)
  BY Zenon DEF UpdateTypeOK, Queues
<1>a. \A k \in {"loss", "gone", "stale", "life"} : Spend(k) => left' \in [FaultKind -> Nat]
  BY <1>0, SpendOK, Zenon DEF FaultKind
<1>1. ASSUME NEW c \in Circuit, ReceiveUpdate(n, c) PROVE Keeps(Hello)
  BY <1>0, <1>1, ReceiveSound, MoveKeeps, Zenon DEF Moves, Queues
<1>2. ASSUME NEW c \in Circuit, Lose(n, c) PROVE Keeps(Hello)
  <2>1. Pending(n, c) /\ net' = [net EXCEPT ![c][n] = Tail(@)] /\ node' = node /\ Spend("loss")
    BY <1>2, Zenon DEF Lose
  <2>2. net' \in Queues(Frame \cup Hello)
    BY <2>1, HeadFrame, Zenon DEF Queues
  <2> QED BY <1>a, <2>1, <2>2, MoveKeeps, Zenon
<1>3. ASSUME NEW c \in Circuit, HoldDownEnds(n, c), left' = left PROVE Keeps(Hello)
  BY <1>0, <1>3, HoldDownSound, MoveKeeps, Zenon
<1>4. ASSUME NEW i \in LspId, NEW b \in Body,
             \/ Originate(n, i, b) \/ PurgeStale(n, i) \/ ReleaseWrap(n, i, b)
             \/ LifetimeEnds(n, i),
             left' = left \/ Spend("stale") \/ Spend("life")
      PROVE  Keeps(Hello)
  <2>1. left' \in [FaultKind -> Nat]
    BY <1>0, <1>a, <1>4, Zenon
  <2>2. Moves(n) /\ net' = net
    BY <1>4, OwnActionsSound, Zenon
  <2> QED BY <2>1, <2>2, MoveKeeps, Zenon
<1>5. ASSUME NEW i \in LspId, NEW b \in Body, NEW q \in Seqno, FromOutside(n, i, q, b)
      PROVE  Keeps(Hello)
  <2> DEFINE h == [seq |-> q, zero |-> FALSE, body |-> b]
  <2>1. Learn(n, i, h) /\ left' = left
    BY <1>5, Zenon DEF FromOutside
  <2>2. h \in Header /\ h.seq \in Seqno
    BY UpdateAssumption DEF Header, Seqno
  <2> HIDE DEF h
  <2>3. Moves(n) /\ net' = net
    BY <2>1, <2>2, LearnSound, Zenon
  <2> QED BY <1>0, <2>1, <2>3, MoveKeeps, Zenon
<1>6. ASSUME NEW gone, NEW pick, Housekeeping(n, gone, pick),
             left' = left \/ Spend("gone") \/ Spend("loss")
      PROVE  Keeps(Hello)
  <2>1. Moves(n) /\ net' \in Queues(Frame \cup Hello)
    BY <1>6, HousekeepingSound, SMTT(30)
  <2> QED BY <1>0, <1>a, <1>6, <2>1, MoveKeeps, Zenon
<1>7. CASE Tick(n) \/ TickRemoving(n) \/ TickFailing(n)
  BY <1>6, <1>7, Zenon DEF Tick, TickRemoving, TickFailing
<1>8. CASE \E i \in LspId, b \in Body : NewVersion(n, i, b)
  BY <1>4, <1>8, Zenon DEF NewVersion
<1>9. CASE \E i \in LspId : PurgeStale(n, i) /\ (Spend("stale") \/ UNCHANGED left)
  BY <1>4, <1>9, UpdateAssumption, Zenon
<1>10. CASE \E i \in LspId, b \in Body : ReleaseWrap(n, i, b) /\ UNCHANGED left
  BY <1>4, <1>10, Zenon
<1>11. CASE \E i \in LspId, b \in Body : Originate(n, i, b) /\ UNCHANGED left
  BY <1>4, <1>11, Zenon
<1>12. CASE \E i \in LspId : LifetimeEnds(n, i) /\ Spend("life")
  BY <1>4, <1>12, UpdateAssumption, Zenon
<1>13. CASE \E c \in Circuit : ReceiveUpdate(n, c) \/ Lose(n, c)
  BY <1>1, <1>2, <1>13, Zenon
<1>14. CASE \E c \in Circuit : HoldDownEnds(n, c) /\ UNCHANGED left
  BY <1>3, <1>14, Zenon
<1>15. CASE \E i \in LspId, b \in Body, q \in Seqno : FromOutside(n, i, q, b)
  BY <1>5, <1>15, SMTT(30)
<1> QED BY <1>7, <1>8, <1>9, <1>10, <1>11, <1>12, <1>13, <1>14, <1>15, SMTT(30) DEF UpdateAction

\* A crash starts the node afresh.
LEMMA CrashKeeps ==
    ASSUME NEW CONSTANT Hello, UpdateTypeOK(Hello), OwnLSPs, NEW n \in Node, NEW b \in Body,
           NEW hello \in Hello, CrashWith(n, b, hello)
    PROVE  /\ UpdateTypeOK(Hello)' /\ OwnLSPs' /\ (DatabaseBounded => DatabaseBounded')
           /\ left'["crash"] # left["crash"]
<1> DEFINE q == [c \in Circuit |-> [net[c] EXCEPT ![n] = <<>>]]
           out == [c \in CircuitsOf(n) |-> <<hello>>]
<1>1. NodesOK /\ net \in Queues(Frame \cup Hello) /\ left \in [FaultKind -> Nat]
  BY SMTT(30) DEF NodesOK, UpdateTypeOK, Queues
<1>2. node' = [node EXCEPT ![n] = Started(n, b)] /\ net' = Sent(n, q, out) /\ Spend("crash")
  BY SMTT(30) DEF CrashWith
<1>3. left' \in [FaultKind -> Nat] /\ left'["crash"] # left["crash"]
  BY <1>1, <1>2, SpendOK, Zenon DEF FaultKind
<1>4. q \in Queues(Frame \cup Hello)
  BY <1>1 DEF Queues
<1>5. out \in [CircuitsOf(n) -> Seq(Frame \cup Hello)]
  OBVIOUS
<1> HIDE DEF q, out
<1>6. net' \in Queues(Frame \cup Hello)
  BY <1>2, <1>4, <1>5, SentQueues, Zenon
<1>7. NodesOK'
  BY <1>1, <1>2, StartedOK, SMTT(30) DEF NodesOK
<1>8. \A m \in Node : OwnOK(m, node'[m]) /\ (DatabaseBounded => Limited(m, node'[m]))
  <2>1. \A m \in Node : OwnOK(m, node[m]) /\ (DatabaseBounded => Limited(m, node[m]))
    BY Zenon DEF OwnLSPs, OwnOK, DatabaseBounded, Limited, Foreign
  <2>2. node'[n] = Started(n, b) /\ \A m \in Node \ {n} : node'[m] = node[m]
    BY <1>1, <1>2, Zenon DEF NodesOK
  <2> QED BY <2>1, <2>2, StartedOK, SMTT(30)
<1>9. DatabaseBounded => DatabaseBounded'
  BY <1>8, Zenon DEF DatabaseBounded, Limited, Foreign
<1> QED BY <1>3, <1>6, <1>7, <1>8, <1>9, Zenon DEF UpdateTypeOK, NodesOK, Queues, OwnLSPs, OwnOK

----------------------------------------------------------------------------
(* What a handler may do to its node, to its debts and to the wire *)

\* No node restarted and no purge was dropped.
Quiet == left["crash"] = Budget["crash"] /\ left["gone"] = Budget["gone"]

\* An entry of LSP i at node n before and after: unchanged; turned into a purge of
\* the same version; a new version of n's own; from outside; or copied from an LSP
\* frame n has not read yet.
WroteAt(n, i, d, e) ==
    \/ e = d
    \/ /\ e # NONE
       /\ \/ d # NONE /\ e.seq = d.seq /\ Zero(e)
          \/ Owner[i] = n /\ (d # NONE => e.seq > d.seq)
          \/ Owner[i] = NONE
          \/ \E c \in CircuitsOf(n) : \E f \in Range(net[c][n]) :
                 f.kind = "lsp" /\ f.id = i /\ f.hdr = wire(e)

\* There is a reason to send LSP i on circuit c.
Flagged(s, c, i) == s.srm[c][i] # "off" \/ s.defer[c]

\* Frame f says its sender has, or acknowledges, version q of LSP i.
Settles(f, i, q) ==
    \/ f.kind = "lsp" /\ f.id = i /\ f.hdr.seq >= q
    \/ f.kind \in {"csnp", "psnp"} /\ f.list[i] # NONE /\ f.list[i].seq >= q

\* Why LSP i may be unflagged on c once n went from s to t: it is not live, nobody
\* is there, it was so before, or a frame settles it.
FlowsAt(n, s, t, c, i) ==
    \/ Flagged(t, c, i)
    \/ t.db[i] = NONE \/ t.db[i].age # "live"
    \/ \A m \in Neighbors(n, c) : t.adj[c][m] # "up"
    \/ /\ ~Flagged(s, c, i) /\ t.db[i] = s.db[i]
       /\ \A m \in Node : t.adj[c][m] = "up" => s.adj[c][m] = "up"
    \/ \E f \in Range(net[c][n]) : Settles(f, i, t.db[i].seq)

\* An acknowledgement n owes was owed before or is for a purge just read.
AckedAt(n, s, t, c, i) ==
    \/ t.ack[c][i] \in {s.ack[c][i], NONE}
    \/ \E f \in Range(net[c][n]) :
           f.kind = "lsp" /\ f.id = i /\ f.hdr = t.ack[c][i] /\ f.hdr.zero

\* A neighbor n knows it knew before, or sent a frame.
HeardAt(n, s, t, c) ==
    \A m \in Node : t.adj[c][m] # "down" =>
        s.adj[c][m] # "down" \/ \E f \in Range(net[c][n]) : f.src = m

\* A handler took n from s to t.
Handles(n, s, t) ==
    /\ t \in NodeState(n)
    /\ \A i \in LspId : WroteAt(n, i, s.db[i], t.db[i])
    /\ \A c \in CircuitsOf(n), i \in LspId : FlowsAt(n, s, t, c, i) /\ AckedAt(n, s, t, c, i)
    /\ \A c \in CircuitsOf(n) : HeardAt(n, s, t, c)

\* What n may say on c: its database after the step, and what it acknowledges.
Speaks(n, s, t, c, f) ==
    /\ f.src = n
    /\ f.kind = "lsp" => t.db[f.id] # NONE /\ f.hdr = wire(t.db[f.id])
    /\ f.kind = "csnp" => \A i \in LspId : f.list[i] # NONE =>
           t.db[i] # NONE /\ f.list[i] = wire(t.db[i])
    /\ f.kind = "psnp" => \A i \in LspId : f.list[i] # NONE =>
           \/ t.db[i] # NONE /\ f.list[i] = wire(t.db[i])
           \/ f.list[i] = s.ack[c][i]
           \/ f.list[i].seq = 0

\* Every frame under way was so before or is said by n.
Says(n, s, t) ==
    \A c \in Circuit, m \in Node : \A f \in Range(net'[c][m]) :
        \/ f \in Range(net[c][m])
        \/ c \in CircuitsOf(n) /\ m \in Neighbors(n, c) /\ Speaks(n, s, t, c, f)

Steps(n) ==
    \E t : /\ Handles(n, node[n], t) /\ node' = [node EXCEPT ![n] = t]
           /\ Says(n, node[n], t)

\* The frames of a sequence, of its parts and of its tail.
LEMMA Ranges ==
    ASSUME NEW S
    PROVE  /\ \A q \in Seq(S) : q # <<>> => Head(q) \in Range(q) /\ Range(Tail(q)) \subseteq Range(q)
           /\ \A p \in Seq(S), q \in Seq(S) : Range(p \o q) = Range(p) \cup Range(q)
           /\ \A x \in S : Range(<<x>>) = {x}
           /\ Range(<<>>) = {}
<1>1. \A q \in Seq(S) : q # <<>> => Head(q) \in Range(q) /\ Range(Tail(q)) \subseteq Range(q)
  BY DEF Range
<1>2. \A p \in Seq(S), q \in Seq(S) : Range(p \o q) = Range(p) \cup Range(q)
  <2> SUFFICES ASSUME NEW p \in Seq(S), NEW q \in Seq(S) PROVE Range(p \o q) = Range(p) \cup Range(q)
    OBVIOUS
  <2>1. /\ p \o q \in Seq(S) /\ Len(p \o q) = Len(p) + Len(q)
        /\ Len(p) \in Nat /\ Len(q) \in Nat
        /\ \A k \in 1..Len(p) : (p \o q)[k] = p[k]
        /\ \A k \in 1..Len(q) : (p \o q)[Len(p) + k] = q[k]
        /\ DOMAIN p = 1..Len(p) /\ DOMAIN q = 1..Len(q) /\ DOMAIN (p \o q) = 1..Len(p \o q)
    OBVIOUS
  <2>2. ASSUME NEW k \in 1..Len(p \o q) PROVE (p \o q)[k] \in Range(p) \cup Range(q)
    <3>1. CASE k \in 1..Len(p)
      BY <2>1, <3>1 DEF Range
    <3>2. CASE k \notin 1..Len(p)
      <4>1. k - Len(p) \in 1..Len(q) /\ k = Len(p) + (k - Len(p))
        BY <2>1, <2>2, <3>2
      <4> QED BY <2>1, <4>1 DEF Range
    <3> QED BY <3>1, <3>2
  <2>3. \A k \in 1..Len(p) : k \in 1..Len(p \o q)
    BY <2>1
  <2>4. \A k \in 1..Len(q) : Len(p) + k \in 1..Len(p \o q)
    BY <2>1
  <2>5. Range(p) \cup Range(q) \subseteq Range(p \o q)
    BY <2>1, <2>3, <2>4, Zenon DEF Range
  <2>6. Range(p \o q) \subseteq Range(p) \cup Range(q)
    <3> SUFFICES ASSUME NEW k \in DOMAIN (p \o q) PROVE (p \o q)[k] \in Range(p) \cup Range(q)
      BY Zenon DEF Range
    <3> QED BY <2>1, <2>2
  <2> QED BY <2>5, <2>6, Zenon
<1>3. \A x \in S : Range(<<x>>) = {x}
  BY DEF Range
<1>4. Range(<<>>) = {}
  BY DEF Range
<1> QED BY <1>1, <1>2, <1>3, <1>4

\* A step that changes flags only upwards, and no neighbor.
LEMMA StayHandles ==
    ASSUME NEW n, NEW s \in NodeState(n), NEW t \in NodeState(n),
           t.db = s.db, t.adj = s.adj, t.defer = s.defer,
           \A c \in CircuitsOf(n), i \in LspId :
               /\ t.srm[c][i] = "off" => s.srm[c][i] = "off"
               /\ AckedAt(n, s, t, c, i)
    PROVE  Handles(n, s, t)
BY Zenon DEF Handles, WroteAt, FlowsAt, HeardAt, Flagged

\* floodLSP raises one flag on the circuits it covers and leaves the rest.
Flooded(n, s, t, i, except) ==
    /\ t.adj = s.adj /\ t.defer = s.defer
    /\ \A c \in CircuitsOf(n), j \in LspId :
           /\ t.srm[c][j] = IF c \notin except /\ j = i THEN "due" ELSE s.srm[c][j]
           /\ t.ack[c][j] \in {s.ack[c][j], NONE}

\* floodLSP does that.
LEMMA FloodDebts ==
    ASSUME NEW n, NEW s \in NodeState(n), NEW i \in LspId, NEW except
    PROVE  Flooded(n, s, floodLSP(s, i, except), i, except)
<1> DEFINE t == floodLSP(s, i, except)
<1>1. t.adj = s.adj /\ t.defer = s.defer
  BY Zenon DEF NodeState, floodLSP
<1>2. DOMAIN s.srm = CircuitsOf(n) /\ DOMAIN s.ack = CircuitsOf(n)
  BY Zenon DEF NodeState
<1>3. ASSUME NEW c \in CircuitsOf(n), NEW j \in LspId
      PROVE  /\ t.srm[c][j] = IF c \notin except /\ j = i THEN "due" ELSE s.srm[c][j]
             /\ t.ack[c][j] \in {s.ack[c][j], NONE}
  <2>1. s.srm[c] \in [LspId -> {"off", "due", "wait"}] /\ s.ack[c] \in [LspId -> Header \cup {NONE}]
    BY Zenon DEF NodeState
  <2>2. t.srm[c] = IF c \notin except THEN [s.srm[c] EXCEPT ![i] = "due"] ELSE s.srm[c]
    BY <1>2, Zenon DEF NodeState, floodLSP
  <2>3. t.ack[c] = IF c \notin except THEN [s.ack[c] EXCEPT ![i] = NONE] ELSE s.ack[c]
    BY <1>2, Zenon DEF NodeState, floodLSP
  <2> HIDE DEF t
  <2> QED BY <2>1, <2>2, <2>3
<1> HIDE DEF t
<1>4. Flooded(n, s, t, i, except)
  BY <1>1, <1>3, Zenon DEF Flooded
<1> QED BY <1>4, Zenon DEF t

\* An entry written and flooded everywhere.
LEMMA StoreHandles ==
    ASSUME NEW n, NEW s \in NodeState(n), NEW i \in LspId, NEW e \in Entry,
           WroteAt(n, i, s.db[i], e)
    PROVE  Handles(n, s, store(s, i, e))
<1> DEFINE r == [s EXCEPT !.db[i] = e]
           t == store(s, i, e)
<1>1. /\ r \in NodeState(n) /\ r.adj = s.adj /\ r.defer = s.defer /\ r.srm = s.srm /\ r.ack = s.ack
      /\ t = floodLSP(r, i, {})
  BY Zenon DEF NodeState, store
<1>2. t \in NodeState(n) /\ t.db = [s.db EXCEPT ![i] = e]
  BY StoreWrites
<1> HIDE DEF r, t
<1>3. /\ t.adj = s.adj /\ t.defer = s.defer
      /\ \A c \in CircuitsOf(n), j \in LspId :
             /\ t.srm[c][j] = IF j = i THEN "due" ELSE s.srm[c][j]
             /\ t.ack[c][j] \in {s.ack[c][j], NONE}
  <2>1. Flooded(n, r, t, i, {})
    BY <1>1, FloodDebts, Zenon
  <2> QED BY <1>1, <2>1 DEF Flooded
<1>4. \A j \in LspId : t.db[j] = IF j = i THEN e ELSE s.db[j]
  BY <1>2, Zenon DEF NodeState
<1>5. \A j \in LspId : WroteAt(n, j, s.db[j], t.db[j])
  BY <1>4, Zenon DEF WroteAt
<1>6. \A c \in CircuitsOf(n), j \in LspId : FlowsAt(n, s, t, c, j)
  BY <1>3, <1>4, Zenon DEF FlowsAt, Flagged
<1>7. \A c \in CircuitsOf(n), j \in LspId : AckedAt(n, s, t, c, j)
  BY <1>3, Zenon DEF AckedAt
<1>8. \A c \in CircuitsOf(n) : HeardAt(n, s, t, c)
  BY <1>3, Zenon DEF HeardAt
<1> QED BY <1>2, <1>5, <1>6, <1>7, <1>8, Zenon DEF Handles, t

\* A handler may start from a state that differs in its hold-downs.
LEMMA HandlesFrom ==
    ASSUME NEW n, NEW s, NEW r, NEW t, Handles(n, r, t),
           r.db = s.db, r.adj = s.adj, r.defer = s.defer, r.srm = s.srm, r.ack = s.ack
    PROVE  Handles(n, s, t)
<1>1. \A c \in CircuitsOf(n), i \in LspId : FlowsAt(n, s, t, c, i)
  BY Zenon DEF Handles, FlowsAt, Flagged
<1>2. \A c \in CircuitsOf(n), i \in LspId : AckedAt(n, s, t, c, i)
  BY Zenon DEF Handles, AckedAt
<1>3. \A c \in CircuitsOf(n) : HeardAt(n, s, t, c)
  BY Zenon DEF Handles, HeardAt
<1> QED BY <1>1, <1>2, <1>3, Zenon DEF Handles

\* exhaustSeq: the same after the hold-down is noted.
LEMMA ExhaustHandles ==
    ASSUME NEW n, NEW s \in NodeState(n), NEW i \in LspId, Owner[i] = n
    PROVE  Handles(n, s, exhaustSeq(s, i))
<1> DEFINE e == purge(MaxSeq, TRUE)
           r == [s EXCEPT !.wrap = @ \cup {i}]
<1>1. e \in Entry /\ e.seq = MaxSeq /\ e.age = "purged"
  BY PurgeEntry, MaxSeqno, Zenon
<1>2. /\ r \in NodeState(n) /\ r.db = s.db /\ r.adj = s.adj /\ r.defer = s.defer
      /\ r.srm = s.srm /\ r.ack = s.ack
  BY Zenon DEF NodeState
<1>3. exhaustSeq(s, i) = store(r, i, e)
  BY Zenon DEF exhaustSeq
<1> HIDE DEF e, r
<1>4. WroteAt(n, i, s.db[i], e)
  <2>1. s.db[i] # NONE => s.db[i].seq \in Nat /\ s.db[i].seq <= MaxSeq
    BY Held, MaxSeqno, Zenon
  <2>2. e # NONE
    BY <1>1, NilAssumption, Zenon
  <2>3. s.db[i] # NONE => s.db[i].seq = e.seq \/ e.seq > s.db[i].seq
    BY <1>1, <2>1, UpdateAssumption
  <2>4. Zero(e)
    BY <1>1 DEF Zero
  <2> QED BY <2>2, <2>3, <2>4, Zenon DEF WroteAt
<1>5. Handles(n, r, store(r, i, e))
  BY <1>1, <1>2, <1>4, StoreHandles, Zenon
<1> QED BY <1>2, <1>3, <1>5, HandlesFrom, Zenon

\* A new version of an LSP of ours, live or purged.
LEMMA FreshHandles ==
    ASSUME NEW n, NEW s \in NodeState(n), NEW i \in LspId, NEW q \in Seqno, Owner[i] = n,
           s.db[i] # NONE => s.db[i].seq < q
    PROVE  /\ \A own \in BOOLEAN : Handles(n, s, store(s, i, purge(q, own)))
           /\ \A b \in Body \cup {NONE} : Handles(n, s, store(s, i, live(q, b)))
<1>1. ASSUME NEW e \in Entry, e.seq = q PROVE Handles(n, s, store(s, i, e))
  <2>1. s.db[i] # NONE => s.db[i].seq \in Nat
    BY Held, MaxSeqno, Zenon
  <2>2. s.db[i] # NONE => e.seq > s.db[i].seq
    BY <1>1, <2>1, MaxSeqno
  <2>3. WroteAt(n, i, s.db[i], e)
    BY <1>1, <2>2, NilAssumption, Zenon DEF WroteAt
  <2> QED BY <2>3, StoreHandles, Zenon
<1> QED BY <1>1, PurgeEntry, LiveEntry, Zenon

\* The next version of an LSP of ours after number q, which is at least the one held.
LEMMA NextHandles ==
    ASSUME NEW n, NEW s \in NodeState(n), NEW i \in LspId, Owner[i] = n, NEW q \in Seqno,
           s.db[i] # NONE, s.db[i].seq <= q
    PROVE  /\ Handles(n, s, exhaustSeq(s, i))
           /\ q # MaxSeq => /\ \A b \in Body \cup {NONE} : Handles(n, s, store(s, i, live(q + 1, b)))
                            /\ Handles(n, s, store(s, i, purge(q + 1, TRUE)))
<1>1. Handles(n, s, exhaustSeq(s, i))
  BY ExhaustHandles, Zenon
<1>2. ASSUME q # MaxSeq
      PROVE  /\ \A b \in Body \cup {NONE} : Handles(n, s, store(s, i, live(q + 1, b)))
             /\ Handles(n, s, store(s, i, purge(q + 1, TRUE)))
  <2>1. q + 1 \in Seqno /\ s.db[i].seq < q + 1
    BY <1>2, Held, UpdateAssumption DEF Seqno
  <2>2. TRUE \in BOOLEAN
    OBVIOUS
  <2> QED BY <2>1, <2>2, FreshHandles, Zenon
<1> QED BY <1>1, <1>2, Zenon

\* reoriginateOwn, purgeOwn and originate.
LEMMA OwnHandles ==
    ASSUME NEW n, NEW s \in NodeState(n), NEW i \in LspId, Owner[i] = n
    PROVE  /\ s.db[i] # NONE => Handles(n, s, purgeOwn(s, i))
           /\ \A b \in Body : Handles(n, s, originate(s, i, b))
           /\ \A q \in Seqno : s.db[i] # NONE /\ s.db[i].seq <= q => Handles(n, s, reoriginateOwn(s, i, q))
<1>1. s.db[i] # NONE => s.db[i].seq \in Seqno /\ s.db[i].seq <= s.db[i].seq /\ s.db[i].body \in Body \cup {NONE}
  <2>1. \A q \in Seqno : q <= q
    BY DEF Seqno
  <2> QED BY <2>1, Held, Zenon
<1>2. s.db[i] # NONE => Handles(n, s, purgeOwn(s, i))
  BY <1>1, NextHandles, Zenon DEF purgeOwn
<1>3. \A b \in Body : Handles(n, s, originate(s, i, b))
  <2> TAKE b \in Body
  <2>1. CASE s.db[i] = NONE
    <3>1. 1 \in Seqno
      BY UpdateAssumption DEF Seqno
    <3> QED BY <2>1, <3>1, FreshHandles, Zenon DEF originate
  <2>2. CASE s.db[i] # NONE
    BY <1>1, <2>2, NextHandles, Zenon DEF originate
  <2> QED BY <2>1, <2>2, Zenon
<1>4. \A q \in Seqno : s.db[i] # NONE /\ s.db[i].seq <= q => Handles(n, s, reoriginateOwn(s, i, q))
  BY <1>1, NextHandles, Zenon DEF reoriginateOwn
<1> QED BY <1>2, <1>3, <1>4, Zenon

\* The purge of a version held.
LEMMA ExpireHandles ==
    ASSUME NEW n, NEW s \in NodeState(n), NEW i \in LspId, s.db[i] # NONE
    PROVE  Handles(n, s, expirePurge(s, i, s.db[i]))
<1> DEFINE e == purge(s.db[i].seq, s.db[i].own)
<1>1. e \in Entry /\ e.seq = s.db[i].seq /\ e.age = "purged"
  BY Held, PurgeEntry
<1>2. expirePurge(s, i, s.db[i]) = store(s, i, e)
  BY Zenon DEF expirePurge, expired
<1> HIDE DEF e
<1>3. WroteAt(n, i, s.db[i], e)
  BY <1>1, NilAssumption, Zenon DEF WroteAt, Zero
<1> QED BY <1>1, <1>2, <1>3, StoreHandles, Zenon

\* Nothing happens.
LEMMA SameHandles ==
    ASSUME NEW n, NEW s \in NodeState(n)
    PROVE  Handles(n, s, s)
<1>1. \A c \in CircuitsOf(n), i \in LspId : AckedAt(n, s, s, c, i)
  BY Zenon DEF AckedAt
<1> QED BY <1>1, StayHandles

\* setSSN changes SSN flags alone.
SSNSet(n, s, t) ==
    /\ t \in NodeState(n) /\ t.db = s.db /\ t.adj = s.adj /\ t.defer = s.defer
    /\ t.srm = s.srm /\ t.ack = s.ack

\* That is what it does.
LEMMA SetSSNIs ==
    ASSUME NEW n, NEW s \in NodeState(n), NEW c \in CircuitsOf(n), NEW i \in LspId
    PROVE  SSNSet(n, s, setSSN(s, c, i))
BY Zenon DEF NodeState, setSSN, SSNSet

\* Setting and clearing one flag.
LEMMA FlagHandles ==
    ASSUME NEW n, NEW s \in NodeState(n), NEW c \in CircuitsOf(n), NEW i \in LspId
    PROVE  /\ Handles(n, s, s)
           /\ Handles(n, s, clearSSN(setSRM(s, c, i), c, i))
           /\ Handles(n, s, setSSN(s, c, i))
<1>1. Handles(n, s, s)
  BY SameHandles
<1>2. Handles(n, s, setSSN(s, c, i))
  <2> DEFINE t == setSSN(s, c, i)
  <2>1. /\ t \in NodeState(n) /\ t.db = s.db /\ t.adj = s.adj /\ t.defer = s.defer
        /\ t.srm = s.srm /\ t.ack = s.ack
    BY SetSSNIs, Zenon DEF SSNSet
  <2> HIDE DEF t
  <2>2. Handles(n, s, t)
    BY <2>1, StayHandles, Zenon DEF AckedAt
  <2> QED BY <2>2, Zenon DEF t
<1>3. Handles(n, s, clearSSN(setSRM(s, c, i), c, i))
  <2> DEFINE r == setSRM(s, c, i)
             t == clearSSN(r, c, i)
  <2>1. /\ r \in NodeState(n) /\ r.db = s.db /\ r.adj = s.adj /\ r.defer = s.defer /\ r.ack = s.ack
        /\ r.srm = [s.srm EXCEPT ![c][i] = "due"]
    BY Zenon DEF NodeState, setSRM
  <2> HIDE DEF r
  <2>2. /\ t \in NodeState(n) /\ t.db = s.db /\ t.adj = s.adj /\ t.defer = s.defer
        /\ t.srm = r.srm /\ t.ack = [r.ack EXCEPT ![c][i] = NONE]
    BY <2>1, Zenon DEF NodeState, clearSSN
  <2> HIDE DEF t
  <2>3. s.srm \in [CircuitsOf(n) -> [LspId -> {"off", "due", "wait"}]]
        /\ s.ack \in [CircuitsOf(n) -> [LspId -> Header \cup {NONE}]]
    BY DEF NodeState
  <2>4. \A d \in CircuitsOf(n), j \in LspId : /\ t.srm[d][j] = "off" => s.srm[d][j] = "off"
                                              /\ t.ack[d][j] \in {s.ack[d][j], NONE}
    BY <2>1, <2>2, <2>3
  <2>5. Handles(n, s, t)
    BY <2>1, <2>2, <2>4, StayHandles, Zenon DEF AckedAt
  <2> QED BY <2>5, Zenon DEF t, r
<1> QED BY <1>1, <1>2, <1>3, Zenon

\* A purge of an LSP not held is acknowledged without storing it.
LEMMA AckHandles ==
    ASSUME NEW n, NEW s \in NodeState(n), NEW c \in CircuitsOf(n), NEW i \in LspId,
           NEW f \in Range(net[c][n]), f.kind = "lsp", f.id = i, f.hdr \in Header, f.hdr.zero
    PROVE  Handles(n, s, setSSNAck(s, c, i, f.hdr))
<1> DEFINE r == setSSN(s, c, i)
           t == [r EXCEPT !.ack[c][i] = f.hdr]
<1>1. /\ r \in NodeState(n) /\ r.db = s.db /\ r.adj = s.adj /\ r.defer = s.defer
      /\ r.srm = s.srm /\ r.ack = s.ack
  <2>1. SSNSet(n, s, r)
    BY SetSSNIs, Zenon
  <2> QED BY <2>1, Zenon DEF SSNSet
<1>2. t = setSSNAck(s, c, i, f.hdr)
  BY Zenon DEF setSSNAck
<1> HIDE DEF r
<1>3. /\ t \in NodeState(n) /\ t.db = s.db /\ t.adj = s.adj /\ t.defer = s.defer
      /\ t.srm = s.srm /\ t.ack = [s.ack EXCEPT ![c][i] = f.hdr]
  BY <1>1, Zenon DEF NodeState
<1> HIDE DEF t
<1>4. s.ack \in [CircuitsOf(n) -> [LspId -> Header \cup {NONE}]]
  BY DEF NodeState
<1>5. \A d \in CircuitsOf(n), j \in LspId :
          t.ack[d][j] = IF d = c /\ j = i THEN f.hdr ELSE s.ack[d][j]
  BY <1>3, <1>4
<1>6. \A d \in CircuitsOf(n), j \in LspId : AckedAt(n, s, t, d, j)
  BY <1>5, Zenon DEF AckedAt
<1>7. Handles(n, s, t)
  BY <1>3, <1>6, StayHandles, Zenon
<1> QED BY <1>2, <1>7, Zenon

\* The copy of a frame is stored, flooded on the other circuits and acknowledged on
\* the one it came from, where its sender needs it no more.
LEMMA InstallHandles ==
    ASSUME NEW n, NEW s \in NodeState(n), NEW c \in CircuitsOf(n), NEW i \in LspId,
           NEW f \in Range(net[c][n]), f.kind = "lsp", f.id = i,
           f.hdr \in Header, f.hdr.seq \in Seqno
    PROVE  Handles(n, s, install(s, c, i, f.hdr))
<1> DEFINE h == f.hdr
           e == [seq |-> h.seq, age |-> IF h.zero THEN "purged" ELSE "live",
                 body |-> h.body, own |-> FALSE]
           r == [s EXCEPT !.db[i] = e]
           u == floodLSP(r, i, {c})
           g == clearSRM(u, c, i)
           t == install(s, c, i, h)
<1>1. e \in Entry /\ wire(e) = h /\ e.seq = h.seq
  <2>1. e \in Entry /\ e.seq = h.seq /\ e.body = h.body
    BY Zenon DEF Entry, Header
  <2>2. Zero(e) = h.zero
    BY DEF Zero, Header
  <2>3. h = [seq |-> h.seq, zero |-> h.zero, body |-> h.body]
    BY DEF Header
  <2> HIDE DEF e, h
  <2> QED BY <2>1, <2>2, <2>3, Zenon DEF wire
<1>2. h \in Header /\ h.seq \in Seqno
  BY Zenon
<1> HIDE DEF e
<1>3. /\ r \in NodeState(n) /\ r.adj = s.adj /\ r.defer = s.defer /\ r.srm = s.srm /\ r.ack = s.ack
      /\ r.db = [s.db EXCEPT ![i] = e]
  BY <1>1, Zenon DEF NodeState
<1> HIDE DEF r
<1>4. u \in NodeState(n) /\ u.db = r.db
  BY <1>3, FloodFlags
<1>4a. Flooded(n, r, u, i, {c})
  BY <1>3, FloodDebts, Zenon
<1> HIDE DEF u
<1>5. /\ g \in NodeState(n) /\ g.db = u.db /\ g.adj = u.adj /\ g.defer = u.defer /\ g.ack = u.ack
      /\ g.srm = [u.srm EXCEPT ![c][i] = "off"]
  BY <1>4, Zenon DEF NodeState, clearSRM
<1> HIDE DEF g
<1>6. /\ t \in NodeState(n) /\ t.db = g.db /\ t.adj = g.adj /\ t.defer = g.defer /\ t.ack = g.ack
      /\ t.srm = g.srm
  <2>1. t \in {g, setSSN(g, c, i)}
    BY Zenon DEF install, g, u, r, e
  <2> DEFINE w == setSSN(g, c, i)
  <2>2. /\ w \in NodeState(n) /\ w.db = g.db /\ w.adj = g.adj /\ w.defer = g.defer
        /\ w.ack = g.ack /\ w.srm = g.srm
    BY <1>5, SetSSNIs DEF SSNSet
  <2> HIDE DEF t, w
  <2> QED BY <1>5, <2>1, <2>2, Zenon DEF w
<1> HIDE DEF t
<1>7. /\ \A j \in LspId : t.db[j] = IF j = i THEN e ELSE s.db[j]
      /\ t.adj = s.adj /\ t.defer = s.defer
      /\ \A d \in CircuitsOf(n), j \in LspId :
             /\ d # c \/ j # i => t.srm[d][j] = IF j = i THEN "due" ELSE s.srm[d][j]
             /\ t.ack[d][j] \in {s.ack[d][j], NONE}
  <2>0. t.db = [s.db EXCEPT ![i] = e]
    BY <1>3, <1>4, <1>5, <1>6, Zenon
  <2>1. \A j \in LspId : t.db[j] = IF j = i THEN e ELSE s.db[j]
    BY <2>0, Zenon DEF NodeState
  <2>2. t.adj = s.adj /\ t.defer = s.defer
    BY <1>3, <1>4a, <1>5, <1>6, Zenon DEF Flooded
  <2>3. u.srm \in [CircuitsOf(n) -> [LspId -> {"off", "due", "wait"}]]
    BY <1>4 DEF NodeState
  <2>4. \A d \in CircuitsOf(n), j \in LspId : d # c \/ j # i => t.srm[d][j] = u.srm[d][j]
    BY <1>5, <1>6, <2>3
  <2>5. \A d \in CircuitsOf(n), j \in LspId :
             /\ u.srm[d][j] = IF d \notin {c} /\ j = i THEN "due" ELSE s.srm[d][j]
             /\ u.ack[d][j] \in {s.ack[d][j], NONE}
    BY <1>3, <1>4a DEF Flooded
  <2> QED BY <1>5, <1>6, <2>1, <2>2, <2>4, <2>5
<1>8. \A j \in LspId : WroteAt(n, j, s.db[j], t.db[j])
  <2>1. WroteAt(n, i, s.db[i], e)
    BY <1>1, NilAssumption, Zenon DEF WroteAt, h
  <2>2. \A j \in LspId : WroteAt(n, j, s.db[j], s.db[j])
    BY Zenon DEF WroteAt
  <2> QED BY <1>7, <2>1, <2>2, Zenon
<1>9. \A d \in CircuitsOf(n), j \in LspId : FlowsAt(n, s, t, d, j)
  <2> TAKE d \in CircuitsOf(n), j \in LspId
  <2>1. CASE d = c /\ j = i
    <3>1. Settles(f, i, t.db[i].seq)
      BY <1>1, <1>2, <1>7 DEF Settles, h, Seqno
    <3> QED BY <2>1, <3>1, Zenon DEF FlowsAt
  <2>2. CASE d # c /\ j = i
    BY <1>7, <2>2 DEF FlowsAt, Flagged
  <2>3. CASE j # i
    BY <1>7, <2>3, Zenon DEF FlowsAt, Flagged
  <2> QED BY <2>1, <2>2, <2>3, Zenon
<1>10. \A d \in CircuitsOf(n), j \in LspId : AckedAt(n, s, t, d, j)
  BY <1>7, Zenon DEF AckedAt
<1>11. \A d \in CircuitsOf(n) : HeardAt(n, s, t, d)
  BY <1>7, Zenon DEF HeardAt
<1>12. Handles(n, s, t)
  BY <1>6, <1>8, <1>9, <1>10, <1>11, Zenon DEF Handles
<1> QED BY <1>12, Zenon DEF t, h

\* Sequence numbers PDUs: the flags of circuit c go down where frame f settles them.
Settled(n, s, t, c, f) ==
    /\ t \in NodeState(n) /\ t.db = s.db /\ t.adj = s.adj /\ t.defer = s.defer /\ t.ack = s.ack
    /\ \A d \in CircuitsOf(n), j \in LspId :
           \/ t.srm[d][j] \in {s.srm[d][j], "due"}
           \/ d = c /\ (s.db[j] # NONE => Settles(f, j, s.db[j].seq))

\* Such a handler keeps the debts.
LEMMA SettledHandles ==
    ASSUME NEW n, NEW s \in NodeState(n), NEW t, NEW c \in CircuitsOf(n),
           NEW f \in Range(net[c][n]), Settled(n, s, t, c, f)
    PROVE  Handles(n, s, t)
<1>1. t \in NodeState(n) /\ t.db = s.db /\ t.adj = s.adj /\ t.defer = s.defer /\ t.ack = s.ack
  BY Zenon DEF Settled
<1>2. ASSUME NEW d \in CircuitsOf(n), NEW j \in LspId
      PROVE  FlowsAt(n, s, t, d, j) /\ AckedAt(n, s, t, d, j)
  <2>1. AckedAt(n, s, t, d, j)
    BY <1>1, Zenon DEF AckedAt
  <2>2. CASE t.srm[d][j] \in {s.srm[d][j], "due"}
    <3>1. Flagged(t, d, j) \/ ~Flagged(s, d, j)
      BY <1>1, <2>2 DEF Flagged
    <3> QED BY <1>1, <2>1, <3>1, Zenon DEF FlowsAt
  <2>3. CASE d = c /\ (s.db[j] # NONE => Settles(f, j, s.db[j].seq))
    <3>1. t.db[j] = NONE \/ \E g \in Range(net[d][n]) : Settles(g, j, t.db[j].seq)
      BY <1>1, <2>3
    <3> QED BY <2>1, <3>1, Zenon DEF FlowsAt
  <2> QED BY <2>1, <2>2, <2>3, Zenon DEF Settled
<1> QED BY <1>1, <1>2, Zenon DEF Handles, WroteAt, HeardAt

\* processCSNP and processPSNP settle what the frame lists and nothing else.
LEMMA SNPSettles ==
    ASSUME NEW n, NEW s \in NodeState(n), NEW c \in CircuitsOf(n), NEW f,
           f.kind \in {"csnp", "psnp"}, f.list \in [LspId -> Header \cup {NONE}]
    PROVE  Settled(n, s, processCSNP(s, c, f.list), c, f)
           /\ Settled(n, s, processPSNP(n, s, c, f.list), c, f)
<1>0. \A i \in LspId : /\ f.list[i] # NONE => f.list[i].seq \in Int
                       /\ s.db[i] # NONE => s.db[i].seq \in Int
  <2>1. \A i \in LspId : s.db[i] # NONE => s.db[i].seq \in Int
    BY Held, MaxSeqno
  <2>2. \A i \in LspId : f.list[i] # NONE => f.list[i].seq \in Int
    BY UpdateAssumption DEF Header
  <2> QED BY <2>1, <2>2, Zenon
<1>1. s.srm[c] \in [LspId -> {"off", "due", "wait"}]
      /\ s.srm \in [CircuitsOf(n) -> [LspId -> {"off", "due", "wait"}]]
  BY Zenon DEF NodeState
<1>2. ASSUME NEW F \in [LspId -> {"off", "due", "wait"}], NEW r \in NodeState(n),
             r.db = s.db, r.adj = s.adj, r.defer = s.defer, r.ack = s.ack, r.srm = s.srm,
             \A i \in LspId : F[i] \in {s.srm[c][i], "due"} \/ (s.db[i] # NONE => Settles(f, i, s.db[i].seq))
      PROVE  Settled(n, s, [r EXCEPT !.srm[c] = F], c, f)
  <2> DEFINE t == [r EXCEPT !.srm[c] = F]
  <2>1. /\ t \in NodeState(n) /\ t.db = r.db /\ t.adj = r.adj /\ t.defer = r.defer /\ t.ack = r.ack
        /\ t.srm = [r.srm EXCEPT ![c] = F]
    BY Zenon DEF NodeState
  <2> HIDE DEF t
  <2>2. \A d \in CircuitsOf(n) : t.srm[d] = IF d = c THEN F ELSE s.srm[d]
    BY <1>1, <1>2, <2>1
  <2>3. \A d \in CircuitsOf(n), j \in LspId :
           \/ t.srm[d][j] \in {s.srm[d][j], "due"}
           \/ d = c /\ (s.db[j] # NONE => Settles(f, j, s.db[j].seq))
    BY <1>2, <2>2
  <2>4. Settled(n, s, t, c, f)
    BY <1>2, <2>1, <2>3, Zenon DEF Settled
  <2> QED BY <2>4, Zenon DEF t
<1>3. Settled(n, s, processPSNP(n, s, c, f.list), c, f)
  <2> DEFINE Both == {i \in LspId : f.list[i] # NONE /\ s.db[i] # NONE}
             Acked == {i \in Both : c \in P2P /\ f.list[i].seq >= s.db[i].seq}
             Resend == {i \in Both : isDIS(n, s, c) /\
                            (s.db[i].seq > f.list[i].seq \/ Conflict(f.list[i], s.db[i]))}
             F == [i \in LspId |-> IF i \in Acked THEN "off"
                                   ELSE IF i \in Resend THEN "due" ELSE s.srm[c][i]]
  <2>1. processPSNP(n, s, c, f.list) = [s EXCEPT !.srm[c] = F]
    BY Zenon DEF processPSNP
  <2>2. \A i \in Acked : s.db[i] # NONE => Settles(f, i, s.db[i].seq)
    BY Zenon DEF Settles
  <2> HIDE DEF Acked, Resend
  <2>3. F \in [LspId -> {"off", "due", "wait"}]
    BY <1>1, Zenon
  <2>4. \A i \in LspId : F[i] \in {s.srm[c][i], "due"} \/ i \in Acked
    BY Zenon
  <2> HIDE DEF F
  <2> QED BY <1>2, <2>1, <2>2, <2>3, <2>4, Zenon
<1>4. Settled(n, s, processCSNP(s, c, f.list), c, f)
  <2> DEFINE Listed  == {i \in LspId : f.list[i] # NONE}
             Request == {i \in Listed : newer(f.list[i], s.db[i])}
             Resend  == {i \in {j \in LspId : s.db[j] # NONE} : i \in Listed =>
                            s.db[i].seq > f.list[i].seq \/ Conflict(f.list[i], s.db[i])}
             Agreed == Listed \ (Request \cup Resend)
             F == [i \in LspId |-> IF i \in Resend THEN "due"
                                   ELSE IF i \in Agreed THEN "off" ELSE s.srm[c][i]]
             r == [s EXCEPT !.ssn[c] = @ \cup Request]
  <2>1. Request \subseteq LspId
    BY Zenon
  <2>2. \A i \in Agreed : s.db[i] # NONE => Settles(f, i, s.db[i].seq)
    <3> SUFFICES ASSUME NEW i \in Agreed, s.db[i] # NONE PROVE Settles(f, i, s.db[i].seq)
      BY Zenon
    <3>1. i \in LspId /\ f.list[i] # NONE /\ ~(s.db[i].seq > f.list[i].seq)
      BY Zenon
    <3>2. f.list[i].seq >= s.db[i].seq
      BY <1>0, <3>1
    <3> QED BY <3>1, <3>2, Zenon DEF Settles
  <2>3. processCSNP(s, c, f.list) = [r EXCEPT !.srm[c] = F]
    <3>1. r.srm[c] = s.srm[c]
      BY Zenon DEF NodeState
    <3> QED BY <3>1, Zenon DEF processCSNP
  <2> HIDE DEF Agreed, Resend, Request
  <2>4. F \in [LspId -> {"off", "due", "wait"}]
    BY <1>1, Zenon
  <2>5. \A i \in LspId : F[i] \in {s.srm[c][i], "due"} \/ i \in Agreed
    BY Zenon
  <2> HIDE DEF F
  <2>6. /\ r \in NodeState(n) /\ r.db = s.db /\ r.adj = s.adj /\ r.defer = s.defer
        /\ r.ack = s.ack /\ r.srm = s.srm
    BY <2>1, Zenon DEF NodeState
  <2> HIDE DEF r
  <2> QED BY <1>2, <2>2, <2>3, <2>4, <2>5, <2>6, Zenon
<1> QED BY <1>3, <1>4, Zenon

\* n has an LSP frame for i to read, and takes one of the branches of processLSP.
Reads(n, c, i, h) == \E f \in Range(net[c][n]) : f.kind = "lsp" /\ f.id = i /\ f.hdr = h

Branches(n, c, i, h, s) ==
    \/ HoldNewer(n, c, i, h, s) \/ HoldPurge(n, c, i, h, s)
    \/ ConflictForeign(n, c, i, h, s) \/ ConflictOwn(n, c, i, h, s)
    \/ Duplicate(n, c, i, h, s) \/ UnknownPurge(n, c, i, h, s)
    \/ OverLimit(n, c, i, h, s) \/ Reclaim(n, c, i, h, s)
    \/ Disown(n, c, i, h, s) \/ Install(n, c, i, h, s)

\* Every branch of processLSP.
LEMMA LSPHandles ==
    ASSUME NEW n, NEW s \in NodeState(n), OwnOK(n, s), NEW c \in CircuitsOf(n), NEW i \in LspId,
           NEW h \in Header, h.seq \in Seqno, Reads(n, c, i, h), Branches(n, c, i, h, s)
    PROVE  \E t : Handles(n, s, t) /\ Handled(n, c, t)
<1>0. h.seq \in Nat /\ (s.db[i] # NONE => s.db[i].seq \in Nat)
  BY Held, MaxSeqno
<1>1. CASE HoldNewer(n, c, i, h, s) \/ HoldPurge(n, c, i, h, s)
  BY <1>1, FlagHandles, Zenon DEF HoldNewer, HoldPurge
<1>2. CASE ConflictForeign(n, c, i, h, s)
  BY <1>2, ExpireHandles, Zenon DEF ConflictForeign, Conflict
<1>3. CASE ConflictOwn(n, c, i, h, s) \/ Reclaim(n, c, i, h, s)
  <2>1. /\ s.db[i] # NONE /\ (newer(h, s.db[i]) \/ h.seq = s.db[i].seq) /\ Owner[i] = n
        /\ Handled(n, c, reoriginateOwn(s, i, h.seq))
    BY <1>3, Zenon DEF ConflictOwn, Conflict, OwnOK, Reclaim, Accepted, Originating, ownsLSP
  <2>2. s.db[i].seq <= h.seq
    BY <1>0, <2>1 DEF newer
  <2>3. Handles(n, s, reoriginateOwn(s, i, h.seq))
    BY <2>1, <2>2, OwnHandles, Zenon
  <2> QED BY <2>1, <2>3, Zenon
<1>4. CASE Duplicate(n, c, i, h, s) \/ OverLimit(n, c, i, h, s)
  <2>1. Handled(n, c, s) \/ Handled(n, c, setSSN(s, c, i))
    BY <1>4, Zenon DEF Duplicate, OverLimit
  <2> QED BY <2>1, FlagHandles, Zenon
<1>5. PICK f \in Range(net[c][n]) : f.kind = "lsp" /\ f.id = i /\ f.hdr = h
  BY Zenon DEF Reads
<1>6. CASE UnknownPurge(n, c, i, h, s)
  <2>1. h.zero /\ (Handled(n, c, s) \/ Handled(n, c, setSSNAck(s, c, i, h)))
    BY <1>6, Zenon DEF UnknownPurge
  <2>2. Handles(n, s, setSSNAck(s, c, i, f.hdr))
    BY <1>5, <2>1, AckHandles, Zenon
  <2>3. Handles(n, s, setSSNAck(s, c, i, h))
    BY <1>5, <2>2, Zenon
  <2> QED BY <2>1, <2>3, FlagHandles, Zenon
<1>7. CASE Disown(n, c, i, h, s)
  <2>1. Owner[i] = n /\ newer(h, s.db[i]) /\ ~h.zero /\ Handled(n, c, store(s, i, purge(h.seq, FALSE)))
    BY <1>7, Zenon DEF Disown, Accepted
  <2>2. s.db[i] # NONE => s.db[i].seq < h.seq
    BY <1>0, <2>1 DEF newer
  <2>3. FALSE \in BOOLEAN
    BY Zenon
  <2>4. Handles(n, s, store(s, i, purge(h.seq, FALSE)))
    BY <2>1, <2>2, <2>3, FreshHandles, Zenon
  <2> QED BY <2>1, <2>4, Zenon
<1>8. CASE Install(n, c, i, h, s)
  <2>1. Handled(n, c, install(s, c, i, h))
    BY <1>8, Zenon DEF Install
  <2>2. Handles(n, s, install(s, c, i, f.hdr))
    BY <1>5, InstallHandles, Zenon
  <2>3. Handles(n, s, install(s, c, i, h))
    BY <1>5, <2>2, Zenon
  <2> QED BY <2>1, <2>3, Zenon
<1> QED BY <1>1, <1>2, <1>3, <1>4, <1>6, <1>7, <1>8, Zenon DEF Branches

\* Flags changed after a handler, in a way a handler may change them.
LEMMA HandlesThen ==
    ASSUME NEW n, NEW s, NEW r, NEW t, Handles(n, s, r), Handles(n, r, t), t.db = r.db,
           \A c \in CircuitsOf(n), i \in LspId : t.ack[c][i] \in {r.ack[c][i], NONE},
           t.adj = r.adj
    PROVE  Handles(n, s, t)
<1>1. \A i \in LspId : WroteAt(n, i, s.db[i], t.db[i])
  BY Zenon DEF Handles
<1>2. ASSUME NEW c \in CircuitsOf(n), NEW i \in LspId PROVE FlowsAt(n, s, t, c, i)
  <2>1. FlowsAt(n, s, r, c, i) /\ FlowsAt(n, r, t, c, i)
    BY Zenon DEF Handles
  <2>2. CASE ~Flagged(r, c, i)
    <3>1. Flagged(t, c, i) \/ FlowsAt(n, s, t, c, i)
      BY <2>1, <2>2, Zenon DEF FlowsAt
    <3> QED BY <3>1, Zenon DEF FlowsAt
  <2>3. CASE Flagged(r, c, i)
    BY <2>1, <2>3, Zenon DEF FlowsAt
  <2> QED BY <2>2, <2>3, Zenon
<1>3. ASSUME NEW c \in CircuitsOf(n), NEW i \in LspId PROVE AckedAt(n, s, t, c, i)
  <2>1. AckedAt(n, s, r, c, i) /\ t.ack[c][i] \in {r.ack[c][i], NONE}
    BY Zenon DEF Handles
  <2>2. CASE t.ack[c][i] = NONE
    BY <2>2, Zenon DEF AckedAt
  <2>3. CASE t.ack[c][i] = r.ack[c][i]
    BY <2>1, <2>3, Zenon DEF AckedAt
  <2> QED BY <2>1, <2>2, <2>3, Zenon
<1>4. \A c \in CircuitsOf(n) : HeardAt(n, s, t, c)
  BY Zenon DEF Handles, HeardAt
<1> QED BY <1>1, <1>2, <1>3, <1>4, Zenon DEF Handles

\* ageLSPs, when no purge is dropped.
LEMMA AgeHandles ==
    ASSUME NEW n, NEW s \in NodeState(n)
    PROVE  Handles(n, s, ageLSPs(s, {}))
           /\ \A c \in CircuitsOf(n), i \in LspId :
                  ageLSPs(s, {}).ack[c][i] \in {s.ack[c][i], NONE}
<1> DEFINE Old == {i \in LspId : s.db[i] # NONE /\ s.db[i].age = "expired" /\ ~s.db[i].own}
           t == ageLSPs(s, {})
<1>1. t \in NodeState(n)
  <2>1. {} \subseteq {i \in LspId : s.db[i] # NONE /\ s.db[i].age = "purged"}
    OBVIOUS
  <2> QED BY <2>1, AgeSound, Zenon DEF Sound
<1>2. \A i \in LspId : s.db[i] # NONE => /\ expired(s.db[i]) \in Entry
                                         /\ expired(s.db[i]).seq = s.db[i].seq
                                         /\ expired(s.db[i]).age = "purged"
  BY Held, PurgeEntry DEF expired
<1>3. /\ \A i \in LspId : t.db[i] = IF i \in Old THEN expired(s.db[i]) ELSE s.db[i]
      /\ t.adj = s.adj /\ t.defer = s.defer
  BY Zenon DEF NodeState, ageLSPs
<1>4. \A c \in CircuitsOf(n), i \in LspId :
          /\ t.srm[c][i] = IF i \in Old THEN "due" ELSE s.srm[c][i]
          /\ t.ack[c][i] = IF i \in Old THEN NONE ELSE s.ack[c][i]
  BY Zenon DEF NodeState, ageLSPs
<1>5. \A i \in Old : s.db[i] # NONE
  OBVIOUS
<1> HIDE DEF Old, t
<1>6. \A i \in LspId : WroteAt(n, i, s.db[i], t.db[i])
  BY <1>2, <1>3, <1>5, NilAssumption, Zenon DEF WroteAt, Zero
<1>7. \A c \in CircuitsOf(n), i \in LspId : FlowsAt(n, s, t, c, i)
  <2> TAKE c \in CircuitsOf(n), i \in LspId
  <2>1. CASE i \in Old
    BY <1>4, <2>1 DEF FlowsAt, Flagged
  <2>2. CASE i \notin Old
    BY <1>3, <1>4, <2>2, Zenon DEF FlowsAt, Flagged
  <2> QED BY <2>1, <2>2, Zenon
<1>8. \A c \in CircuitsOf(n), i \in LspId : t.ack[c][i] \in {s.ack[c][i], NONE} /\ AckedAt(n, s, t, c, i)
  BY <1>4, Zenon DEF AckedAt
<1>9. \A c \in CircuitsOf(n) : HeardAt(n, s, t, c)
  BY <1>3, Zenon DEF HeardAt
<1> QED BY <1>1, <1>6, <1>7, <1>8, <1>9, Zenon DEF Handles, t

\* The deferred synchronizations.
LEMMA ResyncHandles ==
    ASSUME NEW n, NEW s \in NodeState(n)
    PROVE  Handles(n, s, resync(s)) /\ resync(s).ack = s.ack /\ resync(s).adj = s.adj
<1> DEFINE t == resync(s)
<1>1. t \in NodeState(n) /\ t.db = s.db
  BY ResyncFlags
<1>2. t.ack = s.ack /\ t.adj = s.adj
  BY Zenon DEF NodeState, resync
<1>3. \A c \in CircuitsOf(n) :
          /\ t.srm[c] = IF ResyncDue(s, c) THEN flagAll(s, s.srm[c]) ELSE s.srm[c]
          /\ t.defer[c] = (s.defer[c] /\ ~ResyncDue(s, c))
  BY Zenon DEF NodeState, resync
<1> HIDE DEF t
<1>4. \A c \in CircuitsOf(n), i \in LspId : FlowsAt(n, s, t, c, i)
  <2> TAKE c \in CircuitsOf(n), i \in LspId
  <2>1. CASE ResyncDue(s, c) /\ s.db[i] # NONE
    <3>1. t.srm[c][i] = "due"
      BY <1>3, <2>1 DEF flagAll
    <3> QED BY <3>1 DEF FlowsAt, Flagged
  <2>2. CASE s.db[i] = NONE
    BY <1>1, <2>2, Zenon DEF FlowsAt
  <2>3. CASE ~ResyncDue(s, c)
    BY <1>1, <1>2, <1>3, <2>3, Zenon DEF FlowsAt, Flagged
  <2> QED BY <2>1, <2>2, <2>3, Zenon
<1>5. \A c \in CircuitsOf(n), i \in LspId : AckedAt(n, s, t, c, i)
  BY <1>2, Zenon DEF AckedAt
<1>6. \A c \in CircuitsOf(n) : HeardAt(n, s, t, c)
  BY <1>2, Zenon DEF HeardAt
<1>7. \A i \in LspId : WroteAt(n, i, s.db[i], t.db[i])
  BY <1>1, Zenon DEF WroteAt
<1> QED BY <1>1, <1>2, <1>4, <1>5, <1>6, <1>7, Zenon DEF Handles, t

\* The two ends of a circuit see each other.
LEMMA Opposite ==
    ASSUME NEW n \in Node, NEW c \in CircuitsOf(n), NEW m \in Neighbors(n, c)
    PROVE  c \in Circuit /\ m \in Node /\ m # n /\ m \in Ends[c] /\ n \in Neighbors(m, c)
<1>1. c \in Circuit /\ n \in Ends[c] /\ m \in Ends[c] /\ m # n
  BY Zenon DEF CircuitsOf, Neighbors
<1>2. Ends[c] \subseteq Node
  BY <1>1, UpdateAssumption, Zenon
<1> QED BY <1>1, <1>2, Zenon DEF Neighbors

\* What a node starts with.
LEMMA StartedWith ==
    ASSUME NEW n, NEW b
    PROVE  /\ Started(n, b).ack = [c \in CircuitsOf(n) |-> [i \in LspId |-> NONE]]
           /\ Started(n, b).adj = [c \in CircuitsOf(n) |-> [m \in Node |-> "down"]]
BY Zenon DEF Started

\* In particular its own LSPs and no others.
LEMMA StartedHolds ==
    ASSUME NEW n \in Node, NEW b \in Body, NEW i \in LspId, Pseudonode[i] = NONE
    PROVE  Started(n, b).db[i] = IF Owner[i] = n THEN live(1, b) ELSE NONE
BY Zenon DEF Started
=============================================================================
