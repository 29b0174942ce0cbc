# goisis in TLA+

TLA+ specifications of goisis, an IS-IS routing daemon written in Go: what its
handlers do to the state they own, checked with TLC on small instances and, for
the safety properties that matter most, proved with TLAPS for every instance.
`PROJECT.json` lists the runs, the mutants, the theorems, and for each definition
the source lines it stands for. Paths below are relative to `src/`.

## The system and its parts

One goroutine, `IsisServer.Serve` (`pkg/server/server.go`), owns all protocol
state. It selects over received frames (one reader goroutine per circuit), queued
management operations, a one-second ticker (`housekeeping`) and the SPF hold
timer. After every arm it drains a pending LSP regeneration and, unless held,
recomputes the routes.

| Part | Source | Module |
|---|---|---|
| Update process: LSP, CSNP, PSNP handlers, SRM/SSN flags, transmission | `flooding.go`, `circuit.go` | `UpdateProcess` |
| Database entries, ageing, purges, sequence exhaustion | `lsdb.go`, `lifetime.go` | `UpdateProcess` |
| Origination (`originate`, stale fragments, pseudonode LSPs) | `origination.go` | `UpdateProcess`, `LanFlooding` |
| Point-to-point hellos, three-way handshake, resynchronization | `hello.go`, `flooding.go` | `P2PFlooding` |
| LAN hellos, DIS election | `hello.go`, `dis.go` | `LanFlooding` |
| Serve loop, SPF back-off, `programFIB`, retry, sweep | `server.go`, `rib.go`, `pkg/fib` | `RouteProgramming` |
| Event subscriptions (routes) | `watch.go` | `RouteProgramming` |
| SPF, inter-level propagation, flex-algo, SRv6 SIDs, RFC 5306 helper, circuit lifecycle, management queue, reload, interface watcher | `spf.go`, `flexalgo.go`, `srv6_endx.go`, `restart.go`, `circuit_events.go`, `mutate.go`, `pkg/config` | not yet |
| Codec, authentication, data link, metrics, API, command line | `pkg/packet`, `pkg/datalink`, `pkg/metrics`, `connect.go`, `cmd` | no (bytes and I/O) |

## How the modules correspond to the code

**`UpdateProcess`.** `node[n]` is one record because one goroutine owns it, and a
handler is an operator from record to record with the name it has in the source
(`processCSNP`, `reoriginateOwn`, `expirePurge`, `floodLSP`, ...). `net[c][n]` is
the queue of frames on circuit `c` that `n` has not read: first in first out,
lossy. Each branch of `processLSP` is an action (`HoldNewer`, `HoldPurge`,
`ConflictForeign`, `ConflictOwn`, `Duplicate`, `UnknownPurge`, `OverLimit`,
`Reclaim`, `Disown`, `Install`). A housekeeping tick is one action: `ageLSPs`, the
deferred synchronizations, then LSPs, PSNP and CSNP on every circuit.
Abstractions:

- Contents of an LSP are a member of `Body`; equal bodies have equal checksums.
- Time is the order of events: an entry is live, expired (its lifetime is over but
  `ageLSPs` has not run) or purged; a flag is due or waiting; the hold-down is on
  or over. A tick picks which waiting flags have come due and, within
  `maxLSPSendPerTick`, which flags it visits (the code walks a Go map) and which
  writes fail.
- A run of CSNPs covers the whole range of LSP IDs and is one frame, as is the run
  of PSNPs of one tick.
- `Learn` stands for `processLSP` on a circuit outside the model, for an LSP from
  beyond.
- One level. The levels have separate databases and flags.

**`P2PFlooding`** and **`LanFlooding`** extend it with hellos, which share the
wire with LSPs and SNPs, and with the next-state relation. A crash empties the
node and its receive queues; what it sent stays on the wire. In `P2PFlooding` a
hello says whether it echoes the receiver; on a LAN it carries the stations heard
and the sender's LAN ID. `electDIS` uses the winner's *advertised* LAN ID and
keeps the old value while none is known, as the code does.

**`RouteProgramming`** has the Serve goroutine stop between two prefixes of one
`programFIB`, because subscribers read their channels and the process can die
there. A route is what `sameRoute` compares plus what it does not (level,
preference class). What SPF computes is an input. `told` is what a subscriber
knows after it has read everything queued for it.

`MCP2P`, `MCLan` and `MCRoutes` give the constants their values.

## Runs

| Run | Shows |
|---|---|
| `p2p_delivery` | `NoLostUpdate`: an LSP an Up neighbor lacks always has a flag, or a deferred synchronization, that will send it |
| `p2p_convergence` | `Converges`: after any one fault, adjacencies come up and databases end up alike |
| `p2p_faults` | `VersionsAgree`, `OwnLSPs`, `NeverStepsBack` with sequence numbers that run out, crashes, expiry, withdrawal |
| `lan_election` | `OneDIS`: three stations agree on the best one, whatever the order of hellos |
| `lan_convergence` | under one fault: `OneDIS`; `OnePseudonode`, the pseudonode LSP of a station that is not DIS is purged everywhere and stays so; `LanConverges`, LSPs sent once and the DIS's CSNPs suffice |
| `lan_faults` | `DatabaseBounded`, `NeverStepsBack` at the database limit and at the last sequence number, with crashes and conflicting contents |
| `route_programming` | `KernelMirrorsRIB`, `WatchView`, `NoRepeatedEvents`, `RoutesInstalled` |

Five runs are expected to be violated. Each shows where a comment or the design
document says other than the code does:

- `p2p_purge`: a PSNP describing the live copy acknowledges the purge with the
  same sequence number (`flooding.go:648`); the neighbor keeps the LSP until it
  ages out.
- `p2p_restart`: a router restarts and is Up again before its neighbor notices, so
  that the neighbor does not "reinitialise" its adjacency (`docs/design.md:345`);
  the one CSNP that "draws out LSPs the neighbor holds and we do not"
  (`flooding.go:492`) is lost; nothing makes the neighbor send its LSPs before they
  are next refreshed.
- `p2p_reclaim`: a router that restarts at sequence number 1 is not "ignored until
  its stale LSP ages out" (`lsdb.go:297`, `docs/design.md:345`). It overtakes the
  old copy as soon as a neighbor floods it back (`flooding.go:241`), which is what
  `circuit_events.go:285` says.
- `lan_purge`: a CSNP that lists the live copy clears the flag of a purge with the
  same sequence number (`flooding.go:608`), here before the purge was sent, and the
  next CSNP of the DIS does not repair it, against `flooding.go:333` and `577`. The
  stations differ until the purge is dropped, after ZeroAgeLifetime, or the live
  copy ages out. `NoLostLanPurge` looks at one quiet state and works out what that
  next CSNP would do (`CSNPRepairs`).
- `watch_exact`: a route that changes only its level is not reported
  (`watch.go:43`, `rib.go:597`). `WatchView` is what does hold.

`NoLostUpdate` speaks of live LSPs and of adjacencies this side holds Up; the
first and the second of these findings are why it does not speak of purges, and
why its run has no crash.

### Bounds

`Budget` says how often each kind of fault happens, and `"any"` how often all of
them together; they are chosen so that each property meets the faults that
threaten it. Two faults in `p2p_delivery` are a lost acknowledgement and a
one-sided adjacency loss; convergence is claimed for one fault of any kind, and
the violated runs show combinations of two and three that break it. `SeqBound`
limits how many versions are originated: with 1 a router originates its LSP once
and reclaims or purges go further, with 2 (`p2p_delivery`, `p2p_faults`,
`p2p_reclaim`) it also renews it. In `p2p_convergence` a restarted router meets a
copy of its own number with other contents, not a higher one; that case is left to
`OwnLSPs` in `p2p_faults` and to `p2p_reclaim`. `MaxSeq` is 2 where exhaustion is
the question and out of reach otherwise. `LspId` has the LSPs a question needs:
pacing among several LSPs on p2p circuits is left to theorem `Delivery`.
`QueueBound` keeps a node from ticking while frames of earlier ticks are unread,
and one hello per direction is unread at a time; replies are not bounded, so
frames of two adjacencies and a tick still mix in one queue. `MaxSend` is 1, so
that pacing holds back an LSP as soon as two are flagged, as in `lan_faults`; it
is 2 in `lan_convergence`, since a tick visits the flags in any order and with 1
the model could pass over the same LSP for ever. Neither convergence run drops a
purge: the one fault is spent on what causes it. `Buffer` is 2 instead of 64: with
two prefixes a recompute overflows it. `Body` has two members where conflicting
contents matter. Symmetry is used for safety runs only: nodes are interchangeable
in `p2p_delivery`, where the LSP has no owner among them, bodies in `p2p_faults`,
and bodies and the two LSPs of `r1` in `lan_faults`.

`route_programming` and `watch_exact` do not check deadlock: a server that was
shut down does nothing more, and an idle one waits for input.

### Fairness

Weak fairness of receiving and of the tick: reader goroutines, the Serve loop and
its ticker do not stop. `FullTick` is a tick at which everything that waits has
come due, which recurs because the retransmission and CSNP intervals are finite.
Hellos are periodic: on a LAN the model lets a station send one only when nobody
has a hello unread, and strong fairness keeps the others from shutting it out, since a real
station's hello timer does not depend on theirs. The hold-down and the SPF hold are timers. Every
election requests a regeneration, which `drainLSPGen` runs within a second.
Nothing is assumed of subscribers, and no fault is fair.

## Proofs

Checked by TLAPS for all values of the constants that satisfy the named
assumptions (`UpdateAssumption`, `NilAssumption`, `P2PAssumption`,
`LanAssumption`, `RouteAssumption`): any topology, number of LSPs, faults.

- `P2PFloodingProofs`, `LanFloodingProofs`: `TypeCorrect` (`TypeOK`; among other
  things no sequence number passes the last one), `Ownership` (`OwnLSPs`),
  `Bounded` (`DatabaseBounded`) and `Monotone` (`NeverStepsBack`). The inductive
  invariant is `TypeOK /\ OwnLSPs /\ DatabaseBounded`. Ownership is needed even for
  types and monotonicity: that `reoriginateOwn` finds an entry, that `ageLSPs` never
  purges an own LSP and that a released hold-down meets no live entry all follow
  from it. `UpdateProcessProofs` shows once for each handler that it keeps the
  type, ownership and bound and only moves entries forward; the two modules combine
  those lemmas with their hellos. The bound is about LSPs of other routers: only
  `processLSP` adds one, and it counts all entries before it does.
- `P2PFloodingProofs`, while no router restarted and no purge was dropped (`Quiet`):
  `Agreement` (`VersionsAgree`) and `Delivery` (`Quiet => NoLostUpdate`). Neither is
  inductive, because both depend on what is in flight. `FramesTrue` says that what
  an LSP or SNP on the wire tells of its sender is still true of the sender's
  database or has been overtaken there, `AcksTrue` the same of a purge that is
  acknowledged without being stored, and `NeighborsKnown` that adjacencies are with
  the other end of their circuit. `Agreement` follows from every step's copies being
  old ones, purges of old ones or a version its originator just made (`CopyFrom`). Databases only go onward
  (`Monotone`), so these stay true when other nodes move, and a PSNP that clears a
  flag then speaks of a copy the neighbor really has. The two hypotheses of `Quiet`
  are what `p2p_restart` and the reuse of a dropped purge's number break.
- `RouteProgrammingProofs`: `TypeCorrect`, `Mirrored` (`KernelMirrorsRIB`),
  `GapFree` (`WatchView`), `EventsAreNews` (`NoRepeatedEvents`). The inductive
  invariant adds `Bookkeeping` to them: a wanted prefix that is not pending is
  in `fibInstalled`, an unwanted one is in neither set, and one outside
  `fibInstalled` is not in the kernel unless a delete failed. Without it nothing
  says that the `Withdraw` of a route that goes away is attempted at all, since
  `programFIB` withdraws only what `fibInstalled` holds.

Only model-checked: the liveness properties (`Converges`, `LanConverges`,
`OneDIS`, `OnePseudonode`, `RoutesInstalled`), which are out of TLAPS's reach.

## Left out, and the plan

Inside the modelled parts: an LSP larger than a circuit's MTU, a circuit whose
link is down, checksum failures (a lost frame), `drainSRM`, levels and areas in
hellos, the adjacency limit, restart options, the RFC 7987 lifetime filter,
adjacency events.

Order of the next extensions:

1. `Propagation`: level 1 and level 2 route sets, `l1ExportSet`, `l2LeakSet`, and
   the termination of the regeneration cascade between L1L2 routers.
2. `ShortestPaths`: `computeSPF` (two-way check, pseudonodes, overload, ECMP) and
   `betterRoute` against reference definitions on small graphs.
3. `Management`: `mgmtOperationQueued`, shutdown, ownership of the transport in
   `AddCircuit`; `CircuitLifecycle`: identifiers, farewell purges, queued events
   of a deleted circuit.
4. `LocalSIDs` (End, End.X, pending removals) and `Reload` (a batch with a refused
   call, repeated), each against an abstract specification of the state wanted.
5. `Adjacencies`: levels, restart holds and suppression, adjacency events for
   subscribers, and the synchronization window budget.
6. Fragment packing and the generation throttle.
7. Proofs: the safety half of each new module.
