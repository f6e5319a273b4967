# Specifications of the transparent mesh

The repository runs UDP applications (a distributed counter) unchanged behind
sidecar proxies. The sidecars intercept what an application sends to another
server, carry it over a reliable tunnel (RUDP), and can record a global
snapshot of the mesh with the Chandy-Lamport algorithm: a CRIU image of every
application plus the sidecars' record of what was in flight. A restore brings
back the images and replays the record.

This directory holds TLA+ specifications of that system, the TLC
configurations that check them on small instances, and proofs that TLAPS
checks for every value of the constants. `PROJECT.json` lists the runs, the
source lines each definition stands for, the faults each property was tried
on, the hazards and the findings.

    tlc -config MCRudp_safety.cfg MCRudp      # a run
    tlapm RudpProofs.tla                      # proofs
    tlapm SnapshotProofs.tla
    tlapm SnapshotCutProofs.tla
    tlapm SumTheorems.tla
    tlapm SnapshotCreditProofs.tla
    tlapm SnapshotWorthProofs.tla
    tlapm RestoreProofs.tla
    tlapm CounterClientProofs.tla

## Inventory

| Component | State | Operations | Interacts with |
|---|---|---|---|
| RUDP tunnel, `proxy/mesh_proxy.py` (`PeerState`, `TunnelProtocol`, `send_data`, `_retransmit_loop`) | per peer: `send_seq`, `unacked`, `recv_seq`, `recv_buffer` | send, receive data, receive ACK, retransmission pass | the peers' tunnels over lossy UDP; hands every in-order datagram to `process_and_deliver` |
| Intercept socket and routing, `mesh_proxy.py` (`_handle_local_intercept`, `drain_intercept`, `_forward_intercepted`) | kernel queue of the intercept socket | forward (RUDP between servers, plain otherwise, direct outside the subnet), START datagram | application through TPROXY; tunnel; controller |
| Snapshot controller, `proxy/snapshot_handler.py` | id, recording set, recorded channels, cut coordinates, deadline | first marker, marker, record, finish, abort, flush, post artifact, restore | called from `process_and_deliver`; calls `send_data`, `drain_intercept`, the receiver over HTTP |
| Breakout receiver, `proxy/breakout_receiver.py` | `/tmp` artifacts and images | checkpoint, restore, stop, trigger, run_sidecar, store, serve | one per host, single-threaded; runs podman |
| Counter application, `src/counter.py` (`node`) | `counter`, socket queue | TRANSFER, CREDIT, RESET, STATE | the sidecar beside it |
| Counter client, `src/counter.py` (`request_udp`, `sum_counters`) | none across calls | request with a timeout, sum poll | applications, over plain traffic |
| Restore, `run_restore.sh` and `restore_from_artifact` | none of its own | stop, restore images, start sidecars, seed and replay | receiver, controller, tunnel |
| Spoof sockets, `get_spoof_sock` | LRU of 512 sockets | get, evict, fall back | kernel |
| Scripts, tests, `counter.c`, demos | | | not modelled |

What makes the system hard:

* A sidecar is one event loop. Handlers are atomic with respect to each
  other, but the first marker's handler *blocks* in an HTTP request for as
  long as a checkpoint takes; the application and the other servers go on.
* The tunnel loses, duplicates and reorders; acknowledgements are lost too.
* An acknowledgement is sent before the datagram is delivered or recorded.
* Markers, timeouts, concurrent initiators and deaths meet in any order, and
  a controller keeps no memory of the snapshots it has finished.
* The sidecar is never checkpointed: what its socket queues hold at the cut
  is lost at a restore unless it was drained or recorded before.
* A restore is a shell script over HTTP: any command can fail, with or without
  its effect, and the operator runs the script again. Old instances and
  restored ones number different messages alike.
* The client reads whatever reaches its port, and polls a mesh that moves.

What makes each component correct:

* RUDP: the application gets what was sent, in order, each datagram once; no
  copy that is still needed is dropped; everything sent is delivered in the
  end; the retransmit loop falls silent.
* Snapshot: both ends of a channel restore to the same sequence number;
  images and recorded channels account for all credit; the running system
  loses nothing to a snapshot, completed or aborted; a snapshot finishes; no
  controller stays in one for ever; a snapshot is not taken twice.
* Restore: the total is what it was at the cut, however often and wherever the
  script failed; a restore that could not load everything adds no credit; the
  ends of a channel agree and the channel goes on.
* Receiver: one artifact and one image per server and snapshot, of the same
  cut; a command that fails is reported and leaves something to run again.
* Client: a sum that reports PASS is right.

## Modules

| Module | What it is |
|---|---|
| `FifoChannel` | Abstract: a reliable FIFO channel per ordered pair of servers |
| `Rudp` | The tunnel in detail; implements `FifoChannel` |
| `RudpProofs` | Theorems about `Rudp` |
| `RudpRedeploy` | `Rudp` with one sidecar replaced by a new process |
| `MCRudp`, `MCRudpRedeploy` | Instances for TLC |
| `Snapshot` | Controllers, applications and receivers over FIFO channels |
| `SnapshotProofs`, `SnapshotCutProofs` | Theorems about `Snapshot`: its types; its cut |
| `SumTheorems` | Laws of sums over finite sets and of counting in sequences |
| `SnapshotCreditProofs`, `SnapshotWorthProofs` | Theorems about `Snapshot`: the credit of the running mesh; the credit of a snapshot |
| `SnapshotFaults` | `Snapshot` with deliveries that raise and images taken late |
| `MCSnapshot`, `MCSnapshotFaults` | Instances for TLC |
| `Restore` | `run_restore.sh`, the receiver's commands and fresh sidecars, over the RUDP links of the old and the new mesh |
| `CounterClient` | `Restore` with the operator's `sum` that verifies it |
| `RestoreProofs` | Theorems about `Restore`: its channels and its credit |
| `CounterClientProofs` | Theorems about `CounterClient`: what a PASS is worth |
| `MCRestore`, `MCRestoreHosts` | Instances for TLC |

`Snapshot` does not repeat the tunnel: it uses the channels that
`RudpProofs!RefinesFifo` and the run `rudp_live` justify. `Restore` cannot:
when one end of a channel is replaced it is no longer a FIFO channel, so
`Restore` has the sequence numbers of both ends, without the packets. It starts
from the cuts that `SnapshotCutProofs!CutsMatch`,
`SnapshotWorthProofs!SnapshotsAccount` and the run `snap_races` show a completed
snapshot to leave, or from the files of an aborted one. Operators marked
`FAULT` are not part of any specification; each is the plausible mistake one
property was tried on.

### Rudp

A flow `<<p, q>>` pairs the sender half of `p`'s PeerState for `q` with the
receiver half of `q`'s for `p`. `unacked` and `recv_buffer` are sets of
entries with distinct numbers. The tunnel is two sets: a packet in
`packets` can be received any number of times in any order until it is lost.

| Code | Definition |
|---|---|
| `send_data` | `SendData` |
| `datagram_received`, Type 0 | `ReceiveData`: the ACK, then one of `DeliverInOrder`, `DeliverRaises`, `BufferFuture`, `DropStale` |
| the flush loop | `HandOver` up to the first number missing from the buffer |
| `datagram_received`, Type 1 | `ReceiveAck` |
| one pass of `_retransmit_loop` over all peers | `RetransmitPass`, with any set of expired entries |

`sent` and `delivered` are histories. Clocks, headers and ports are
abstracted. `DeliverRaises` is an exception from `process_and_deliver` (a
socket cannot be created or sent on) at any point of the flush loop; asyncio
swallows it and the loop ends there.

### Snapshot

`wire[<<p, q>>]` is everything `p`'s sidecar numbered for `q` that `q`'s has
not processed, wherever the packets are. `outbox` is the intercept socket's
queue, `inbox` the application socket's. The first marker's handler is split
at its blocking call:

| Code | Definition |
|---|---|
| `process_message`, first marker, to `drain_intercept` | `Begin` (from `Start` or `ReceiveFirstMarker`) |
| receiver's `checkpoint` | `TakeImage`, or `CheckpointFails` |
| the rest of the handler, and the caller's remaining steps | `Resume` |
| `process_message`, other markers | `ReceiveMarker`, `IgnoreMarker`, `StartIgnored` |
| `process_message`, recording | `Record` |
| delivery to the application | `Deliver` |
| `_finish_global_snapshot`, `_abort_snapshot`, `_build_artifact`, `_post_artifact`, `_flush_and_reset` | `End` = `Post` and `FlushAndReset` |
| `check_timeout` | `Timeout` |
| `_handle_local_intercept` | `Forward`, `Start`, `StartIgnored` |
| TRANSFER and CREDIT in `counter.py` | `Transfer`, `ReadCredit` |

A timeout happens when waiting longer cannot help (`Stalled`), or early, at
most `MaxEarly` times: a server waits 30 s from the end of its own checkpoint,
a peer's checkpoint may take up to 120 s, and a host's receiver does them one at a time.
Every credit carries one unit. A retransmitted or reordered packet is not
visible here. A packet's path from `recv_buffer` through the flush loop is
several steps of `Snapshot`, although they are one callback: the same steps
happen when the packets arrive one by one.

### SnapshotFaults

In `Snapshot` every delivery succeeds, as in `Rudp` with `MaxFail = 0`, and a
checkpoint POST that fails leaves no image. `SnapshotFaults` has the rest:

| Code | Definition |
|---|---|
| `_flush_and_reset`, a `sendto` raises | `FlushRaises`: the reset, and the deliveries up to that one |
| ... in the handler of the last marker | `ReceiveMarkerRaises`: the snapshot ends, `recv_seq` stays at the marker |
| ... in `check_timeout` | `TimeoutRaises`: nothing catches it, and `_retransmit_loop` ends |
| `process_and_deliver`, a `sendto` raises | `DeliverRaises` |
| a loss that `_retransmit_loop` would have made good | `Strand` |
| the checkpoint POST times out, the receiver runs its command later | `CheckpointLate`, `LateImage` |

A message that was acknowledged and not delivered is still at the head of its
channel in `wire`, and the channel is `stuck`, unless a copy of it is still
about. If it is the last marker of a snapshot, that copy is a first marker and
begins the snapshot again (`ReceiveFirstMarker`). A server in `silent` looks at
no deadline and resends nothing. An artifact whose POST was given up and that
the receiver stores later is the first branch of `Post`: nobody reads it
in between.

### Restore

The state is the servers' containers, what the snapshot left in `/tmp`, both
PeerStates of every channel, and where each run of the script is. A CREDIT is
the only message here and carries one unit, so an entry of `unacked` or
`recv_buffer` is its number.

| Code | Definition |
|---|---|
| `run_restore.sh`, arguments and pre-flight | `RunRestore`, also after an earlier run ended or failed |
| step 1, `breakout_ok stop` | `Stop`, `StopFails` (the loop goes on) |
| step 2, `breakout restore` | `RestoreApp`, `RestoreFails` (podman refuses a name in use; an error; a timeout, with or without its effect) |
| step 4, `breakout run_sidecar` | `RunSidecar`, `RunSidecarFails` |
| the next node, the next loop, a failed call | `Advance`, `Abort` |
| `start`, `restore_from_artifact` | `LoadArtifact`: `Seed` and the replay; `LoadFails`: nothing, or seeded and part of the replay |
| `datagram_received` | `Receive` with `DeliverInOrder`, `BufferFuture`, `DropStale` |
| TRANSFER | `Transfer` |

`Init` enumerates what a snapshot left behind. `CompleteCut` is that of one nobody
aborted: what each channel carried before its marker, and how much of that was
recorded; the images lack the rest. `AbortedCut` is that of one that some server
aborted, whose artifacts `restore_from_artifact` loads all the same. Channels whose
marker was awaited have no coordinate, and what came after the abort on
them is in no file; servers that a late marker made begin the snapshot again
(`snap_restart`) have an image of that later moment, and an artifact of it if that
POST succeeded. The credit of such files is more or less than there was.
`Consistent` says of files that they hold all credit and match. After
the snapshot the old mesh goes on, with the numbers the restored mesh will use
again. The model relies on four things:

* a complete snapshot leaves a `CompleteCut`: `snap_races`, `CutsMatch` and
  `SnapshotsAccount` show that, except for what `snap_gap` finds. Of the many states an
  aborted snapshot can leave, `AbortedCut` has those where the channels
  all carried the same and a second beginning found them empty;
* no packet and no acknowledgement outlives the instance that sent it: a
  replaced server has a new network namespace and comes back after at least the two
  seconds of step 3;
* the artifact is loaded before the tunnel is read: `create_datagram_endpoint`
  resumes `start` before the first read event is handled (the fault
  `ServingEarly` shows what that order is good for);
* the members are the default three of `config.py`, which `run_sidecar` does
  not override.

### CounterClient

`sum_counters` asks the servers in order, `StablePolls` times over. A request
in `requests` and an answer in `replies` can be late or overtaken; one that is
lost is one that stays. `ReadReply` takes *any* answer on its way: the socket
is not connected, the port is the same every time, and `get_counter` does not look
at the name in the answer (`from`). `GiveUp` is the 500 ms timeout. `MeshStep` is the mesh going on
meanwhile, without transfers or restores: `mesh_ctl.sh` is used serially. A
late "OK TRANSFER" would be read as no counter; that is `GiveUp` as well.

## Runs

| Run | Shows | Bounds |
|---|---|---|
| `rudp_safety` | `TypeOK`, `InOrder`, `NothingLost`, `BufferAhead` | one flow, 4 datagrams of 2 payloads, 1 raising delivery; 316,195 states |
| `rudp_live` | `EventuallyAcked`, `ImplementsFifo` | 3 datagrams; 8,421 states |
| `rudp_raise` | finding: `EventuallyDelivered` fails after a raising delivery | 2 datagrams |
| `rudp_redeploy` | finding: `EventuallyDelivered` fails after a redeployment | 2 datagrams, 1 redeployment |
| `snap_races` | `TypeOK`, `LiveConservation`, `SeqMatch`, `CutAccounts`, `StoredOnce` | 3 servers, 2 ids, 1 transfer, 1 early timeout, 4 first markers; 298,037 states |
| `snap_faults` | `RaisesOnlyLose`, `OnceMatches`, `OnceAccounts` | 2 servers, 2 ids, 2 transfers, 1 failed or late POST, 1 raising delivery, 4 first markers; 850,901 states |
| `snap_live` | `Completes`, `NeverPinned` | 3 servers, 2 ids, 1 death, 1 failed POST; 119,410 states |
| `snap_gap` | finding: `CutConserves` fails | 2 servers, 1 transfer |
| `snap_overtake` | finding: `NoOvertaking` fails | 3 servers, 2 transfers |
| `snap_restart` | finding: `CompleteMatches` fails | 3 servers, 1 early timeout |
| `restore` | `TypeOK`, `RestoreConserves`, `NeverForges`, `ChannelsWhole`, `VerdictSound`, `CatchesUp` | 2 servers, 1 script run twice, 2 transfers after and 1 credit per channel before the cut, 1 failed command, 3 polls, 1 give-up; files of a complete snapshot, or of an aborted one with 1 null coordinate and 1 server that began twice; 1,364,468 states |
| `restore_hosts` | finding: `RestoreConserves` fails with one script per host | 2 servers, 1 transfer, each script once |

Flows of RUDP share no state, so one flow is enough; four datagrams allow two
buffered ones around a hole with a stale one behind. Three servers are the
default membership and the smallest mesh in which a channel between two
non-initiators is recorded. `MaxBegin` counts first markers. In `snap_races`,
with 4, one snapshot of three servers can finish and another, or the same
one again, begin; of two that overlap neither may finish, or one. In `snap_faults`,
with 4 for two servers, two whole snapshots can follow each other or
overlap, so that what the first lost is missing from the second; its
two transfers allow one message delivered and one not in one flush. `snap_live`
has 6, two whole snapshots of three servers, and never reaches it. In
`snap_restart` a snapshot that was begun again can feed itself for ever.
Two servers and two channels are enough for `restore`: a restore couples a
server with one peer at a time, the script's loops are over a set, and the sum
needs two answers to confuse. Two runs of the script and one failure bring every
intermediate state of a restore under a second one; two transfers allow one
credit of the old mesh and one of the new with the same number, or two
reordered ones. Two stable polls are the least that make `VerdictSound` true
and less than the 3, 5 and 10 the scripts ask for.
Symmetry is used in safety runs only. `CHECK_DEADLOCK FALSE` in the `Snapshot`
and `Restore` runs: a mesh without transfers, snapshots or restores left to do
rests.

### Properties that need a word

* `CutAccounts` is what the recorder does guarantee: images, recorded channels,
  *and* what lay in two kernel queues when the image was taken. `CutConserves`
  drops the second of those queues, which no image holds, and fails: whatever
  the application emits between `drain_intercept` and the freeze is lost at a
  restore. Both count the datagrams unread in the application's own socket as
  part of its image; where CRIU drops a UDP read queue they are lost as well.
* `SeqMatch` and `StoredOnce` except snapshots that some server aborted.
  `CompleteMatches` drops the exception and fails: a marker that arrives
  after an abort is a first marker again. All servers then store "complete"
  artifacts of different cuts, and since each restart sends new markers
  the snapshot can go round for as long as markers meet idle controllers.
  `OnceMatches` names the reason: with every server beginning once there is
  no mismatch, aborted or not. A raise in the flush is another way to begin
  twice, and there `SeqMatch` fails although nobody aborted anything.
* `RaisesOnlyLose` is an inequality because a raise in the flush does lose what is
  behind it: it was acknowledged and taken out of `channel_states`. That it is
  not delivered twice hangs on the reset coming before the first delivery.
  `OnceAccounts` leaves out snapshots with a late image, whose credit can be
  too little and too much, and says of the others that a loss is missing from
  the snapshots after it.
* `NeverPinned` and `Completes` hold of `Snapshot`, not of `SnapshotFaults`: a
  server whose flush raised in `check_timeout` never looks at a deadline again,
  and resends nothing. `ImplementsFifo` has the same proviso.
* `RestoreConserves` is about files that are consistent and could all be
  loaded (`unseeded = {}`). An artifact with a null is from an aborted snapshot, "cut
  NOT consistent", and a restore from it is promised nothing: it loses credit,
  or has one twice, and strands a channel behind a coordinate that was never
  recorded, which is why `ChannelsWhole` and `CatchesUp` are about channels whose
  two coordinates are the same (`Joined`). What remains whatever the files are and
  however loading went is `NeverForges`: the restore adds nothing to what is in
  them. Both need what the script does about failures: a failed
  stop is tolerated, the failed restore that follows from it is not.
* With one script per host (`restore_hosts`) the first fails. The receiver's
  sequence number cannot tell an old instance of its peer from a restored one.
* `VerdictSound` is false with `StablePolls = 1`: one late answer makes a
  wrong poll add up. `test/verify_sum.sh` accepts the first good poll
  of its own loop over `state`. It claims the total only where the files hold no credit
  twice, which could make up for one that is lost or on its way.
* `LiveConservation` is stated while no server is dead: a dead server takes
  its counter with it.

### Fairness

`rudp_live`: the retransmit loop runs every 0.1 s for as long as the process
lives (weak fairness of resending each entry), and a packet or an
acknowledgement that is sent again and again is not lost every time (strong
fairness of each arrival). No fairness for sending or losing.

`snap_live`: weak fairness of every live server's steps together, that is of
its event loop, its application and its receiver. Every step consumes a
message, a datagram, a phase or an awaited marker, so one kind of step cannot
starve the others in the model. Fair arrival on the channels is what
`rudp_live` shows. The environment (transfers, operators, deaths) is not fair.

`restore`: weak fairness of `ReceiveNext`, the next datagram of a channel
arriving while its sender, which retransmits every 0.5 s, and its receiver are
both up; and of a fresh sidecar finishing `start`, with its artifact or without. The operator,
the script and the client are not fair.

## Proofs

`RudpProofs` proves, for all flows, payloads and bounds, with only
`MaxSend \in Nat` and `MaxFail \in Nat` assumed:

* `TypeCorrect`, `DeliveredInOrder`, `NoLastCopyFreed`, `BufferStaysAhead`:
  the four invariants of `rudp_safety`;
* `RefinesFifo`: every step is a step of `FifoChannel` or a stutter.

`InOrder` is not inductive: that the next datagram is the right one depends on
the copy in the packet or the buffer. `CopiesInv` says that every copy,
in `unacked`, on the tunnel or in `recv_buffer`, is the datagram of its number,
and that buffered numbers lie beyond `recv_seq`. `NothingLost` depends on
acknowledgements: `AckedInv` says that an acknowledgement on the tunnel
names a datagram its receiver has delivered or buffered, while no delivery
has raised. `IndInv` is their conjunction with `TypeOK`, `InOrder` and
`NothingLost`. Each action has its lemma; `HandOverExtends` carries the flush
loop, whose run of buffered datagrams is a function of its bounds, not a
recursion. The refinement reuses it: a handed-over run is the next piece of
what was sent.

`SnapshotProofs` proves, for all servers, ids and bounds, from the named
assumptions of `Snapshot` (`NoId` and `Operator` are outside the sets they mark
the absence of, the bounds are natural, the initial counter is an integer):

* `SnapshotTypeCorrect`: the type invariant, with deaths, timeouts and failed
  POSTs included;
* `BlockedHoldsMarker`: a controller blocked in the checkpoint POST is in a
  snapshot and the marker it is handling is still on its channel. The type
  invariant needs it: `Resume` takes that marker off, and files the image and
  the artifact under the snapshot's id, long after the step that read them.

`SnapshotCutProofs` proves, from the same assumptions:

* `CutsMatch`: `SeqMatch`, complete artifacts of a snapshot nobody aborted
  agree on the sequence number of every channel;
* `NothingStoredTwice`: `StoredOnce`.

Both speak of artifacts, long after the markers are gone. `IndInv` follows the
one marker a snapshot sends on each channel instead. `MarkerInv`: while it is
on the wire its number is the sender's coordinate (in the controller, then in
the artifact), there is no second one, and the receiver has not got it.
`MatchInv`: a receiver that has got it has the sender's coordinate.
`StoreInv`: a server stores nothing before its part has begun, and no artifact
before it has ended. Having got every marker is what it means for a server's part
to be over, so no marker is left for it to begin again. `Resume` needs three more:
the number a marker gets is `recv_seq` plus its place on the wire
(`NumberInv`, only while the sender lives), the marker of the handler that is
blocked is the one at the head of its origin's channel (`HandlerInv`), and what is
drained holds no marker (`PlainInv`). All of it is said of snapshots nobody
has aborted, and fails for the others, as `snap_restart` shows. That a server
began a snapshot is remembered by `begins`, which also bounds the runs.

`RestoreProofs` proves, for any number of servers restored by one script
(`Script = {Node}`, as in `local_mesh.sh`), any bounds and any initial counter:

* `LinksTyped`: the type invariant of everything but the credit, in particular
  that no null coordinate becomes a sequence number;
* `RestoredChannelsWhole`: `ChannelsWhole`, the numbers between the two ends of
  a restored channel are each at the sender or in the buffer, once;
* `RestoreInvariance`: the inductive invariant of both.

`ChannelsWhole` only speaks of two servers that have both loaded, and says
nothing about how they got there. `IndInv` adds what holds before: `PhaseInv`
(fresh sidecars are started only when every application has come back and
no old sidecar is left), and for each channel that a sender that has loaded keeps
everything it sent since the cut for as long as its receiver is `Pending`
(`SenderInv`), and that a receiver is at the cut for as long as its sender
is (`ReceiverInv`). When the second of the two loads, these meet in
`JoinedInv`. With several scripts `PhaseInv` fails, as it must: that is
`restore_hosts`.

`SumTheorems` has what the accounts of credit need, for any finite domain: a
sum is an integer, changes by the difference when one value changes, adds up
value by value, may be taken by rows or by columns, and is ordered as its
values are; the sum of a sequence grows by what is appended. A `SumFunction` is a fold that takes elements in an order nobody
knows. That the order does not matter is proved by induction on the subsets of the
domain, put as the absence of a smallest counterexample (strict inclusion of
finite sets is well-founded), since the provers cannot instantiate an
induction theorem about a predicate.

`SnapshotCreditProofs` proves, from the assumptions above and `NodeAssumption`
(`MESH_MEMBERS` is a finite list):

* `CreditsConserved`: `LiveConservation`, no snapshot loses or doubles a credit
  of the running mesh while no server is dead.

A credit goes from the outbox to the wire, into the recorded messages or what was
drained, and on to the inbox. The sum over those four places of one channel is its
*load*. Every step but the application's two leaves all loads and counters
alone; the application moves one unit between a counter and a load. The steps
that empty one of these places, such as the reset when a snapshot begins or ends, must
find it empty or move what it holds: `FlowInv` says that a server has no channel to
itself, that nothing is recorded outside a snapshot or while its handler is blocked,
and that an artifact never stored is empty.
The order of the two sums, by server in the property and by channel in the steps, is
exchanged by `SumOfRows`.

`SnapshotWorthProofs` proves, from the same assumptions:

* `SnapshotsAccount`: `CutAccounts`, images, kernel queues and recorded channels
  of a completed snapshot hold all credit.

The property speaks of a snapshot that is over; its artifacts were made at
different moments, between which the mesh went on. The invariant gives an
unfinished snapshot a *worth*: a server that has its image counts with the
image, one that has not with what it has now; a channel counts with what is
recorded on it and with what is on its wire ahead of the marker. The worth
is `Total` in every state (`WorthInv`) for as long as the snapshot is fit: no server
has aborted it and what it consists of is still there. A step can make a
snapshot unfit but never fit again, so only steps between two fit states have to be
looked at, and each of these moves credit between two parts of one sum: a
marker that is sent or received changes which messages lie ahead of it, and the
image changes which half of a server counts. When the snapshot is complete
nothing is ahead of a marker and its worth is what `CutAccounts` adds up.
`SnapshotCutProofs!IndInv` supplies the one marker per channel.

The second half of `RestoreProofs` is about the credit. It proves, with
`Script = {Node}`, from `NodeAssumption` and the same assumptions:

* `RestoreKeepsCredit`: `RestoreConserves`, for consistent files;
* `CompleteRestores`: the files of a snapshot nobody aborted are consistent and
  stay so, hence a restore that starts from a `CompleteCut` and loads all of it has
  the total;
* `RestoreForgesNothing`: `NeverForges`, for all files;
* `RestoreTypeCorrect`: `TypeOK`, the counters included;
* `CreditInvariance`: their inductive invariant.

Both properties compare a restored mesh with one that no longer exists.
`CreditInv` keeps a ledger per restored server instead (`CounterInv`): the
counter is that of the image, plus what each channel into it has recorded and
moved `recv_seq` by, less what each channel out of it has moved `send_seq` by.
A server that was not loaded has at most that. A ledger depends on its own
server alone, so stopping, restoring or reloading one server leaves the others'
ledgers as they are, and a server whose application has just come back has the counter of
its image until its sidecar serves. Where the numbers began, at the cut or
at 0, the state does not tell for a server whose load failed; the invariant says
that there is a set `S` of servers that were seeded. `PairInv` then says of
every channel with both ends up that the numbers from `recv_seq` on are at the
sender or in the buffer, and that `recv_seq` has moved only if it began at a
number the sender uses. In the sum over all servers a channel counts for what it
recorded if both ends began at one number or the receiver below it (a null
coordinate, or an artifact older than the sender's: all of it waits in the buffer or at
the sender), and for less if the receiver began beyond what its sender uses.
So the sum is at most `CutCredit`, and exactly that when every channel begins
at one number, which is where `Consistent` is needed. For a complete cut
`CompleteIsConsistent` adds up what `CounterOf` gave the images: a credit a channel
carried is taken from one server and is in another's image or recorded.

`CounterClientProofs` proves, with `Script = {Node}`, from the assumptions above
and `HostAssumption` (`sum` is given every server once):

* `VerdictIsSound`: `VerdictSound`, whose claim about the total is for files that
  hold no credit twice, if `StablePolls` is `Enough`: for every
  number `m` of requests given up, at least the number of ways to spread `m`
  requests over the servers (`Strays(m)`);
* `VerdictOneLate`: the case of no request given up, where one stable poll is
  enough, and of one, where as many as there are servers are. The run `restore`
  (two servers, two polls), the three polls of `mesh_ctl.sh` and the five of
  `local_mesh.sh` for three servers are of this kind. The ten of RUNBOOK.md are
  `Enough` for three requests given up;
* `ClientInvariance`: the inductive invariant.

The difficulty is that a wrong poll can add up. A request that was given up is
still on its way; its answer stands for the next request's, which is then the
one that comes late, and so on, poll after poll. No bound on the counters helps:
one may have risen by any amount since the answer was sent. The invariant
therefore looks at the mesh with the eyes of someone who doubts the verdict. A
`Shortfall` is a function `g` that gives each restored server at least what its
counter shows, any other whatever one likes, and in sum less than the total. While
the operator only waits, counters never fall and no restored server goes away,
so a `g` that is no shortfall now is none later, and if none is left the mesh is
up and holds its credit (`NothingShort`, with `ReadyBalance` of `RestoreProofs`:
counters cannot add up to more than the files have). For one `g`, the *weight* of what is
on its way is the sum of `g` over the servers it comes from. An answer that is
read takes at least its counter from that weight (`WayInv`: an answer is never more
than its server's counter now, hence than `g`). A poll begins with some weight,
sends one request to each server, which adds the sum of `g`, and reads
counters that add up to the total, which is more. So a good poll leaves less weight on
its way than it found (`GoodPoll`), and two polls of one good streak never begin with the same
servers on the way. `StreakInv` counts the heavier ways that there are:
`stable` good polls in a row need at least `stable + 1` of them, and `Enough`
leaves none for the last. A poll with a give-up is not good and ends the streak.
`StartedInv` adds that no server of a finished script is an old one.

For three servers and one request given up the bound is exact. Started in a finished
restore that lost three credits and left counters of -3, 0 and 3, TLC finds a PASS
with two stable polls and none with three.

Model-checked only: everything temporal (`EventuallyAcked`, the liveness half
of `ImplementsFifo`, `Completes`, `NeverPinned`, `CatchesUp`), since fairness is out
of the prover's reach. Every invariant and action property that a passing
run checks is a theorem, except those of `snap_faults` (`RaisesOnlyLose`,
`OnceMatches`, `OnceAccounts`): the theorems about `Snapshot` are about
deliveries that succeed.

## Not modelled

Clocks, headers, ports, HTTP parsing, podman and iptables. `MESH_MEMBERS` is
taken to be the same everywhere and a server to know its own address; the
restored sidecars of a larger mesh, which get the default members, are not
modelled. Of the receiver's queue, `SnapshotFaults` has that a server's own
checkpoints are taken one after the other, not that those of a host wait for each other.
The choice between RUDP, plain and direct
routes, a START datagram drained as data, RESET and the spoof sockets are left
out, and so is what an application restored from its image sends in the two
seconds before its sidecar's iptables rules are there. `counter.c`, the demos and the
rest of the shell scripts hold no state of their own.

## Plan

1. `BreakoutReceiver`: the single-threaded queue of a host with several servers, and
   the client's 120 s; composed with `Snapshot`'s store.
2. `Routing`: membership per server, plain traffic, lost START datagrams; with
   it a `Restore` whose sidecars fall back to the default members.
3. The three properties of `SnapshotFaults` as theorems, along the invariants
   of `SnapshotCreditProofs` and `SnapshotCutProofs`.
4. A composition of `Rudp` and `Snapshot` on two servers, to check that the
   FIFO abstraction hides nothing while a handler is blocked.
