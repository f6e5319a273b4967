------------------------------ MODULE Snapshot ------------------------------
(***************************************************************************)
(* The Chandy-Lamport recorder of every sidecar, SnapshotController        *)
(* (src/proxy/snapshot_handler.py), with the two things it works between:  *)
(* the counter application behind the sidecar (src/src/counter.py) and the *)
(* FIFO channels to the other servers.  The channels are those Rudp        *)
(* implements: wire[<<p, q>>] holds what p's sidecar numbered and sent and *)
(* q's has not yet processed, wherever the packets are (RudpProofs,        *)
(* RefinesFifo).                                                           *)
(*                                                                         *)
(* A sidecar is a single-threaded event loop, so a handler is one action,  *)
(* with one exception: the first marker's handler blocks in the checkpoint *)
(* POST.  Meanwhile the application and the other nodes go on, so that     *)
(* handler is split into what comes before the POST (Begin), the CRIU      *)
(* image (TakeImage, CheckpointFails) and what comes after it (Resume).    *)
(***************************************************************************)
EXTENDS Integers, Sequences, FiniteSets, Functions

CONSTANTS
    Node,         \* MESH_MEMBERS, the same list at every server
    SnapshotId,   \* ids the operator may start a snapshot with
    NoId,         \* current_snapshot_id = None
    Operator,     \* remote_ip "127.0.0.1" of a locally injected marker
    InitCounter,  \* every counter's initial value
    MaxTransfer,  \* bound: TRANSFER commands in all
    MaxBegin,     \* bound: first markers acted upon, in all
    MaxEarly,     \* bound: timeouts while markers are still on their way
    MaxDeath,     \* bound: servers that die
    MaxFailure    \* bound: checkpoint or artifact POSTs that fail

ASSUME NodeAssumption == IsFiniteSet(Node)
ASSUME NoIdAssumption == NoId \notin SnapshotId
ASSUME OperatorAssumption == Operator \notin Node
ASSUME BoundsAssumption ==
    {MaxTransfer, MaxBegin, MaxEarly, MaxDeath, MaxFailure} \subseteq Nat
ASSUME InitCounterAssumption == InitCounter \in Int

VARIABLES
    \* channels
    wire,          \* wire[f]: messages of f sent and not yet processed
    sendSeq,       \* sendSeq[f]: send_seq of the sending PeerState
    recvSeq,       \* recvSeq[f]: recv_seq of the receiving PeerState
    \* applications and the kernel queues at their door
    counter,       \* counter[p]
    inbox,         \* inbox[p][q]: credits of q delivered to p and not yet read
    outbox,        \* outbox[f]: datagrams of f pending on the intercept socket
    \* controllers
    snapshotId,    \* current_snapshot_id, NoId iff not is_snapshotting
    phase,         \* "running", or blocked in the POST: "posted", "imaged"
    origin,        \* remote_ip of the first marker while blocked
    recording,     \* recording_channels
    channelState,  \* channel_states
    recordedSend,  \* recorded_send_seq
    recordedRecv,  \* recorded_recv_seq
    \* the hosts' /tmp
    image,         \* image[<<id, p>>]: the CRIU image of p's application
    artifact,      \* artifact[<<id, p>>]: p's JSON artifact
    \* bookkeeping
    started,       \* ids the operator has used
    aborted,       \* ids some node has aborted
    dead,          \* servers that died
    begins,        \* begins[<<id, p>>]: first markers of id p acted upon
    transfers, earlyTimeouts, failures   \* counted against the bounds

channels    == <<wire, sendSeq, recvSeq>>
apps        == <<counter, inbox, outbox>>
controllers == <<snapshotId, phase, origin, recording, channelState,
                 recordedSend, recordedRecv>>
stores      == <<image, artifact>>
bookkeeping == <<started, aborted, dead, transfers, begins,
                 earlyTimeouts, failures>>
vars == <<channels, apps, controllers, stores, bookkeeping>>

-----------------------------------------------------------------------------

Channel == {f \in Node \X Node : f[1] # f[2]}
Key == SnapshotId \X Node

(* A credit carries one unit, like the load generator's.  Everything else  *)
(* an application sends a peer is a reply ("OK CREDIT ..." to the spoofed  *)
(* address of a credit), which nobody reads.                               *)
Message == [type : {"credit", "reply"}, id : {NoId}]
           \cup [type : {"marker"}, id : SnapshotId]

Credit     == [type |-> "credit", id |-> NoId]
Reply      == [type |-> "reply", id |-> NoId]
Marker(id) == [type |-> "marker", id |-> id]

Missing == -1                               \* no entry for this peer: null
AllMissing == [q \in Node |-> Missing]
NothingRecorded == [q \in Node |-> << >>]
NoneFrom == [q \in Node |-> 0]
NoImage == [taken |-> FALSE, counter |-> 0, unread |-> NoneFrom,
            unsent |-> NoneFrom]
NoArtifact == [status |-> "none", send |-> AllMissing, recv |-> AllMissing,
               channel |-> NothingRecorded]

Alive(p) == p \notin dead
Running(p) == Alive(p) /\ phase[p] = "running"
Snapshotting(p) == snapshotId[p] # NoId

Credits(msgs) == Cardinality({i \in DOMAIN msgs : msgs[i].type = "credit"})
CreditsIn(recorded) ==
    Cardinality({i \in DOMAIN recorded : recorded[i].msg.type = "credit"})

-----------------------------------------------------------------------------

Init ==
    /\ wire = [f \in Channel |-> << >>]
    /\ sendSeq = [f \in Channel |-> 0]
    /\ recvSeq = [f \in Channel |-> 0]
    /\ counter = [p \in Node |-> InitCounter]
    /\ inbox = [p \in Node |-> NoneFrom]
    /\ outbox = [f \in Channel |-> << >>]
    /\ snapshotId = [p \in Node |-> NoId]
    /\ phase = [p \in Node |-> "running"]
    /\ origin = [p \in Node |-> Operator]
    /\ recording = [p \in Node |-> {}]
    /\ channelState = [p \in Node |-> NothingRecorded]
    /\ recordedSend = [p \in Node |-> AllMissing]
    /\ recordedRecv = [p \in Node |-> AllMissing]
    /\ image = [k \in Key |-> NoImage]
    /\ artifact = [k \in Key |-> NoArtifact]
    /\ started = {} /\ aborted = {} /\ dead = {}
    /\ begins = [k \in Key |-> 0]
    /\ transfers = 0 /\ earlyTimeouts = 0 /\ failures = 0

-----------------------------------------------------------------------------
(* The counter application.  It runs whether or not its sidecar is         *)
(* blocked; what it sends waits on the intercept socket.                   *)

(* TRANSFER: debit, and send the peer a CREDIT.                            *)
Transfer(p, q) ==
    /\ Alive(p) /\ <<p, q>> \in Channel
    /\ transfers < MaxTransfer
    /\ transfers' = transfers + 1
    /\ counter' = [counter EXCEPT ![p] = @ - 1]
    /\ outbox' = [outbox EXCEPT ![<<p, q>>] = Append(@, Credit)]
    /\ UNCHANGED <<channels, inbox, controllers, stores, started, aborted,
                   dead, begins, earlyTimeouts, failures>>

(* CREDIT: add it, and reply to the address it seems to come from.         *)
ReadCredit(p, q) ==
    /\ Alive(p) /\ inbox[p][q] > 0
    /\ inbox' = [inbox EXCEPT ![p][q] = @ - 1]
    /\ counter' = [counter EXCEPT ![p] = @ + 1]
    /\ outbox' = [outbox EXCEPT ![<<p, q>>] = Append(@, Reply)]
    /\ UNCHANGED <<channels, controllers, stores, bookkeeping>>

-----------------------------------------------------------------------------
(* The sidecar: intercepted datagrams.                                     *)

(* drain_intercept, and the loop of _handle_local_intercept: every pending *)
(* datagram of p gets the next number of its channel and is sent.          *)
Drain(p) ==
    /\ wire' = [f \in Channel |-> IF f[1] = p THEN wire[f] \o outbox[f]
                                             ELSE wire[f]]
    /\ sendSeq' = [f \in Channel |->
                      IF f[1] = p THEN sendSeq[f] + Len(outbox[f])
                                  ELSE sendSeq[f]]
    /\ outbox' = [f \in Channel |-> IF f[1] = p THEN << >> ELSE outbox[f]]

Forward(p) ==
    /\ Running(p)
    /\ \E q \in Node \ {p} : outbox[<<p, q>>] # << >>
    /\ Drain(p)
    /\ UNCHANGED <<recvSeq, counter, inbox, controllers, stores, bookkeeping>>

-----------------------------------------------------------------------------
(* The end of a snapshot at one node.                                      *)

(* _post_artifact: written under the snapshot's id and the node's name,    *)
(* over whatever is there, unless the POST fails.                          *)
Post(p, art) ==
    \/ /\ artifact' = [artifact EXCEPT ![<<snapshotId[p], p>>] = art]
       /\ UNCHANGED failures
    \/ /\ failures < MaxFailure
       /\ failures' = failures + 1
       /\ UNCHANGED artifact

(* Every reset that _flush_and_reset ends with; channel_states is cleared  *)
(* after the deliveries, and nobody reads it in between.                   *)
ForgetCut(p) ==
    /\ snapshotId' = [snapshotId EXCEPT ![p] = NoId]
    /\ recording' = [recording EXCEPT ![p] = {}]
    /\ recordedSend' = [recordedSend EXCEPT ![p] = AllMissing]
    /\ recordedRecv' = [recordedRecv EXCEPT ![p] = AllMissing]
    /\ channelState' = [channelState EXCEPT ![p] = NothingRecorded]

(* FAULT: recorded messages are forgotten, not delivered.                  *)
FlushDropsWithheld(p, withheld) ==
    /\ ForgetCut(p)
    /\ UNCHANGED inbox

(* _flush_and_reset: forget the cut, deliver what was withheld.  Here every*)
(* delivery succeeds; SnapshotFaults adds the flush in which one raises.   *)
FlushAndReset(p, withheld) ==
    /\ ForgetCut(p)
    /\ inbox' = [inbox EXCEPT ![p] =
                     [q \in Node |-> @[q] + CreditsIn(withheld[q])]]

(* FAULT: the artifact is built after the flush has cleared the channels.  *)
EndFlushesFirst(p, status, send, recv, withheld) ==
    /\ Post(p, [status |-> status, send |-> send, recv |-> recv,
                channel |-> NothingRecorded])
    /\ FlushAndReset(p, withheld)

(* _finish_global_snapshot and _abort_snapshot: build, post, flush.        *)
End(p, status, send, recv, withheld) ==
    /\ Post(p, [status |-> status, send |-> send, recv |-> recv,
                channel |-> withheld])
    /\ FlushAndReset(p, withheld)

-----------------------------------------------------------------------------
(* The first marker.                                                       *)

(* process_message up to the checkpoint POST.  A marker from a peer stays  *)
(* at the head of its channel until the handler is done with it (recv_seq  *)
(* is advanced after process_and_deliver returns).                         *)
Begin(p, id, from) ==
    /\ SumFunction(begins) < MaxBegin
    /\ begins' = [begins EXCEPT ![<<id, p>>] = @ + 1]
    /\ snapshotId' = [snapshotId EXCEPT ![p] = id]
    /\ recording' = [recording EXCEPT ![p] = Node \ {p, from}]
    /\ channelState' = [channelState EXCEPT ![p] = NothingRecorded]
    /\ recordedSend' = [recordedSend EXCEPT ![p] = AllMissing]
    /\ recordedRecv' = [recordedRecv EXCEPT ![p] = AllMissing]
    /\ phase' = [phase EXCEPT ![p] = "posted"]
    /\ origin' = [origin EXCEPT ![p] = from]
    /\ Drain(p)
    /\ UNCHANGED <<recvSeq, counter, inbox, stores>>

(* __START_SNAPSHOT__ on the intercept socket.                             *)
Start(p, id) ==
    /\ Running(p) /\ id \notin started
    /\ started' = started \cup {id}
    /\ ~Snapshotting(p)
    /\ Begin(p, id, Operator)
    /\ UNCHANGED <<aborted, dead, transfers, earlyTimeouts, failures>>

(* The same while another snapshot is running: a ghost, ignored.  The loop *)
(* of the handler goes on with the other datagrams.                        *)
StartIgnored(p, id) ==
    /\ Running(p) /\ id \notin started
    /\ started' = started \cup {id}
    /\ Snapshotting(p)
    /\ Drain(p)
    /\ UNCHANGED <<recvSeq, counter, inbox, controllers, stores, aborted, dead,
                   transfers, begins, earlyTimeouts, failures>>

Arriving(q, p) == Head(wire[<<q, p>>])
HasHead(q, p) == <<q, p>> \in Channel /\ wire[<<q, p>>] # << >>

ReceiveFirstMarker(p, q) ==
    /\ Running(p) /\ HasHead(q, p)
    /\ Arriving(q, p).type = "marker"
    /\ ~Snapshotting(p)
    /\ Begin(p, Arriving(q, p).id, q)
    /\ UNCHANGED <<started, aborted, dead, transfers, earlyTimeouts, failures>>

(* p's application as podman finds it.  The image has the counter.  What is*)
(* unread in the application's socket and what is unsent on the sidecar's  *)
(* intercept socket at that moment is noted beside it.                     *)
Frozen(p) == [taken |-> TRUE,
              counter |-> counter[p],
              unread |-> inbox[p],
              unsent |-> [q \in Node |-> IF q = p THEN 0
                                         ELSE Credits(outbox[<<p, q>>])]]

(* The receiver's podman checkpoints p's application.                      *)
TakeImage(p) ==
    /\ Alive(p) /\ phase[p] = "posted"
    /\ phase' = [phase EXCEPT ![p] = "imaged"]
    /\ image' = [image EXCEPT ![<<snapshotId[p], p>>] = Frozen(p)]
    /\ UNCHANGED <<channels, apps, snapshotId, origin, recording, channelState,
                   recordedSend, recordedRecv, artifact, bookkeeping>>

(* The POST fails; the exception is swallowed.  Here there is no image     *)
(* then; SnapshotFaults has the image that is taken after the sidecar has  *)
(* given up.                                                               *)
CheckpointFails(p) ==
    /\ Alive(p) /\ phase[p] = "posted"
    /\ failures < MaxFailure
    /\ failures' = failures + 1
    /\ phase' = [phase EXCEPT ![p] = "imaged"]
    /\ UNCHANGED <<channels, apps, snapshotId, origin, recording, channelState,
                   recordedSend, recordedRecv, stores, started, aborted, dead,
                   transfers, begins, earlyTimeouts>>

(* FAULT: no marker goes back to the origin.                               *)
BroadcastAwayFromOrigin(p) ==
    LET away(f) == f[1] = p /\ f[2] # origin[p]
        back(f) == f = <<origin[p], p>>
    IN  /\ wire' = [f \in Channel |->
               IF away(f) THEN Append(wire[f], Marker(snapshotId[p]))
               ELSE IF back(f) THEN Tail(wire[f]) ELSE wire[f]]
        /\ sendSeq' = [f \in Channel |-> sendSeq[f] + IF away(f) THEN 1 ELSE 0]
        /\ recvSeq' = [f \in Channel |-> recvSeq[f] + IF back(f) THEN 1 ELSE 0]
        /\ UNCHANGED outbox

(* process_message after the POST: a marker on every outgoing channel, the *)
(* cut coordinates, and the end of the snapshot if nobody else's marker is *)
(* awaited.  Then the caller goes on: datagram_received advances recv_seq  *)
(* past a peer's marker; the loop of _handle_local_intercept, which read   *)
(* the operator's, forwards what came in during the POST.                  *)
Broadcast(p) ==
    LET from == origin[p]
        After(f) == IF from = Operator THEN outbox[f] ELSE << >>
    IN  /\ wire' = [f \in Channel |->
               IF f[1] = p
               THEN Append(wire[f], Marker(snapshotId[p])) \o After(f)
               ELSE IF f = <<from, p>> THEN Tail(wire[f])
               ELSE wire[f]]
        /\ sendSeq' = [f \in Channel |->
               IF f[1] = p THEN sendSeq[f] + 1 + Len(After(f)) ELSE sendSeq[f]]
        /\ recvSeq' = [f \in Channel |->
               IF f = <<from, p>> THEN recvSeq[f] + 1 ELSE recvSeq[f]]
        /\ outbox' = [f \in Channel |->
               IF f[1] = p /\ from = Operator THEN << >> ELSE outbox[f]]

(* FAULT: send_seq is read before send_data advances it.                   *)
SendCutEarly(p) == [q \in Node |-> IF q = p THEN Missing ELSE sendSeq[<<p, q>>]]

(* send_seq after each marker, and recv_seq after the origin's.            *)
SendCut(p) == [q \in Node |-> IF q = p THEN Missing ELSE sendSeq[<<p, q>>] + 1]
OriginCut(p) == [q \in Node |-> IF q = origin[p] THEN recvSeq[<<q, p>>] + 1
                                 ELSE Missing]

Resume(p) ==
    /\ Alive(p) /\ phase[p] = "imaged"
    /\ phase' = [phase EXCEPT ![p] = "running"]
    /\ origin' = [origin EXCEPT ![p] = Operator]
    /\ Broadcast(p)
    /\ \/ /\ recording[p] # {}
          /\ recordedSend' = [recordedSend EXCEPT ![p] = SendCut(p)]
          /\ recordedRecv' = [recordedRecv EXCEPT ![p] = OriginCut(p)]
          /\ UNCHANGED <<snapshotId, recording, channelState, inbox,
                         artifact, failures>>
       \/ /\ recording[p] = {}
          /\ End(p, "complete", SendCut(p), OriginCut(p), NothingRecorded)
    /\ UNCHANGED <<counter, image, started, aborted, dead, transfers,
                   begins, earlyTimeouts>>

-----------------------------------------------------------------------------
(* Everything else that arrives.                                           *)

Consume(p, q) ==
    /\ wire' = [wire EXCEPT ![<<q, p>>] = Tail(@)]
    /\ recvSeq' = [recvSeq EXCEPT ![<<q, p>>] = @ + 1]
    /\ UNCHANGED sendSeq

(* FAULT: the first closed channel ends the snapshot.                      *)
ReceiveMarkerEndsEarly(p, q) ==
    /\ Running(p) /\ HasHead(q, p)
    /\ Arriving(q, p) = Marker(snapshotId[p]) /\ q \in recording[p]
    /\ Consume(p, q)
    /\ End(p, "complete", recordedSend[p],
           [recordedRecv[p] EXCEPT ![q] = recvSeq[<<q, p>>] + 1], channelState[p])
    /\ UNCHANGED <<counter, outbox, phase, origin, image, started, aborted,
                   dead, transfers, begins, earlyTimeouts>>

(* FAULT: the marker's own number is recorded, not the next one.           *)
ReceiveMarkerInclusive(p, q) ==
    LET recv == [recordedRecv[p] EXCEPT ![q] = recvSeq[<<q, p>>]]
    IN  /\ Running(p) /\ HasHead(q, p)
        /\ Arriving(q, p) = Marker(snapshotId[p]) /\ q \in recording[p]
        /\ Consume(p, q)
        /\ \/ /\ recording[p] # {q}
              /\ recording' = [recording EXCEPT ![p] = @ \ {q}]
              /\ recordedRecv' = [recordedRecv EXCEPT ![p] = recv]
              /\ UNCHANGED <<snapshotId, channelState, recordedSend, inbox,
                             artifact, failures>>
           \/ /\ recording[p] = {q}
              /\ End(p, "complete", recordedSend[p], recv, channelState[p])
        /\ UNCHANGED <<counter, outbox, phase, origin, image, started, aborted,
                       dead, transfers, begins, earlyTimeouts>>

(* The marker of a channel that is being recorded: close the channel, and  *)
(* finish if it was the last.                                              *)
ReceiveMarker(p, q) ==
    LET recv == [recordedRecv[p] EXCEPT ![q] = recvSeq[<<q, p>>] + 1]
    IN  /\ Running(p) /\ HasHead(q, p)
        /\ Arriving(q, p) = Marker(snapshotId[p]) /\ q \in recording[p]
        /\ Consume(p, q)
        /\ \/ /\ recording[p] # {q}
              /\ recording' = [recording EXCEPT ![p] = @ \ {q}]
              /\ recordedRecv' = [recordedRecv EXCEPT ![p] = recv]
              /\ UNCHANGED <<snapshotId, channelState, recordedSend, inbox,
                             artifact, failures>>
           \/ /\ recording[p] = {q}
              /\ End(p, "complete", recordedSend[p], recv, channelState[p])
        /\ UNCHANGED <<counter, outbox, phase, origin, image, started, aborted,
                       dead, transfers, begins, earlyTimeouts>>

(* A marker of another snapshot, or on a channel that is not recorded.     *)
IgnoreMarker(p, q) ==
    /\ Running(p) /\ HasHead(q, p)
    /\ Arriving(q, p).type = "marker" /\ Snapshotting(p)
    /\ Arriving(q, p).id # snapshotId[p] \/ q \notin recording[p]
    /\ Consume(p, q)
    /\ UNCHANGED <<apps, controllers, stores, bookkeeping>>

(* FAULT: the bare message is kept, without its number.                    *)
RecordBare(p, q) ==
    /\ Running(p) /\ HasHead(q, p)
    /\ Arriving(q, p).type # "marker"
    /\ Snapshotting(p) /\ q \in recording[p]
    /\ Consume(p, q)
    /\ channelState' = [channelState EXCEPT ![p][q] = Append(@, Arriving(q, p))]
    /\ UNCHANGED <<apps, snapshotId, phase, origin, recording, recordedSend,
                   recordedRecv, stores, bookkeeping>>

(* FAULT: the recorded message is delivered as well ("return True" left    *)
(* out after the append).                                                  *)
RecordDelivers(p, q) ==
    /\ Running(p) /\ HasHead(q, p)
    /\ Arriving(q, p).type # "marker"
    /\ Snapshotting(p) /\ q \in recording[p]
    /\ Consume(p, q)
    /\ channelState' = [channelState EXCEPT ![p][q] =
           Append(@, [seq |-> recvSeq[<<q, p>>], msg |-> Arriving(q, p)])]
    /\ inbox' = [inbox EXCEPT ![p][q] =
                     @ + IF Arriving(q, p).type = "credit" THEN 1 ELSE 0]
    /\ UNCHANGED <<counter, outbox, snapshotId, phase, origin, recording,
                   recordedSend, recordedRecv, stores, bookkeeping>>

(* A message on a channel that is being recorded is withheld.              *)
Record(p, q) ==
    /\ Running(p) /\ HasHead(q, p)
    /\ Arriving(q, p).type # "marker"
    /\ Snapshotting(p) /\ q \in recording[p]
    /\ Consume(p, q)
    /\ channelState' = [channelState EXCEPT ![p][q] =
           Append(@, [seq |-> recvSeq[<<q, p>>], msg |-> Arriving(q, p)])]
    /\ UNCHANGED <<apps, snapshotId, phase, origin, recording, recordedSend,
                   recordedRecv, stores, bookkeeping>>

(* Any other message goes to the application's socket.                     *)
Deliver(p, q) ==
    /\ Running(p) /\ HasHead(q, p)
    /\ Arriving(q, p).type # "marker"
    /\ ~(Snapshotting(p) /\ q \in recording[p])
    /\ Consume(p, q)
    /\ inbox' = [inbox EXCEPT ![p][q] =
                     @ + IF Arriving(q, p).type = "credit" THEN 1 ELSE 0]
    /\ UNCHANGED <<counter, outbox, controllers, stores, bookkeeping>>

-----------------------------------------------------------------------------
(* Timeouts and deaths.                                                    *)

(* No node is in a checkpoint and no marker is on its way to a live node:  *)
(* waiting longer cannot help.                                             *)
Stalled == /\ \A q \in Node \ dead : phase[q] = "running"
           /\ \A f \in Channel : \A i \in DOMAIN wire[f] :
                  f[2] \in dead \/ wire[f][i].type # "marker"

(* FAULT: the deadline is set only where the operator started the snapshot,*)
(* and cleared by the first marker that comes back.                        *)
TimeoutAtOriginOnly(p) ==
    /\ Running(p) /\ Snapshotting(p)
    /\ recordedRecv[p] = AllMissing
    /\ \/ Stalled /\ UNCHANGED earlyTimeouts
       \/ /\ ~Stalled /\ earlyTimeouts < MaxEarly
          /\ earlyTimeouts' = earlyTimeouts + 1
    /\ aborted' = aborted \cup {snapshotId[p]}
    /\ End(p, "aborted", recordedSend[p], recordedRecv[p], channelState[p])
    /\ UNCHANGED <<channels, counter, outbox, phase, origin, image, started,
                   dead, transfers, begins>>

(* check_timeout: SNAPSHOT_TIMEOUT has passed.  Early timeouts happen when *)
(* a peer's checkpoint (up to 120 s each, one at a time per host) outlasts *)
(* the 30 s this node waits.                                               *)
Timeout(p) ==
    /\ Running(p) /\ Snapshotting(p)
    /\ \/ Stalled /\ UNCHANGED earlyTimeouts
       \/ /\ ~Stalled /\ earlyTimeouts < MaxEarly
          /\ earlyTimeouts' = earlyTimeouts + 1
    /\ aborted' = aborted \cup {snapshotId[p]}
    /\ End(p, "aborted", recordedSend[p], recordedRecv[p], channelState[p])
    /\ UNCHANGED <<channels, counter, outbox, phase, origin, image, started,
                   dead, transfers, begins>>

(* A server dies with its sidecar.  Nobody retransmits for it any more, so *)
(* of each of its channels only a prefix still arrives.  A marker whose    *)
(* handler is blocked has arrived.                                         *)
Arrived(p, q) == IF phase[q] # "running" /\ origin[q] = p THEN 1 ELSE 0
Survives(p, q) == Arrived(p, q) .. Len(wire[<<p, q>>])

Die(p) ==
    /\ Alive(p) /\ Cardinality(dead) < MaxDeath
    /\ dead' = dead \cup {p}
    /\ \E keep \in [Node \ {p} -> UNION {Survives(p, q) : q \in Node \ {p}}] :
           /\ \A q \in Node \ {p} : keep[q] \in Survives(p, q)
           /\ wire' = [f \in Channel |->
                  IF f[1] = p THEN SubSeq(wire[f], 1, keep[f[2]]) ELSE wire[f]]
    /\ UNCHANGED <<sendSeq, recvSeq, apps, controllers, stores, started,
                   aborted, transfers, begins, earlyTimeouts, failures>>

-----------------------------------------------------------------------------

Environment == \/ \E p, q \in Node : Transfer(p, q)
               \/ \E p \in Node, id \in SnapshotId :
                      Start(p, id) \/ StartIgnored(p, id)
               \/ \E p \in Node : Die(p)

Receive(p, q) == \/ ReceiveFirstMarker(p, q) \/ ReceiveMarker(p, q)
                 \/ IgnoreMarker(p, q) \/ Record(p, q) \/ Deliver(p, q)

Step(p) == \/ \E q \in Node : ReadCredit(p, q) \/ Receive(p, q)
           \/ Forward(p) \/ TakeImage(p) \/ CheckpointFails(p) \/ Resume(p)
           \/ Timeout(p)

Next == Environment \/ \E p \in Node : Step(p)

Spec == Init /\ [][Next]_vars

(* A live server's event loop, its application and its receiver keep       *)
(* running, and the channels keep delivering (Rudp, ImplementsFifo).  Every*)
(* step uses up a message, a datagram, a phase or an awaited marker, so a  *)
(* server cannot be busy for ever with one kind of step.                   *)
Fairness == \A p \in Node : WF_vars(Step(p))

LiveSpec == Spec /\ Fairness

-----------------------------------------------------------------------------

SeqOrMissing == Nat \cup {Missing}
Recorded == Seq([seq : Nat, msg : Message])

TypeOK ==
    /\ wire \in [Channel -> Seq(Message)]
    /\ sendSeq \in [Channel -> Nat]
    /\ recvSeq \in [Channel -> Nat]
    /\ counter \in [Node -> Int]
    /\ inbox \in [Node -> [Node -> Nat]]
    /\ outbox \in [Channel -> Seq(Message)]
    /\ snapshotId \in [Node -> SnapshotId \cup {NoId}]
    /\ phase \in [Node -> {"running", "posted", "imaged"}]
    /\ origin \in [Node -> Node \cup {Operator}]
    /\ recording \in [Node -> SUBSET Node]
    /\ channelState \in [Node -> [Node -> Recorded]]
    /\ recordedSend \in [Node -> [Node -> SeqOrMissing]]
    /\ recordedRecv \in [Node -> [Node -> SeqOrMissing]]
    /\ image \in [Key -> [taken : BOOLEAN, counter : Int,
                          unread : [Node -> Nat], unsent : [Node -> Nat]]]
    /\ artifact \in [Key -> [status : {"none", "complete", "aborted"},
                             send : [Node -> SeqOrMissing],
                             recv : [Node -> SeqOrMissing],
                             channel : [Node -> Recorded]]]
    /\ started \subseteq SnapshotId
    /\ aborted \subseteq SnapshotId
    /\ dead \subseteq Node
    /\ transfers \in 0 .. MaxTransfer
    /\ begins \in [Key -> Nat]
    /\ earlyTimeouts \in 0 .. MaxEarly
    /\ failures \in 0 .. MaxFailure

Total == Cardinality(Node) * InitCounter

WithheldCredits(p) == SumFunction([q \in Node |-> CreditsIn(channelState[p][q])])

(* All the credit of the running system: counters, the kernel queues at    *)
(* their door, the channels and what recording withholds.                  *)
MeshCredit ==
    SumFunction(counter)
    + SumFunction([f \in Channel |-> Credits(outbox[f]) + Credits(wire[f])])
    + SumFunction([p \in Node |-> SumFunction(inbox[p]) + WithheldCredits(p)])

(* No credit is lost or made twice in the running system: what recording   *)
(* withholds is delivered once when the snapshot ends, completed or        *)
(* aborted (_flush_and_reset, snapshot_handler.py:426).                    *)
LiveConservation == dead = {} => MeshCredit = Total

Complete(id) == \A p \in Node : artifact[<<id, p>>].status = "complete"
Imaged(id) == \A p \in Node : image[<<id, p>>].taken

(* The two ends of every channel are restored to the same sequence number  *)
(* ("sender send_seq and receiver recv_seq match by construction",         *)
(* snapshot_handler.py:233), as long as nobody aborted the snapshot.       *)
CutMatches(id) ==
    \A p \in Node : \A q \in Node \ {p} :
        artifact[<<id, p>>].send[q] = artifact[<<id, q>>].recv[p]

SeqMatch == \A id \in SnapshotId \ aborted : Complete(id) => CutMatches(id)

RecordedCredits(id) ==
    SumFunction([p \in Node |->
        SumFunction([q \in Node |-> CreditsIn(artifact[<<id, p>>].channel[q])])])

(* What a snapshot holds, and what it misses: the images and the recorded  *)
(* channels, plus what lay unread in an application's socket and unsent on *)
(* its sidecar's intercept socket when the image was taken.                *)
CutCredit(id) ==
    SumFunction([p \in Node |-> image[<<id, p>>].counter
                                + SumFunction(image[<<id, p>>].unread)
                                + SumFunction(image[<<id, p>>].unsent)])
    + RecordedCredits(id)

(* The snapshot that every node completed, with an image everywhere, has   *)
(* all the credit there is, as long as nobody aborted it.                  *)
CutAccounts ==
    \A id \in SnapshotId \ aborted :
        Complete(id) /\ Imaged(id) => CutCredit(id) = Total

(* The total a whole-system restore brings back if CRIU keeps a socket's   *)
(* unread datagrams: images and recorded channels, nothing else.  "No      *)
(* in-flight credits are lost or duplicated" (RUNBOOK.md:203).             *)
CutConserves ==
    \A id \in SnapshotId \ aborted :
        Complete(id) /\ Imaged(id) =>
            SumFunction([p \in Node |-> image[<<id, p>>].counter
                                        + SumFunction(image[<<id, p>>].unread)])
            + RecordedCredits(id) = Total

(* What is complete is consistent: the artifact's status says "complete"   *)
(* or "aborted (cut not consistent)" (snapshot_handler.py:364).            *)
CompleteMatches == \A id \in SnapshotId : Complete(id) => CutMatches(id)

(* A node checkpoints its application and writes its artifact once per     *)
(* snapshot: no marker of a finished snapshot is left over to begin it     *)
(* again, unless some node aborted it.                                     *)
StoredOnce ==
    [][\A k \in Key : k[1] \notin aborted =>
           /\ image[k].taken => image'[k] = image[k]
           /\ artifact[k].status # "none" => artifact'[k] = artifact[k]]_vars

(* A message is handed to the application only when nothing that was sent  *)
(* before it on the same channel is still withheld ("reliable, in-order    *)
(* RUDP", mesh_proxy.py:286).                                              *)
NoOvertaking ==
    [][\A p, q \in Node :
           inbox'[p][q] > inbox[p][q] => channelState'[p][q] = << >>]_vars

(* A snapshot that has started ends at every node with an image and a      *)
(* complete artifact if no other is started, no server dies, no timeout is *)
(* early and every POST succeeds.                                          *)
Completes ==
    [](dead = {} /\ failures = 0 /\ earlyTimeouts = 0 /\ Cardinality(started) <= 1)
    => \A id \in SnapshotId : (id \in started) ~> (Complete(id) /\ Imaged(id))

(* No live controller stays in a snapshot for ever: "a peer that dies      *)
(* mid-snapshot can't pin is_snapshotting=True" (snapshot_handler.py:137). *)
NeverPinned ==
    \A p \in Node : []<>(p \in dead \/ ~Snapshotting(p))
=============================================================================
