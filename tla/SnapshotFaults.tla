--------------------------- MODULE SnapshotFaults ---------------------------
(***************************************************************************)
(* Snapshot with two faults the code lets through:                         *)
(*                                                                         *)
(* - a delivery that raises.  process_and_deliver (mesh_proxy.py:198) ends *)
(*   in a sendto on a spoofed socket, and nothing above it catches: the    *)
(*   rest of the handler is skipped, recv_seq stays where it was, and, when*)
(*   the handler is check_timeout, _retransmit_loop ends for good;         *)
(* - a CRIU image taken late.  The sidecar gives its checkpoint POST up and*)
(*   goes on (snapshot_handler.py:215), while the receiver still has the   *)
(*   command to run (breakout_receiver.py:50).                             *)
(*                                                                         *)
(* All other steps are those of Snapshot.                                  *)
(***************************************************************************)
EXTENDS Snapshot

CONSTANT MaxRaise    \* bound: deliveries that raise

ASSUME MaxRaiseAssumption == MaxRaise \in Nat

VARIABLES
    raises,    \* deliveries that have raised
    stuck,     \* channels whose next message has no copy left
    silent,    \* servers whose _retransmit_loop has ended
    overdue,   \* images the receiver has yet to take for a POST given up
    late       \* images it took after that

faultVars == <<raises, stuck, silent, overdue, late>>
allVars == <<vars, faultVars>>

FaultInit ==
    /\ Init
    /\ raises = 0
    /\ stuck = {} /\ silent = {} /\ overdue = {} /\ late = {}

Raise == raises < MaxRaise /\ raises' = raises + 1

-----------------------------------------------------------------------------
(* The flush.                                                              *)

(* The deliveries of a flush up to q's i-th message, which raises.  The    *)
(* channels in "done" came before q's: the order is that of a set.         *)
DeliverUntilRaise(p, withheld) ==
    /\ Raise
    /\ \E q \in Node : \E done \in SUBSET (Node \ {q}), i \in DOMAIN withheld[q] :
           inbox' = [inbox EXCEPT ![p] =
               [r \in Node |-> @[r] +
                   CASE r \in done -> CreditsIn(withheld[r])
                     [] r = q -> CreditsIn(SubSeq(withheld[q], 1, i - 1))
                     [] OTHER -> 0]]

(* FAULT: the reset comes after the deliveries, so a raise skips it.       *)
FlushRaisesBeforeReset(p, withheld) ==
    /\ DeliverUntilRaise(p, withheld)
    /\ UNCHANGED <<snapshotId, recording, recordedSend, recordedRecv,
                   channelState>>

(* _flush_and_reset: the cut is forgotten before the first delivery.  The  *)
(* clear after the last is skipped, but nobody reads channel_states before *)
(* the next first marker clears it, so it counts as cleared.               *)
FlushRaises(p, withheld) ==
    /\ ForgetCut(p)
    /\ DeliverUntilRaise(p, withheld)

EndRaises(p, status, send, recv, withheld) ==
    /\ Post(p, [status |-> status, send |-> send, recv |-> recv,
                channel |-> withheld])
    /\ FlushRaises(p, withheld)

(* The last marker: its snapshot ends, but recv_seq is not advanced past   *)
(* it.  It was acknowledged: only a copy that is still on its way, or that *)
(* is sent because the acknowledgement was lost, moves the channel on.     *)
ReceiveMarkerRaises(p, q) ==
    /\ Running(p) /\ HasHead(q, p) /\ <<q, p>> \notin stuck
    /\ Arriving(q, p) = Marker(snapshotId[p]) /\ recording[p] = {q}
    /\ EndRaises(p, "complete", recordedSend[p],
                 [recordedRecv[p] EXCEPT ![q] = recvSeq[<<q, p>>] + 1],
                 channelState[p])
    /\ stuck' \in {stuck, stuck \cup {<<q, p>>}}
    /\ UNCHANGED <<channels, counter, outbox, phase, origin, image, started,
                   aborted, dead, transfers, begins, earlyTimeouts,
                   silent, overdue, late>>

(* check_timeout, out of _retransmit_loop: p sends nothing again, and never*)
(* looks at a deadline again.                                              *)
TimeoutRaises(p) ==
    /\ Running(p) /\ Snapshotting(p) /\ p \notin silent
    /\ \/ Stalled /\ UNCHANGED earlyTimeouts
       \/ /\ ~Stalled /\ earlyTimeouts < MaxEarly
          /\ earlyTimeouts' = earlyTimeouts + 1
    /\ aborted' = aborted \cup {snapshotId[p]}
    /\ EndRaises(p, "aborted", recordedSend[p], recordedRecv[p], channelState[p])
    /\ silent' = silent \cup {p}
    /\ UNCHANGED <<channels, counter, outbox, phase, origin, image, started,
                   dead, transfers, begins, stuck, overdue, late>>

-----------------------------------------------------------------------------
(* The channels.                                                           *)

(* An ordinary delivery raises, and no copy of the message is left.  (If   *)
(* one is, the message is delivered by Deliver, later.)                    *)
DeliverRaises(p, q) ==
    /\ Running(p) /\ HasHead(q, p) /\ <<q, p>> \notin stuck
    /\ Arriving(q, p).type # "marker"
    /\ ~(Snapshotting(p) /\ q \in recording[p])
    /\ Raise
    /\ stuck' = stuck \cup {<<q, p>>}
    /\ UNCHANGED <<vars, silent, overdue, late>>

(* The tunnel loses a message nobody sends again.                          *)
Strand(f) ==
    /\ f[1] \in silent /\ wire[f] # << >>
    /\ f \notin stuck
    /\ stuck' = stuck \cup {f}
    /\ UNCHANGED <<vars, raises, silent, overdue, late>>

-----------------------------------------------------------------------------
(* The image.                                                              *)

(* The POST times out with its command still ahead of the receiver.        *)
CheckpointLate(p) ==
    /\ CheckpointFails(p)
    /\ overdue' = overdue \cup {<<snapshotId[p], p>>}
    /\ UNCHANGED <<raises, stuck, silent, late>>

LateImage(k) ==
    /\ k \in overdue /\ Alive(k[2])
    /\ image' = [image EXCEPT ![k] = Frozen(k[2])]
    /\ overdue' = overdue \ {k}
    /\ late' = late \cup {k}
    /\ UNCHANGED <<channels, apps, controllers, artifact, bookkeeping,
                   raises, stuck, silent>>

(* The receiver has one thread: it runs a command only when it is done with*)
(* those it was sent before.                                               *)
TakeImageInTurn(p) == TakeImage(p) /\ \A k \in overdue : k[2] # p

-----------------------------------------------------------------------------

SoundStep(p) ==
    \/ \E q \in Node : \/ ReadCredit(p, q)
                       \/ Receive(p, q) /\ <<q, p>> \notin stuck
    \/ Forward(p) \/ TakeImageInTurn(p) \/ CheckpointFails(p) \/ Resume(p)
    \/ Timeout(p) /\ p \notin silent

FaultStep ==
    \/ \E p, q \in Node : ReceiveMarkerRaises(p, q) \/ DeliverRaises(p, q)
    \/ \E p \in Node : TimeoutRaises(p) \/ CheckpointLate(p)
    \/ \E f \in Channel : Strand(f)
    \/ \E k \in Key : LateImage(k)

FaultNext ==
    \/ (Environment \/ \E p \in Node : SoundStep(p)) /\ UNCHANGED faultVars
    \/ FaultStep

FaultSpec == FaultInit /\ [][FaultNext]_allVars

-----------------------------------------------------------------------------

(* A delivery that raises in the middle of a flush loses what it had yet to*)
(* deliver, but nothing is ever delivered twice: the snapshot is forgotten *)
(* before the first delivery (snapshot_handler.py:427-432), so a copy of   *)
(* its last marker, or a later timeout, finds nothing withheld.            *)
RaisesOnlyLose ==
    dead = {} => /\ MeshCredit <= Total
                 /\ raises = 0 => MeshCredit = Total

Once(id) == \A p \in Node : begins[<<id, p>>] <= 1

(* A snapshot that no node began twice is consistent, aborted or not, and  *)
(* whatever deliveries raised in it or before it: both ends of a channel   *)
(* record the number of one marker, also when recv_seq is never advanced   *)
(* past it (snapshot_handler.py:121-135, 158).                             *)
OnceMatches == \A id \in SnapshotId : Once(id) /\ Complete(id) => CutMatches(id)

(* Nor does such a snapshot have more credit than there is, if its images  *)
(* were taken while the sidecars waited: what a flush lost is missing from *)
(* the snapshots after it, not made up for (RUNBOOK.md:203).               *)
OnceAccounts ==
    \A id \in SnapshotId :
        Once(id) /\ Complete(id) /\ Imaged(id)
            /\ (\A p \in Node : <<id, p>> \notin overdue \cup late)
        => /\ CutCredit(id) <= Total
           /\ raises = 0 => CutCredit(id) = Total
=============================================================================
