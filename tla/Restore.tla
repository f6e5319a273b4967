------------------------------- MODULE Restore -------------------------------
(***************************************************************************)
(* The whole-system restore: run_restore.sh on every host, the breakout    *)
(* receiver it drives (src/proxy/breakout_receiver.py), and the fresh      *)
(* sidecars that load their artifact (restore_from_artifact and start).    *)
(*                                                                         *)
(* A behaviour begins when a snapshot has been taken and the mesh goes on. *)
(* The files of a complete one are a cut that Snapshot shows to match and  *)
(* to account for all credit.  Those of an aborted one lack coordinates,   *)
(* may be of different moments and account for more credit or less; a      *)
(* restore does not ask.  What the old instances send after the cut has    *)
(* the same numbers as what the restored ones will send.                   *)
(*                                                                         *)
(* Every credit is one unit and only credits are numbered here, so an      *)
(* entry of unacked or recv_buffer is its number.  A sidecar hands over to *)
(* its application at once.  A packet can arrive for as long as its sender *)
(* retransmits it: none outlives its sender, nor does an acknowledgement   *)
(* (a replaced server comes back with a new network namespace, at least    *)
(* two seconds later).                                                     *)
(***************************************************************************)
EXTENDS Integers, FiniteSets, Functions

CONSTANTS
    Node,         \* servers
    Script,       \* the sets of servers run_restore.sh is given, one per host
    InitCounter,  \* every counter's value when the mesh was set up
    MaxBefore,    \* bound: credits a channel carried before the cut
    MaxTransfer,  \* bound: TRANSFER commands after the cut, in all
    MaxRun,       \* bound: runs of each script
    MaxFailure,   \* bound: receiver commands that fail
    MaxMissing,   \* bound: coordinates an aborted snapshot lacks
    MaxAgain      \* bound: servers that began an aborted snapshot twice

ASSUME NodeAssumption == IsFiniteSet(Node)
ASSUME ScriptAssumption == /\ UNION Script = Node
                           /\ \A s, t \in Script : s # t => s \cap t = {}
ASSUME CounterAssumption == InitCounter \in Int
ASSUME BoundAssumption ==
    {MaxBefore, MaxTransfer, MaxRun, MaxFailure, MaxMissing, MaxAgain} \subseteq Nat

VARIABLES
    \* /tmp on the hosts: what the snapshot left
    image,       \* image[p]: the counter in p's CRIU image
    sendCut,     \* sendCut[f]: send_seq of f in its sender's artifact
    recvCut,     \* recvCut[f]: recv_seq of f in its receiver's artifact
    recorded,    \* recorded[f]: credits in f's recorded channel
    \* containers
    app,         \* app[p]: "old", "none" or "restored"
    sidecar,     \* sidecar[p]: "old", "none", "starting" or "restored"
    counter,     \* counter[p]: the application's counter
    \* the sidecars' PeerStates
    sendSeq, unacked, recvSeq, recvBuffer,
    \* run_restore.sh
    step,        \* step[s]: the loop script s is in
    todo,        \* todo[s]: nodes that loop has not reached
    runs,        \* runs[s]: times s was run
    \* bookkeeping
    unseeded,    \* servers whose sidecar serves without (all of) its artifact
    transfers, failures

files      == <<image, sendCut, recvCut, recorded>>
containers == <<app, sidecar, counter>>
peers      == <<sendSeq, unacked, recvSeq, recvBuffer>>
scripts    == <<step, todo, runs>>
counts     == <<unseeded, transfers, failures>>
vars == <<files, containers, peers, scripts, counts>>

-----------------------------------------------------------------------------

Channel == {f \in Node \X Node : f[1] # f[2]}
Missing == -1                                   \* null in the artifact

Out(p) == {f \in Channel : f[1] = p}
In(p)  == {f \in Channel : f[2] = p}

(* What p has when it has sent before[f] credits on every channel f out of *)
(* it, and got all but late[f] of those into it.                           *)
CounterOf(p, before, late) ==
    InitCounter - SumFunctionOnSet(before, Out(p)) + SumFunctionOnSet(before, In(p))
                - SumFunctionOnSet(late, In(p))

(* A snapshot nobody aborted.  Numbers 0 .. before[f] - 1 of f are credits *)
(* and before[f] is the marker; the credits an image lacks are recorded.   *)
CompleteCut(before) ==
    /\ recorded \in [Channel -> 0 .. MaxBefore]
    /\ \A f \in Channel : recorded[f] <= before[f]
    /\ image = [p \in Node |-> CounterOf(p, before, recorded)]
    /\ sendCut = [f \in Channel |-> before[f] + 1]
    /\ recvCut = sendCut
    /\ sendSeq = sendCut

(* A snapshot some server aborted.  Where a marker was awaited then, there *)
(* is no coordinate, and credits behind what was recorded are lost.  A     *)
(* late marker made the servers in again begin a second time, when nothing *)
(* was on its way any more: their images are of then, their artifacts only *)
(* if stored.  Every channel carried MaxBefore credits before the first of *)
(* its two markers.                                                        *)
AbortedCut(before) ==
    \E null \in SUBSET Channel \ {{}}, again \in SUBSET Node :
    \E stored \in SUBSET again :
        LET due(f) == IF f[2] \in stored THEN 0 ELSE before[f]
        IN  /\ before = [f \in Channel |-> MaxBefore]
            /\ Cardinality(null) <= MaxMissing /\ Cardinality(again) <= MaxAgain
            /\ recorded \in [Channel -> 0 .. MaxBefore]
            /\ \A f \in Channel : recorded[f] <= due(f)
            /\ \A f \in Channel \ null : recorded[f] = due(f)
            /\ image = [p \in Node |-> CounterOf(p, before,
                   [f \in Channel |-> IF f[2] \in again THEN 0 ELSE before[f]])]
            /\ sendCut = [f \in Channel |->
                   IF f[1] \in stored THEN before[f] + 2 ELSE before[f] + 1]
            /\ recvCut = [f \in Channel |->
                   IF f \in null THEN Missing
                   ELSE IF f[2] \in stored THEN before[f] + 2 ELSE before[f] + 1]
            /\ sendSeq = [f \in Channel |-> before[f] + 2]

(* The snapshot is over and the old instances have delivered everything.   *)
Init ==
    /\ \E before \in [Channel -> 0 .. MaxBefore] :
           /\ CompleteCut(before) \/ AbortedCut(before)
           /\ counter = [p \in Node |->
                  CounterOf(p, before, [f \in Channel |-> 0])]
    /\ app = [p \in Node |-> "old"]
    /\ sidecar = [p \in Node |-> "old"]
    /\ recvSeq = sendSeq
    /\ unacked = [f \in Channel |-> {}]
    /\ recvBuffer = [f \in Channel |-> {}]
    /\ step = [s \in Script |-> "idle"]
    /\ todo = [s \in Script |-> {}]
    /\ runs = [s \in Script |-> 0]
    /\ unseeded = {} /\ transfers = 0 /\ failures = 0

-----------------------------------------------------------------------------
(* The mesh, before, while and after it is restored.                       *)

(* FAULT: the tunnel is read before the artifact has been loaded.          *)
ServingEarly(p) == sidecar[p] # "none" /\ app[p] # "none"

Serving(p) == sidecar[p] \in {"old", "restored"} /\ app[p] # "none"

(* TRANSFER: a client reaches the application through the sidecar; the     *)
(* CREDIT is intercepted and becomes the next datagram of its channel.     *)
Transfer(f) ==
    /\ Serving(f[1])
    /\ transfers < MaxTransfer
    /\ transfers' = transfers + 1
    /\ counter' = [counter EXCEPT ![f[1]] = @ - 1]
    /\ unacked' = [unacked EXCEPT ![f] = @ \cup {sendSeq[f]}]
    /\ sendSeq' = [sendSeq EXCEPT ![f] = @ + 1]
    /\ UNCHANGED <<files, app, sidecar, recvSeq, recvBuffer, scripts, unseeded,
                   failures>>

(* A datagram in order is handed over with the buffered run behind it, up  *)
(* to the first number missing.                                            *)
DeliverInOrder(f, n) ==
    /\ n = recvSeq[f]
    /\ \E stop \in n + 1 .. n + 1 + Cardinality(recvBuffer[f]) :
           /\ n + 1 .. stop - 1 \subseteq recvBuffer[f]
           /\ stop \notin recvBuffer[f]
           /\ counter' = [counter EXCEPT ![f[2]] = @ + (stop - n)]
           /\ recvSeq' = [recvSeq EXCEPT ![f] = stop]
           /\ recvBuffer' = [recvBuffer EXCEPT ![f] = {k \in @ : k > stop}]

BufferFuture(f, n) ==
    /\ n > recvSeq[f]
    /\ recvBuffer' = [recvBuffer EXCEPT ![f] = @ \cup {n}]
    /\ UNCHANGED <<counter, recvSeq>>

DropStale(f, n) ==
    /\ n < recvSeq[f]
    /\ UNCHANGED <<counter, recvSeq, recvBuffer>>

(* Datagram n of f reaches f's receiver, whichever instance of it is up,   *)
(* and the acknowledgement reaches the sender or is lost.                  *)
Receive(f, n) ==
    /\ Serving(f[1]) /\ Serving(f[2])
    /\ n \in unacked[f]
    /\ DeliverInOrder(f, n) \/ BufferFuture(f, n) \/ DropStale(f, n)
    /\ \/ unacked' = [unacked EXCEPT ![f] = @ \ {n}]
       \/ UNCHANGED unacked
    /\ UNCHANGED <<files, app, sidecar, sendSeq, scripts, counts>>

-----------------------------------------------------------------------------
(* run_restore.sh: three loops over its nodes, of synchronous calls to the *)
(* receiver.                                                               *)

(* Node p of loop `from` is dealt with; after the last one loop `to` begins.*)
Advance(s, p, to) ==
    IF todo[s] = {p}
    THEN /\ step' = [step EXCEPT ![s] = to]
         /\ todo' = [todo EXCEPT ![s] = IF to = "done" THEN {} ELSE s]
    ELSE /\ todo' = [todo EXCEPT ![s] = @ \ {p}]
         /\ UNCHANGED step

Fail == /\ failures < MaxFailure
        /\ failures' = failures + 1

(* breakout: a call that fails ends the script.                            *)
Abort(s) ==
    /\ step' = [step EXCEPT ![s] = "failed"]
    /\ todo' = [todo EXCEPT ![s] = {}]

RunRestore(s) ==
    /\ step[s] \in {"idle", "done", "failed"} /\ runs[s] < MaxRun
    /\ runs' = [runs EXCEPT ![s] = @ + 1]
    /\ step' = [step EXCEPT ![s] = "stopping"]
    /\ todo' = [todo EXCEPT ![s] = s]
    /\ UNCHANGED <<files, containers, peers, counts>>

(* The PeerStates of a process that has ended, or has just begun.          *)
NoPeers(p) ==
    /\ sendSeq' = [f \in Channel |-> IF f[1] = p THEN 0 ELSE sendSeq[f]]
    /\ unacked' = [f \in Channel |-> IF f[1] = p THEN {} ELSE unacked[f]]
    /\ recvSeq' = [f \in Channel |-> IF f[2] = p THEN 0 ELSE recvSeq[f]]
    /\ recvBuffer' = [f \in Channel |-> IF f[2] = p THEN {} ELSE recvBuffer[f]]

(* breakout_ok stop: the sidecar, then the application.                    *)
Stop(s, p) ==
    /\ step[s] = "stopping" /\ p \in todo[s]
    /\ Advance(s, p, "restoring")
    /\ sidecar' = [sidecar EXCEPT ![p] = "none"]
    /\ app' = [app EXCEPT ![p] = "none"]
    /\ counter' = [counter EXCEPT ![p] = 0]
    /\ NoPeers(p)
    /\ UNCHANGED <<files, runs, counts>>

(* Either stop fails, and the loop goes on.  Podman keeps an application   *)
(* whose namespace its sidecar still uses.                                 *)
StopFails(s, p) ==
    /\ step[s] = "stopping" /\ p \in todo[s]
    /\ Fail
    /\ Advance(s, p, "restoring")
    /\ \/ UNCHANGED <<sidecar, peers>>
       \/ /\ sidecar' = [sidecar EXCEPT ![p] = "none"]
          /\ NoPeers(p)
    /\ UNCHANGED <<files, app, counter, runs, unseeded, transfers>>

(* breakout restore: podman brings p's application back from its image.    *)
BringBack(p) ==
    /\ app' = [app EXCEPT ![p] = "restored"]
    /\ counter' = [counter EXCEPT ![p] = image[p]]

RestoreApp(s, p) ==
    /\ step[s] = "restoring" /\ p \in todo[s]
    /\ app[p] = "none"
    /\ Advance(s, p, "starting")
    /\ BringBack(p)
    /\ UNCHANGED <<files, sidecar, peers, runs, counts>>

(* FAULT: a failed restore is tolerated like a failed stop.                *)
RestoreFailsSilently(s, p) ==
    /\ step[s] = "restoring" /\ p \in todo[s]
    /\ app[p] # "none"
    /\ Advance(s, p, "starting")
    /\ UNCHANGED <<files, containers, peers, runs, counts>>

(* Podman refuses while a container of that name exists; or it fails, or   *)
(* takes longer than COMMAND_TIMEOUT_S, with or without an effect.         *)
RestoreFails(s, p) ==
    /\ step[s] = "restoring" /\ p \in todo[s]
    /\ \/ /\ app[p] # "none"
          /\ UNCHANGED <<app, counter, failures>>
       \/ /\ app[p] = "none"
          /\ Fail
          /\ BringBack(p) \/ UNCHANGED <<app, counter>>
    /\ Abort(s)
    /\ UNCHANGED <<files, sidecar, peers, runs, unseeded, transfers>>

(* breakout run_sidecar: podman run -d --replace.  The call returns when   *)
(* the container has been started; a call that fails may have started it.  *)
RunSidecar(s, p) ==
    /\ step[s] = "starting" /\ p \in todo[s]
    /\ Advance(s, p, "done")
    /\ sidecar' = [sidecar EXCEPT ![p] = "starting"]
    /\ NoPeers(p)
    /\ UNCHANGED <<files, app, counter, runs, counts>>

RunSidecarFails(s, p) ==
    /\ step[s] = "starting" /\ p \in todo[s]
    /\ Fail
    /\ Abort(s)
    /\ \/ UNCHANGED <<sidecar, peers>>
       \/ /\ sidecar' = [sidecar EXCEPT ![p] = "starting"]
          /\ NoPeers(p)
    /\ UNCHANGED <<files, app, counter, runs, unseeded, transfers>>

-----------------------------------------------------------------------------
(* The fresh sidecar.  start() calls restore_from_artifact before the loop *)
(* reads the tunnel for the first time.                                    *)

(* FAULT: a null coordinate is not skipped.                                *)
SeedNulls(p) ==
    /\ sendSeq' = [f \in Channel |-> IF f[1] = p THEN sendCut[f] ELSE sendSeq[f]]
    /\ recvSeq' = [f \in Channel |-> IF f[2] = p THEN recvCut[f] ELSE recvSeq[f]]
    /\ UNCHANGED <<unacked, recvBuffer>>

(* FAULT: only the sending half of a PeerState is seeded.                  *)
SeedSenders(p) ==
    /\ sendSeq' = [f \in Channel |-> IF f[1] = p THEN sendCut[f] ELSE sendSeq[f]]
    /\ UNCHANGED <<unacked, recvSeq, recvBuffer>>

(* send_seq and recv_seq as in the artifact, nulls skipped.                *)
Seed(p) ==
    /\ sendSeq' = [f \in Channel |-> IF f[1] = p THEN sendCut[f] ELSE sendSeq[f]]
    /\ recvSeq' = [f \in Channel |->
                      IF f[2] = p /\ recvCut[f] # Missing THEN recvCut[f]
                                                          ELSE recvSeq[f]]
    /\ UNCHANGED <<unacked, recvBuffer>>

(* FAULT: the recorded channels are not replayed.                          *)
LoadWithoutReplay(p) ==
    /\ sidecar[p] = "starting"
    /\ sidecar' = [sidecar EXCEPT ![p] = "restored"]
    /\ Seed(p)
    /\ unseeded' = unseeded \ {p}
    /\ UNCHANGED <<files, app, counter, scripts, transfers, failures>>

(* GET /snapshot/<id>, seed the PeerStates, replay the recorded channels.  *)
LoadArtifact(p) ==
    /\ sidecar[p] = "starting"
    /\ sidecar' = [sidecar EXCEPT ![p] = "restored"]
    /\ Seed(p)
    /\ counter' = [counter EXCEPT ![p] = @ + SumFunctionOnSet(recorded, In(p))]
    /\ unseeded' = unseeded \ {p}
    /\ UNCHANGED <<files, app, scripts, transfers, failures>>

(* The GET fails, or a delivery raises in the replay: the exception is     *)
(* swallowed and the sidecar serves with what it has got.                  *)
LoadFails(p) ==
    /\ sidecar[p] = "starting"
    /\ Fail
    /\ sidecar' = [sidecar EXCEPT ![p] = "restored"]
    /\ unseeded' = unseeded \cup {p}
    /\ \/ UNCHANGED <<peers, counter>>
       \/ /\ Seed(p)
          /\ \E n \in 0 .. SumFunctionOnSet(recorded, In(p)) - 1 :
                 counter' = [counter EXCEPT ![p] = @ + n]
    /\ UNCHANGED <<files, app, scripts, transfers>>

-----------------------------------------------------------------------------

ScriptStep(s) ==
    \E p \in s : \/ Stop(s, p) \/ StopFails(s, p)
                 \/ RestoreApp(s, p) \/ RestoreFails(s, p)
                 \/ RunSidecar(s, p) \/ RunSidecarFails(s, p)

Next ==
    \/ \E f \in Channel : Transfer(f)
    \/ \E f \in Channel : \E n \in unacked[f] : Receive(f, n)
    \/ \E s \in Script : RunRestore(s) \/ ScriptStep(s)
    \/ \E p \in Node : LoadArtifact(p) \/ LoadFails(p)

Spec == Init /\ [][Next]_vars

(* The next datagram of a channel is retransmitted until it arrives, and a *)
(* starting sidecar loads its artifact or fails to.                        *)
ReceiveNext(f) == \E n \in unacked[f] : n = recvSeq[f] /\ Receive(f, n)

Fairness == /\ \A f \in Channel : WF_vars(ReceiveNext(f))
            /\ \A p \in Node : WF_vars(LoadArtifact(p) \/ LoadFails(p))

LiveSpec == Spec /\ Fairness

-----------------------------------------------------------------------------

CreditTypeOK ==
    /\ image \in [Node -> Int]
    /\ counter \in [Node -> Int]

LinkTypeOK ==
    /\ sendCut \in [Channel -> Nat]
    /\ recvCut \in [Channel -> Nat \cup {Missing}]
    /\ recorded \in [Channel -> Nat]
    /\ app \in [Node -> {"old", "none", "restored"}]
    /\ sidecar \in [Node -> {"old", "none", "starting", "restored"}]
    /\ sendSeq \in [Channel -> Nat]
    /\ unacked \in [Channel -> SUBSET Nat]
    /\ recvSeq \in [Channel -> Nat]
    /\ recvBuffer \in [Channel -> SUBSET Nat]
    /\ step \in [Script -> {"idle", "stopping", "restoring", "starting", "done",
                            "failed"}]
    /\ todo \in [Script -> SUBSET Node]
    /\ runs \in [Script -> Nat]
    /\ unseeded \in SUBSET Node
    /\ transfers \in Nat
    /\ failures \in Nat

(* The types of the state: no sequence number is ever the null coordinate  *)
(* of an aborted artifact.                                                 *)
TypeOK == CreditTypeOK /\ LinkTypeOK

Ready == \A p \in Node : sidecar[p] = "restored"

(* All credit there is: in the counters, on its way to a receiver that     *)
(* will still take it, or in a recv_buffer.                                *)
InFlight(f) == {n \in unacked[f] : n >= recvSeq[f]} \cup recvBuffer[f]

Holdings == SumFunctionOnSet(counter, Node)
          + SumFunctionOnSet([f \in Channel |-> Cardinality(InFlight(f))], Channel)

Total == Cardinality(Node) * InitCounter

(* What the snapshot left: all credit, with both ends of every channel at  *)
(* one number (Snapshot, CutAccounts and SeqMatch).  Files of an aborted   *)
(* snapshot can hold less than there is, or a credit twice.                *)
CutCredit  == SumFunction(image) + SumFunction(recorded)
Consistent == CutCredit = Total /\ \A f \in Channel : recvCut[f] = sendCut[f]

(* Once every server is restored from its artifact of a consistent cut,    *)
(* the total is what it was when the mesh was set up, whatever the old     *)
(* instances did after the cut, however often a script was run and wherever*)
(* one failed ("so no in-flight credits are lost or duplicated",           *)
(* RUNBOOK.md).                                                            *)
RestoreConserves == Consistent /\ Ready /\ unseeded = {} => Holdings = Total

(* Whatever the artifacts are, aborted ones included, and whichever could  *)
(* be loaded, a restore can lose credit but has never more than the images *)
(* and the recorded channels it was made from (restore_from_artifact       *)
(* overlooks the status, swallows failures, and serves).                   *)
NeverForges == Ready => Holdings <= CutCredit

(* Both ends of f come from the same cut.                                  *)
Joined(f) == /\ sidecar[f[1]] = "restored" /\ f[1] \notin unseeded
             /\ sidecar[f[2]] = "restored" /\ f[2] \notin unseeded
             /\ recvCut[f] = sendCut[f]

(* Between two sidecars restored to one cut no number is used twice and    *)
(* none is skipped: what is not delivered yet is still at the sender or in *)
(* the buffer ("sender send_seq and receiver recv_seq match by             *)
(* construction", restore_from_artifact).                                  *)
ChannelsWhole ==
    \A f \in Channel : Joined(f) =>
        /\ sendCut[f] <= recvSeq[f] /\ recvSeq[f] <= sendSeq[f]
        /\ recvSeq[f] .. sendSeq[f] - 1 = InFlight(f)

(* A channel restored to one cut goes on: what its sender numbers is       *)
(* delivered, for as long as both ends are up (restore_from_artifact,      *)
(* "then resumes live traffic" in RUNBOOK.md).                             *)
CatchesUp == \A f \in Channel : []<>(~Joined(f) \/ recvSeq[f] = sendSeq[f])

=============================================================================
