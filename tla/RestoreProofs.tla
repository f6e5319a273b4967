---------------------------- MODULE RestoreProofs ----------------------------
(***************************************************************************)
(* Theorems about Restore, for any finite set of servers restored by one   *)
(* run_restore.sh, run any number of times and failing anywhere: no        *)
(* sequence number is ever null, between two restored sidecars no number   *)
(* is skipped or used for two datagrams, and no credit is lost or forged.  *)
(*                                                                         *)
(* The argument for the numbers: the loops of the script keep the          *)
(* generations apart.  All sidecars are gone when the first fresh one is   *)
(* started, so a server that has yet to load its artifact (Pending) has    *)
(* exchanged nothing with those that have loaded theirs, and these are     *)
(* still at the cut towards it.                                            *)
(*                                                                         *)
(* For the credit: every restored server keeps a ledger.  Its counter is   *)
(* that of its image, plus what its channels into it have brought since    *)
(* the cut, replayed or received, less what it has sent since.  What has   *)
(* been received and sent is the distance of recv_seq and send_seq from    *)
(* where the sidecar began: at the cut, or at 0 where nothing was seeded.  *)
(* Added up over the servers, a channel whose ends began at the same cut   *)
(* counts for what was recorded on it and no more; a channel whose ends    *)
(* did not can only have dropped some of what was sent.                    *)
(***************************************************************************)
EXTENDS Restore, SumTheorems, TLAPS

TheStep == step[Node]
TheTodo == todo[Node]

(* An application goes after its sidecar; fresh sidecars are started only  *)
(* when every application has come back, and until then a server that came *)
(* back has none.                                                          *)
PhaseInv ==
    /\ \A p \in Node : app[p] = "none" => sidecar[p] = "none"
    /\ TheStep = "restoring" =>
           \A p \in Node \ TheTodo : app[p] = "restored" /\ sidecar[p] = "none"
    /\ TheStep = "starting" =>
           /\ \A p \in Node : app[p] = "restored"
           /\ \A p \in TheTodo : sidecar[p] = "none"

(* p's fresh sidecar has not loaded its artifact, or is about to start.    *)
Pending(p) == sidecar[p] = "starting" \/ (TheStep = "starting" /\ p \in TheTodo)

(* p has no sidecar, or a fresh one that has not read anything yet.        *)
Fresh(p) == sidecar[p] \in {"none", "starting"}

Loaded(p) == sidecar[p] = "restored" /\ p \notin unseeded

(* What was sent since the cut is numbered from the cut on, and all of it  *)
(* is still unacknowledged while the receiver is pending.                  *)
SenderInv(f) ==
    /\ Fresh(f[1]) => unacked[f] = {}
    /\ Loaded(f[1]) => /\ sendCut[f] <= sendSeq[f]
                       /\ unacked[f] \subseteq sendCut[f] .. sendSeq[f] - 1
    /\ Loaded(f[1]) /\ Pending(f[2]) => unacked[f] = sendCut[f] .. sendSeq[f] - 1

(* A receiver is at the cut while the sender is pending.                   *)
ReceiverInv(f) ==
    /\ Fresh(f[2]) => recvBuffer[f] = {}
    /\ Loaded(f[2]) /\ Pending(f[1]) /\ recvCut[f] = sendCut[f] =>
           recvSeq[f] = recvCut[f] /\ recvBuffer[f] = {}

JoinedInv(f) ==
    Joined(f) =>
        /\ sendCut[f] <= recvSeq[f] /\ recvSeq[f] <= sendSeq[f]
        /\ recvBuffer[f] \subseteq recvSeq[f] + 1 .. sendSeq[f] - 1
        /\ recvSeq[f] .. sendSeq[f] - 1 \subseteq unacked[f] \cup recvBuffer[f]

LinkInv == \A f \in Channel : SenderInv(f) /\ ReceiverInv(f) /\ JoinedInv(f)

IndInv == LinkTypeOK /\ PhaseInv /\ LinkInv

-----------------------------------------------------------------------------

LEMMA ChannelEnds == \A f \in Channel : f[1] \in Node /\ f[2] \in Node
BY DEF Channel

(* What a snapshot leaves, aborted or not, can be read.                    *)
LEMMA CutTyped ==
    ASSUME NEW before \in [Channel -> 0 .. MaxBefore],
           CompleteCut(before) \/ AbortedCut(before)
    PROVE  /\ recorded \in [Channel -> Nat]
           /\ sendCut \in [Channel -> Nat]
           /\ recvCut \in [Channel -> Nat \cup {Missing}]
           /\ sendSeq \in [Channel -> Nat]
<1>1. MaxBefore \in Nat
  BY BoundAssumption
<1>2. \A f \in Channel : before[f] \in Nat /\ before[f] + 1 \in Nat /\ before[f] + 2 \in Nat
  BY <1>1
<1>3. CASE CompleteCut(before)
  <2>1. recorded \in [Channel -> Nat]
    BY <1>1, <1>3 DEF CompleteCut
  <2>2. sendCut \in [Channel -> Nat]
    BY <1>2, <1>3 DEF CompleteCut
  <2>3. recvCut = sendCut /\ sendSeq = sendCut
    BY <1>3 DEF CompleteCut
  <2> QED BY <2>1, <2>2, <2>3
<1>4. CASE AbortedCut(before)
  <2>1. PICK null \in SUBSET Channel \ {{}}, again \in SUBSET Node :
            \E stored \in SUBSET again :
                /\ recorded \in [Channel -> 0 .. MaxBefore]
                /\ sendCut = [f \in Channel |->
                       IF f[1] \in stored THEN before[f] + 2 ELSE before[f] + 1]
                /\ recvCut = [f \in Channel |->
                       IF f \in null THEN Missing
                       ELSE IF f[2] \in stored THEN before[f] + 2 ELSE before[f] + 1]
                /\ sendSeq = [f \in Channel |-> before[f] + 2]
    BY <1>4, Zenon DEF AbortedCut
  <2>2. PICK stored \in SUBSET again :
            /\ recorded \in [Channel -> 0 .. MaxBefore]
            /\ sendCut = [f \in Channel |->
                   IF f[1] \in stored THEN before[f] + 2 ELSE before[f] + 1]
            /\ recvCut = [f \in Channel |->
                   IF f \in null THEN Missing
                   ELSE IF f[2] \in stored THEN before[f] + 2 ELSE before[f] + 1]
            /\ sendSeq = [f \in Channel |-> before[f] + 2]
    BY <2>1
  <2>3. recorded \in [Channel -> Nat]
    BY <1>1, <2>2
  <2>4. sendCut \in [Channel -> Nat]
    BY <1>2, <2>2
  <2>5. recvCut \in [Channel -> Nat \cup {Missing}]
    BY <1>2, <2>2
  <2>6. sendSeq \in [Channel -> Nat]
    BY <1>2, <2>2
  <2> QED BY <2>3, <2>4, <2>5, <2>6
<1> QED BY <1>3, <1>4

LEMMA InitHolds ==
    ASSUME Script = {Node}, Init
    PROVE  IndInv
<1>1. PICK before \in [Channel -> 0 .. MaxBefore] :
          CompleteCut(before) \/ AbortedCut(before)
  BY DEF Init
<1>2. LinkTypeOK
  BY <1>1, CutTyped DEF Init, LinkTypeOK
<1>3. PhaseInv
  BY DEF Init, PhaseInv, TheStep
<1>4. \A p \in Node : ~Loaded(p) /\ ~Pending(p) /\ ~Fresh(p)
  BY DEF Init, Loaded, Pending, Fresh, TheStep
<1>5. LinkInv
  BY <1>4, ChannelEnds
     DEF LinkInv, SenderInv, ReceiverInv, JoinedInv, Joined, Loaded
<1> QED BY <1>2, <1>3, <1>5 DEF IndInv

-----------------------------------------------------------------------------
(* The mesh.                                                               *)

(* What serves is not pending.                                             *)
LEMMA ServingIsUp ==
    ASSUME IndInv, NEW p \in Node, Serving(p)
    PROVE  ~Pending(p) /\ ~Fresh(p)
BY DEF IndInv, PhaseInv, Serving, Pending, Fresh

LEMMA TransferKeeps ==
    ASSUME IndInv, NEW f \in Channel, Transfer(f)
    PROVE  IndInv'
<1> f[1] \in Node BY ChannelEnds
<1>1. LinkTypeOK'
  BY DEF Transfer, IndInv, LinkTypeOK, files, scripts
<1>2. PhaseInv'
  BY DEF Transfer, IndInv, PhaseInv, files, scripts, TheStep, TheTodo
<1>3. ASSUME NEW g \in Channel
      PROVE  SenderInv(g)' /\ ReceiverInv(g)' /\ JoinedInv(g)'
  <2>1. ~Pending(f[1]) /\ ~Fresh(f[1])
    BY ServingIsUp DEF Transfer
  <2>2. SenderInv(g) /\ ReceiverInv(g) /\ JoinedInv(g)
    BY DEF IndInv, LinkInv
  <2>3. \A p \in Node : /\ Pending(p)' <=> Pending(p)
                        /\ Loaded(p)' <=> Loaded(p)
                        /\ Fresh(p)' <=> Fresh(p)
    BY DEF Transfer, Pending, Loaded, Fresh, scripts, TheStep, TheTodo
  <2>4. CASE g # f
    BY <2>2, <2>3, <2>4, ChannelEnds
       DEF IndInv, LinkTypeOK, SenderInv, ReceiverInv, JoinedInv, Joined, Transfer,
           files, Loaded
  <2>5. CASE g = f
    <3>1. /\ sendSeq'[f] = sendSeq[f] + 1
          /\ unacked'[f] = unacked[f] \cup {sendSeq[f]}
          /\ recvSeq' = recvSeq /\ recvBuffer' = recvBuffer
          /\ sendCut' = sendCut /\ recvCut' = recvCut
          /\ sendSeq[f] \in Nat /\ recvSeq[f] \in Nat /\ sendCut[f] \in Nat
      BY DEF Transfer, IndInv, LinkTypeOK, files
    <3>2. SenderInv(f)'
      BY <2>1, <2>2, <2>3, <2>5, <3>1, ChannelEnds DEF SenderInv
    <3>3. ReceiverInv(f)'
      BY <2>1, <2>2, <2>3, <2>5, <3>1, ChannelEnds DEF ReceiverInv
    <3>4. JoinedInv(f)'
      <4>1. Joined(f)' <=> Joined(f)
        BY <3>1 DEF Joined, Transfer
      <4> QED BY <4>1, <2>2, <2>5, <3>1 DEF JoinedInv
    <3> QED BY <2>5, <3>2, <3>3, <3>4
  <2> QED BY <2>4, <2>5
<1> QED BY <1>1, <1>2, <1>3 DEF IndInv, LinkInv

(* A datagram that arrives leaves recv_seq at the first missing number.    *)
LEMMA ReceiveKeeps ==
    ASSUME IndInv, NEW f \in Channel, NEW n \in unacked[f], Receive(f, n)
    PROVE  IndInv'
<1> f[1] \in Node /\ f[2] \in Node BY ChannelEnds
<1>a. /\ n \in Nat /\ sendSeq[f] \in Nat /\ recvSeq[f] \in Nat /\ sendCut[f] \in Nat
      /\ recvBuffer[f] \in SUBSET Nat /\ unacked[f] \in SUBSET Nat
  BY DEF IndInv, LinkTypeOK
<1>b. /\ files' = files /\ app' = app /\ sidecar' = sidecar /\ sendSeq' = sendSeq
      /\ scripts' = scripts /\ counts' = counts
  BY DEF Receive
<1>c. unacked'[f] \in {unacked[f], unacked[f] \ {n}}
  BY DEF Receive, IndInv, LinkTypeOK
<1>d. \A g \in Channel : g # f => /\ unacked'[g] = unacked[g]
                                  /\ recvSeq'[g] = recvSeq[g]
                                  /\ recvBuffer'[g] = recvBuffer[g]
  BY DEF Receive, DeliverInOrder, BufferFuture, DropStale, IndInv, LinkTypeOK
<1>1. LinkTypeOK'
  <2>1. unacked' \in [Channel -> SUBSET Nat]
    BY DEF Receive, IndInv, LinkTypeOK
  <2>2. recvSeq' \in [Channel -> Nat] /\ recvBuffer' \in [Channel -> SUBSET Nat]
    <3>1. CASE DeliverInOrder(f, n)
      <4>1. PICK stop \in n + 1 .. n + 1 + Cardinality(recvBuffer[f]) :
                /\ recvSeq' = [recvSeq EXCEPT ![f] = stop]
                /\ recvBuffer' = [recvBuffer EXCEPT ![f] = {k \in @ : k > stop}]
        BY <3>1 DEF DeliverInOrder
      <4>2. stop \in Nat
        BY <1>a, <4>1
      <4> QED BY <4>1, <4>2 DEF IndInv, LinkTypeOK
    <3>2. CASE BufferFuture(f, n)
      BY <3>2, <1>a DEF BufferFuture, IndInv, LinkTypeOK
    <3>3. CASE DropStale(f, n)
      BY <3>3 DEF DropStale, IndInv, LinkTypeOK
    <3> QED BY <3>1, <3>2, <3>3 DEF Receive
  <2> QED BY <2>1, <2>2, <1>b DEF IndInv, LinkTypeOK, files, scripts, counts
<1>2. PhaseInv'
  BY <1>b DEF IndInv, PhaseInv, files, scripts, TheStep, TheTodo
<1>3. ASSUME NEW g \in Channel
      PROVE  SenderInv(g)' /\ ReceiverInv(g)' /\ JoinedInv(g)'
  <2>1. ~Pending(f[1]) /\ ~Fresh(f[1]) /\ ~Pending(f[2]) /\ ~Fresh(f[2])
    BY ServingIsUp DEF Receive
  <2>2. SenderInv(g) /\ ReceiverInv(g) /\ JoinedInv(g)
    BY DEF IndInv, LinkInv
  <2>3. \A p \in Node : /\ Pending(p)' <=> Pending(p)
                        /\ Loaded(p)' <=> Loaded(p)
                        /\ Fresh(p)' <=> Fresh(p)
    BY <1>b DEF Pending, Loaded, Fresh, scripts, counts, TheStep, TheTodo
  <2>4. (Joined(g)' <=> Joined(g)) /\ sendCut' = sendCut /\ recvCut' = recvCut
    BY <1>b DEF Joined, files, counts
  <2>5. CASE g # f
    BY <1>b, <1>d, <2>2, <2>3, <2>4, <2>5, ChannelEnds
       DEF SenderInv, ReceiverInv, JoinedInv
  <2>6. CASE g = f
    <3>1. SenderInv(f)'
      BY <1>a, <1>b, <1>c, <2>1, <2>2, <2>3, <2>4, <2>6 DEF SenderInv
    <3>2. ReceiverInv(f)'
      BY <2>1, <2>3 DEF ReceiverInv
    <3>3. ASSUME Joined(f)
          PROVE  /\ sendCut[f] <= recvSeq'[f] /\ recvSeq'[f] <= sendSeq[f]
                 /\ recvBuffer'[f] \subseteq recvSeq'[f] + 1 .. sendSeq[f] - 1
                 /\ recvSeq'[f] .. sendSeq[f] - 1
                        \subseteq unacked'[f] \cup recvBuffer'[f]
      <4>0. /\ sendCut[f] <= recvSeq[f] /\ recvSeq[f] <= sendSeq[f]
            /\ recvBuffer[f] \subseteq recvSeq[f] + 1 .. sendSeq[f] - 1
            /\ recvSeq[f] .. sendSeq[f] - 1 \subseteq unacked[f] \cup recvBuffer[f]
            /\ unacked[f] \subseteq sendCut[f] .. sendSeq[f] - 1
        BY <2>2, <2>6, <3>3 DEF JoinedInv, SenderInv, Joined, Loaded
      <4>1. CASE DeliverInOrder(f, n)
        <5>1. PICK stop \in n + 1 .. n + 1 + Cardinality(recvBuffer[f]) :
                  /\ n + 1 .. stop - 1 \subseteq recvBuffer[f]
                  /\ stop \notin recvBuffer[f]
                  /\ recvSeq' = [recvSeq EXCEPT ![f] = stop]
                  /\ recvBuffer' = [recvBuffer EXCEPT ![f] = {k \in @ : k > stop}]
          BY <4>1 DEF DeliverInOrder
        <5>2. /\ stop \in Nat /\ stop > n /\ n = recvSeq[f]
              /\ recvSeq'[f] = stop /\ recvBuffer'[f] = {k \in recvBuffer[f] : k > stop}
          BY <1>a, <5>1, <4>1 DEF DeliverInOrder, IndInv, LinkTypeOK
        <5>3. stop <= sendSeq[f]
          <6>1. CASE stop = n + 1
            BY <6>1, <4>0, <1>a
          <6>2. CASE stop > n + 1
            <7>1. stop - 1 \in n + 1 .. stop - 1
              BY <6>2, <5>2, <1>a
            <7>2. stop - 1 \in recvBuffer[f]
              BY <7>1, <5>1
            <7>3. stop - 1 \in recvSeq[f] + 1 .. sendSeq[f] - 1
              BY <7>2, <4>0
            <7> QED BY <7>3, <5>2, <1>a
          <6> QED BY <6>1, <6>2, <5>2, <1>a
        <5>4. stop .. sendSeq[f] - 1 \subseteq unacked'[f] \cup recvBuffer'[f]
          <6> SUFFICES ASSUME NEW k \in stop .. sendSeq[f] - 1
                       PROVE  k \in unacked'[f] \cup recvBuffer'[f]
            OBVIOUS
          <6>1. k \in unacked[f] \cup recvBuffer[f] /\ k # n
            BY <4>0, <5>2, <1>a
          <6>2. CASE k \in unacked[f]
            BY <6>1, <6>2, <1>c
          <6>3. CASE k \in recvBuffer[f]
            <7>1. k # stop
              BY <6>3, <5>1
            <7> QED BY <7>1, <6>3, <5>2
          <6> QED BY <6>1, <6>2, <6>3
        <5>5. recvBuffer'[f] \subseteq stop + 1 .. sendSeq[f] - 1
          BY <5>2, <4>0, <1>a
        <5> QED BY <5>2, <5>3, <5>4, <5>5, <4>0, <1>a
      <4>2. CASE BufferFuture(f, n)
        <5>1. /\ recvSeq' = recvSeq /\ recvBuffer'[f] = recvBuffer[f] \cup {n}
              /\ n > recvSeq[f]
          BY <4>2 DEF BufferFuture, IndInv, LinkTypeOK
        <5> QED BY <5>1, <4>0, <1>a, <1>c
      <4>3. CASE DropStale(f, n)
        <5>1. recvSeq' = recvSeq /\ recvBuffer' = recvBuffer /\ n < recvSeq[f]
          BY <4>3 DEF DropStale
        <5> QED BY <5>1, <4>0, <1>a, <1>c
      <4> QED BY <4>1, <4>2, <4>3 DEF Receive
    <3>4. JoinedInv(f)'
      BY <3>3, <2>4, <2>6, <1>b DEF JoinedInv
    <3> QED BY <2>6, <3>1, <3>2, <3>4
  <2> QED BY <2>5, <2>6
<1> QED BY <1>1, <1>2, <1>3 DEF IndInv, LinkInv

-----------------------------------------------------------------------------
(* The script.                                                             *)

(* A step that leaves sidecars and sequence numbers alone.                 *)
LEMMA IdleKeepsLinks ==
    ASSUME IndInv, UNCHANGED <<files, sidecar, peers, unseeded>>,
           \A q \in Node : Pending(q)' => Pending(q)
    PROVE  LinkInv'
<1>1. ASSUME NEW g \in Channel
      PROVE  SenderInv(g)' /\ ReceiverInv(g)' /\ JoinedInv(g)'
  BY ChannelEnds
     DEF IndInv, LinkInv, SenderInv, ReceiverInv, JoinedInv, Joined, Loaded, Fresh,
         files, peers
<1> QED BY <1>1 DEF LinkInv

(* A step that ends a sidecar, or replaces it by one that has read nothing.*)
LEMMA EndingKeepsLinks ==
    ASSUME IndInv, NEW p \in Node, NoPeers(p), UNCHANGED <<files, unseeded>>,
           NEW to \in {"none", "starting"}, sidecar' = [sidecar EXCEPT ![p] = to],
           \A q \in Node : Pending(q)' => Pending(q)
    PROVE  LinkInv'
<1>1. ASSUME NEW g \in Channel
      PROVE  SenderInv(g)' /\ ReceiverInv(g)' /\ JoinedInv(g)'
  <2> g[1] \in Node /\ g[2] \in Node /\ g[1] # g[2] BY DEF Channel
  <2>1. SenderInv(g) /\ ReceiverInv(g) /\ JoinedInv(g)
    BY DEF IndInv, LinkInv
  <2>2. sendCut' = sendCut /\ recvCut' = recvCut
    BY DEF files
  <2>3. sidecar'[p] = to /\ \A q \in Node \ {p} : sidecar'[q] = sidecar[q]
    BY DEF IndInv, LinkTypeOK
  <2>4. /\ ~Loaded(p)' /\ Fresh(p)'
        /\ \A q \in Node \ {p} : (Loaded(q)' <=> Loaded(q)) /\ (Fresh(q)' <=> Fresh(q))
    BY <2>3 DEF Loaded, Fresh
  <2>5. CASE g[1] = p
    <3>1. /\ unacked'[g] = {} /\ recvSeq'[g] = recvSeq[g]
          /\ recvBuffer'[g] = recvBuffer[g]
      BY <2>5 DEF NoPeers, IndInv, LinkTypeOK
    <3>2. ~Joined(g)'
      BY <2>3, <2>5 DEF Joined
    <3> QED BY <2>1, <2>2, <2>4, <2>5, <3>1, <3>2
            DEF SenderInv, ReceiverInv, JoinedInv
  <2>6. CASE g[2] = p
    <3>1. /\ recvBuffer'[g] = {} /\ sendSeq'[g] = sendSeq[g]
          /\ unacked'[g] = unacked[g]
      BY <2>6 DEF NoPeers, IndInv, LinkTypeOK
    <3>2. ~Joined(g)'
      BY <2>3, <2>6 DEF Joined
    <3> QED BY <2>1, <2>2, <2>4, <2>6, <3>1, <3>2
            DEF SenderInv, ReceiverInv, JoinedInv
  <2>7. CASE g[1] # p /\ g[2] # p
    <3>1. /\ sendSeq'[g] = sendSeq[g] /\ unacked'[g] = unacked[g]
          /\ recvSeq'[g] = recvSeq[g] /\ recvBuffer'[g] = recvBuffer[g]
      BY <2>7 DEF NoPeers, IndInv, LinkTypeOK
    <3>2. Joined(g)' <=> Joined(g)
      BY <2>2, <2>3, <2>7 DEF Joined
    <3> QED BY <2>1, <2>2, <2>4, <2>7, <3>1, <3>2
            DEF SenderInv, ReceiverInv, JoinedInv
  <2> QED BY <2>5, <2>6, <2>7
<1> QED BY <1>1 DEF LinkInv

LEMMA NoPeersTyped ==
    ASSUME LinkTypeOK, NEW p \in Node, NoPeers(p)
    PROVE  /\ sendSeq' \in [Channel -> Nat] /\ unacked' \in [Channel -> SUBSET Nat]
           /\ recvSeq' \in [Channel -> Nat] /\ recvBuffer' \in [Channel -> SUBSET Nat]
<1>1. sendSeq' \in [Channel -> Nat] /\ recvSeq' \in [Channel -> Nat]
  BY DEF LinkTypeOK, NoPeers
<1>2. unacked' \in [Channel -> SUBSET Nat]
  BY DEF LinkTypeOK, NoPeers
<1>3. recvBuffer' \in [Channel -> SUBSET Nat]
  BY DEF LinkTypeOK, NoPeers
<1> QED BY <1>1, <1>2, <1>3

LEMMA RunRestoreKeeps ==
    ASSUME Script = {Node}, IndInv, RunRestore(Node)
    PROVE  IndInv'
<1>1. TheStep' = "stopping"
  BY DEF RunRestore, IndInv, LinkTypeOK, TheStep
<1>2. LinkTypeOK'
  BY DEF RunRestore, IndInv, LinkTypeOK, files, containers, peers, counts
<1>3. PhaseInv'
  BY <1>1 DEF RunRestore, IndInv, PhaseInv, containers
<1>4. LinkInv'
  BY <1>1, IdleKeepsLinks DEF RunRestore, Pending, containers, counts
<1> QED BY <1>2, <1>3, <1>4 DEF IndInv

LEMMA StopKeeps ==
    ASSUME Script = {Node}, IndInv, NEW p \in Node,
           Stop(Node, p) \/ StopFails(Node, p)
    PROVE  IndInv'
<1>1. /\ TheStep = "stopping" /\ p \in TheTodo /\ Advance(Node, p, "restoring")
      /\ UNCHANGED <<files, runs, unseeded, transfers>>
  BY DEF Stop, StopFails, TheStep, TheTodo, counts
<1>2. /\ \/ TheStep' = "restoring" /\ TheTodo' = Node
         \/ TheStep' = "stopping"
      /\ step' \in [Script -> {"idle", "stopping", "restoring", "starting",
                               "done", "failed"}]
      /\ todo' \in [Script -> SUBSET Node]
  BY <1>1 DEF IndInv, LinkTypeOK, Advance, TheStep, TheTodo
<1>3. \/ UNCHANGED <<sidecar, peers, app>>
      \/ /\ NoPeers(p) /\ sidecar' = [sidecar EXCEPT ![p] = "none"]
         /\ app' \in {app, [app EXCEPT ![p] = "none"]}
  BY DEF Stop, StopFails
<1>4. LinkTypeOK'
  <2>1. failures' \in Nat
    BY DEF Stop, StopFails, Fail, IndInv, LinkTypeOK, counts
  <2>2. /\ app' \in [Node -> {"old", "none", "restored"}]
        /\ sidecar' \in [Node -> {"old", "none", "starting", "restored"}]
        /\ sendSeq' \in [Channel -> Nat] /\ unacked' \in [Channel -> SUBSET Nat]
        /\ recvSeq' \in [Channel -> Nat] /\ recvBuffer' \in [Channel -> SUBSET Nat]
    <3>1. CASE UNCHANGED <<sidecar, peers, app>>
      BY <3>1 DEF IndInv, LinkTypeOK, peers
    <3>2. CASE NoPeers(p) /\ sidecar' = [sidecar EXCEPT ![p] = "none"]
      <4>1. app' \in [Node -> {"old", "none", "restored"}]
        BY <1>3 DEF IndInv, LinkTypeOK
      <4>2. sidecar' \in [Node -> {"old", "none", "starting", "restored"}]
        BY <3>2 DEF IndInv, LinkTypeOK
      <4> QED BY <3>2, <4>1, <4>2, NoPeersTyped DEF IndInv
    <3> QED BY <1>3, <3>1, <3>2
  <2> QED BY <1>1, <1>2, <2>1, <2>2 DEF IndInv, LinkTypeOK, files
<1>5. PhaseInv'
  BY <1>2, <1>3 DEF IndInv, PhaseInv, LinkTypeOK
<1>6. \A q \in Node : Pending(q)' => Pending(q)
  BY <1>2, <1>3 DEF IndInv, LinkTypeOK, Pending
<1>7. LinkInv'
  BY <1>1, <1>3, <1>6, IdleKeepsLinks, EndingKeepsLinks
<1> QED BY <1>4, <1>5, <1>7 DEF IndInv

(* The last image brought back: all sidecars are gone and every server is  *)
(* pending.                                                                *)
LEMMA RestoreAppKeeps ==
    ASSUME Script = {Node}, IndInv, NEW p \in Node, RestoreApp(Node, p)
    PROVE  IndInv'
<1>1. /\ TheStep = "restoring" /\ p \in TheTodo /\ Advance(Node, p, "starting")
      /\ app[p] = "none" /\ app' = [app EXCEPT ![p] = "restored"]
      /\ UNCHANGED <<files, sidecar, peers, runs, counts>>
  BY DEF RestoreApp, BringBack, TheStep, TheTodo
<1>2. /\ \/ TheTodo = {p} /\ TheStep' = "starting" /\ TheTodo' = Node
         \/ TheStep' = "restoring" /\ TheTodo' = TheTodo \ {p}
      /\ step' \in [Script -> {"idle", "stopping", "restoring", "starting",
                               "done", "failed"}]
      /\ todo' \in [Script -> SUBSET Node]
  BY <1>1 DEF IndInv, LinkTypeOK, Advance, TheStep, TheTodo
<1>3. LinkTypeOK'
  BY <1>1, <1>2 DEF IndInv, LinkTypeOK, files, peers, counts
<1>4. PhaseInv'
  BY <1>1, <1>2 DEF IndInv, PhaseInv, LinkTypeOK
<1>5. CASE TheStep' = "restoring"
  <2>1. \A q \in Node : Pending(q)' => Pending(q)
    BY <1>1, <1>5 DEF Pending
  <2> QED BY <1>1, <1>3, <1>4, <2>1, IdleKeepsLinks DEF IndInv, counts
<1>6. CASE TheTodo = {p}
  <2>1. \A q \in Node : sidecar'[q] = "none"
    BY <1>1, <1>6 DEF IndInv, PhaseInv
  <2>2. \A q \in Node : ~Loaded(q)' /\ Fresh(q)' /\ Fresh(q)
    BY <1>1, <2>1 DEF Loaded, Fresh
  <2>3. LinkInv'
    BY <1>1, <2>2, ChannelEnds
       DEF IndInv, LinkInv, SenderInv, ReceiverInv, JoinedInv, Joined, Loaded, peers,
           Fresh
  <2> QED BY <1>3, <1>4, <2>3 DEF IndInv
<1> QED BY <1>2, <1>5, <1>6

LEMMA AbortKeeps ==
    ASSUME Script = {Node}, IndInv, NEW p \in Node,
           RestoreFails(Node, p) \/ RunSidecarFails(Node, p)
    PROVE  IndInv'
<1>1. /\ TheStep' = "failed"
      /\ step' \in [Script -> {"idle", "stopping", "restoring", "starting",
                               "done", "failed"}]
      /\ todo' \in [Script -> SUBSET Node]
      /\ UNCHANGED <<files, runs, unseeded, transfers>>
  BY DEF RestoreFails, RunSidecarFails, Abort, IndInv, LinkTypeOK, TheStep
<1>2. failures' \in Nat
  BY DEF RestoreFails, RunSidecarFails, Fail, IndInv, LinkTypeOK
<1>3. CASE RestoreFails(Node, p)
  <2>1. /\ app' \in {app, [app EXCEPT ![p] = "restored"]}
        /\ UNCHANGED <<sidecar, peers>>
    BY <1>3 DEF RestoreFails, BringBack
  <2>2. LinkTypeOK'
    BY <1>1, <1>2, <2>1 DEF IndInv, LinkTypeOK, files, peers
  <2>3. PhaseInv'
    BY <1>1, <2>1 DEF IndInv, PhaseInv, LinkTypeOK
  <2>4. \A q \in Node : Pending(q)' => Pending(q)
    BY <1>1, <2>1 DEF Pending
  <2> QED BY <1>1, <2>1, <2>2, <2>3, <2>4, IdleKeepsLinks DEF IndInv
<1>4. CASE RunSidecarFails(Node, p)
  <2>1. /\ UNCHANGED app
        /\ TheStep = "starting" /\ p \in TheTodo
        /\ \/ UNCHANGED <<sidecar, peers>>
           \/ NoPeers(p) /\ sidecar' = [sidecar EXCEPT ![p] = "starting"]
    BY <1>4 DEF RunSidecarFails, TheStep, TheTodo
  <2>2. LinkTypeOK'
    <3>1. CASE UNCHANGED <<sidecar, peers>>
      BY <1>1, <1>2, <2>1, <3>1 DEF IndInv, LinkTypeOK, files, peers
    <3>2. CASE NoPeers(p) /\ sidecar' = [sidecar EXCEPT ![p] = "starting"]
      <4>1. sidecar' \in [Node -> {"old", "none", "starting", "restored"}]
        BY <3>2 DEF IndInv, LinkTypeOK
      <4> QED BY <1>1, <1>2, <2>1, <3>2, <4>1, NoPeersTyped
              DEF IndInv, LinkTypeOK, files
    <3> QED BY <2>1, <3>1, <3>2
  <2>3. PhaseInv'
    BY <1>1, <2>1 DEF IndInv, PhaseInv, LinkTypeOK
  <2>4. \A q \in Node : Pending(q)' => Pending(q)
    BY <1>1, <2>1 DEF IndInv, LinkTypeOK, Pending
  <2> QED BY <1>1, <2>1, <2>2, <2>3, <2>4, IdleKeepsLinks, EndingKeepsLinks DEF IndInv
<1> QED BY <1>3, <1>4

LEMMA RunSidecarKeeps ==
    ASSUME Script = {Node}, IndInv, NEW p \in Node, RunSidecar(Node, p)
    PROVE  IndInv'
<1>1. /\ TheStep = "starting" /\ p \in TheTodo /\ Advance(Node, p, "done")
      /\ NoPeers(p) /\ sidecar' = [sidecar EXCEPT ![p] = "starting"]
      /\ UNCHANGED <<files, app, runs, counts>>
  BY DEF RunSidecar, TheStep, TheTodo
<1>2. /\ \/ TheStep' = "done"
         \/ TheStep' = "starting" /\ TheTodo' = TheTodo \ {p}
      /\ step' \in [Script -> {"idle", "stopping", "restoring", "starting",
                               "done", "failed"}]
      /\ todo' \in [Script -> SUBSET Node]
  BY <1>1 DEF IndInv, LinkTypeOK, Advance, TheStep, TheTodo
<1>3. sidecar' \in [Node -> {"old", "none", "starting", "restored"}]
  BY <1>1 DEF IndInv, LinkTypeOK
<1>4. LinkTypeOK'
  BY <1>1, <1>2, <1>3, NoPeersTyped DEF IndInv, LinkTypeOK, files, counts
<1>5. PhaseInv'
  BY <1>1, <1>2 DEF IndInv, PhaseInv, LinkTypeOK
<1>6. \A q \in Node : Pending(q)' => Pending(q)
  BY <1>1, <1>2 DEF IndInv, LinkTypeOK, Pending
<1>7. LinkInv'
  BY <1>1, <1>6, EndingKeepsLinks DEF counts
<1> QED BY <1>4, <1>5, <1>7 DEF IndInv

-----------------------------------------------------------------------------
(* The fresh sidecar.                                                      *)

LEMMA SeedTyped ==
    ASSUME LinkTypeOK, NEW p \in Node, Seed(p)
    PROVE  sendSeq' \in [Channel -> Nat] /\ recvSeq' \in [Channel -> Nat]
<1>1. sendSeq' \in [Channel -> Nat]
  BY DEF LinkTypeOK, Seed
<1>2. recvSeq' \in [Channel -> Nat]
  BY DEF LinkTypeOK, Seed
<1> QED BY <1>1, <1>2

(* Loading changes neither the phase nor who else is pending.              *)
LEMMA LoadingPhase ==
    ASSUME IndInv, NEW p \in Node, sidecar[p] = "starting",
           sidecar' = [sidecar EXCEPT ![p] = "restored"],
           UNCHANGED <<files, app, scripts>>
    PROVE  /\ PhaseInv'
           /\ sidecar' \in [Node -> {"old", "none", "starting", "restored"}]
           /\ ~Pending(p)' /\ ~Fresh(p)' /\ Pending(p) /\ Fresh(p) /\ ~Loaded(p)
           /\ \A q \in Node \ {p} : /\ Pending(q)' <=> Pending(q)
                                    /\ Fresh(q)' <=> Fresh(q)
                                    /\ sidecar'[q] = sidecar[q]
<1>1. TheStep' = TheStep /\ TheTodo' = TheTodo
  BY DEF scripts, TheStep, TheTodo
<1>2. sidecar' \in [Node -> {"old", "none", "starting", "restored"}]
  BY DEF IndInv, LinkTypeOK
<1>3. /\ sidecar'[p] = "restored"
      /\ \A q \in Node \ {p} : sidecar'[q] = sidecar[q]
  BY DEF IndInv, LinkTypeOK
<1>4. ~(TheStep = "starting" /\ p \in TheTodo)
  BY DEF IndInv, PhaseInv
<1>5. PhaseInv'
  BY <1>1, <1>3, <1>4 DEF IndInv, PhaseInv
<1> QED BY <1>1, <1>2, <1>3, <1>4, <1>5 DEF Pending, Fresh, Loaded

(* A server that loads its artifact joins the others at the cut.           *)
LEMMA LoadArtifactKeeps ==
    ASSUME IndInv, NEW p \in Node, LoadArtifact(p)
    PROVE  IndInv'
<1>1. /\ sidecar[p] = "starting" /\ sidecar' = [sidecar EXCEPT ![p] = "restored"]
      /\ Seed(p) /\ unseeded' = unseeded \ {p}
      /\ UNCHANGED <<files, app, scripts, transfers, failures>>
  BY DEF LoadArtifact
<1>2. /\ PhaseInv'
      /\ sidecar' \in [Node -> {"old", "none", "starting", "restored"}]
      /\ ~Pending(p)' /\ ~Fresh(p)' /\ Pending(p) /\ Fresh(p) /\ ~Loaded(p)
      /\ \A q \in Node \ {p} : /\ Pending(q)' <=> Pending(q)
                               /\ Fresh(q)' <=> Fresh(q)
                               /\ sidecar'[q] = sidecar[q]
  BY <1>1, LoadingPhase
<1>3. LinkTypeOK'
  BY <1>1, <1>2, SeedTyped DEF IndInv, LinkTypeOK, files, scripts, Seed
<1>4. ASSUME NEW g \in Channel
      PROVE  SenderInv(g)' /\ ReceiverInv(g)' /\ JoinedInv(g)'
  <2> g[1] \in Node /\ g[2] \in Node /\ g[1] # g[2] BY DEF Channel
  <2>1. SenderInv(g) /\ ReceiverInv(g) /\ JoinedInv(g)
    BY DEF IndInv, LinkInv
  <2>2. /\ sendCut' = sendCut /\ recvCut' = recvCut
        /\ unacked' = unacked /\ recvBuffer' = recvBuffer
        /\ sendCut[g] \in Nat /\ sendSeq[g] \in Nat /\ recvSeq[g] \in Nat
    BY <1>1 DEF Seed, files, IndInv, LinkTypeOK
  <2>3. \A q \in Node \ {p} : Loaded(q)' <=> Loaded(q)
    BY <1>1, <1>2 DEF Loaded
  <2>4. Joined(g)' => recvCut[g] = sendCut[g] /\ Loaded(g[1])' /\ Loaded(g[2])'
    BY <2>2 DEF Joined, Loaded
  <2>5. CASE g[1] = p
    <3>1. /\ sendSeq'[g] = sendCut[g] /\ recvSeq'[g] = recvSeq[g]
          /\ unacked[g] = {}
      BY <1>1, <1>2, <2>1, <2>5 DEF Seed, IndInv, LinkTypeOK, SenderInv
    <3>2. SenderInv(g)'
      <4>1. /\ sendSeq'[g] = sendCut'[g] /\ unacked'[g] = {} /\ sendCut'[g] \in Nat
        BY <2>2, <3>1
      <4>2. sendCut'[g] .. sendSeq'[g] - 1 = {}
        BY <4>1
      <4> QED BY <4>1, <4>2 DEF SenderInv
    <3>a. ReceiverInv(g)'
      <4>1. ~Pending(g[1])' /\ (Fresh(g[2])' <=> Fresh(g[2]))
        BY <1>2, <2>5 DEF Pending, Fresh
      <4> QED BY <4>1, <2>1, <2>2 DEF ReceiverInv
    <3>3. ASSUME Joined(g)' PROVE recvSeq[g] = sendCut[g] /\ recvBuffer[g] = {}
      BY <3>3, <1>2, <2>1, <2>2, <2>3, <2>4, <2>5 DEF ReceiverInv
    <3>4. JoinedInv(g)'
      BY <2>2, <3>1, <3>3 DEF JoinedInv
    <3> QED BY <3>2, <3>a, <3>4
  <2>6. CASE g[2] = p
    <3>1. /\ sendSeq'[g] = sendSeq[g] /\ recvBuffer[g] = {}
          /\ recvCut[g] = sendCut[g] => recvSeq'[g] = recvCut[g]
      <4>1. sendSeq'[g] = sendSeq[g] /\ recvBuffer[g] = {}
        BY <1>1, <1>2, <2>1, <2>6 DEF Seed, IndInv, LinkTypeOK, ReceiverInv
      <4>2. ASSUME recvCut[g] # Missing PROVE recvSeq'[g] = recvCut[g]
        BY <1>1, <2>6, <4>2 DEF Seed, IndInv, LinkTypeOK
      <4>3. sendCut[g] # Missing
        BY <2>2 DEF Missing
      <4> QED BY <4>1, <4>2, <4>3
    <3>2. SenderInv(g)'
      <4>1. /\ ~Pending(g[2])' /\ (Fresh(g[1])' <=> Fresh(g[1]))
            /\ Loaded(g[1])' <=> Loaded(g[1])
        BY <1>2, <2>3, <2>6 DEF Pending, Fresh, Loaded
      <4> QED BY <4>1, <2>1, <2>2, <3>1 DEF SenderInv
    <3>a. ReceiverInv(g)'
      BY <1>2, <2>2, <2>6, <3>1 DEF ReceiverInv
    <3>3. ASSUME Joined(g)'
          PROVE  /\ unacked[g] = sendCut[g] .. sendSeq[g] - 1
                 /\ sendCut[g] <= sendSeq[g] /\ recvSeq'[g] = sendCut[g]
      BY <3>1, <3>3, <1>2, <2>1, <2>2, <2>3, <2>4, <2>6 DEF SenderInv
    <3>4. JoinedInv(g)'
      BY <2>2, <3>1, <3>3 DEF JoinedInv
    <3> QED BY <3>2, <3>a, <3>4
  <2>7. CASE g[1] # p /\ g[2] # p
    <3>1. sendSeq'[g] = sendSeq[g] /\ recvSeq'[g] = recvSeq[g]
      BY <1>1, <2>7 DEF Seed, IndInv, LinkTypeOK
    <3>2. Joined(g)' <=> Joined(g)
      BY <1>1, <1>2, <2>2, <2>7 DEF Joined
    <3>3. /\ (Pending(g[1])' <=> Pending(g[1])) /\ (Pending(g[2])' <=> Pending(g[2]))
          /\ (Fresh(g[1])' <=> Fresh(g[1])) /\ (Fresh(g[2])' <=> Fresh(g[2]))
          /\ (Loaded(g[1])' <=> Loaded(g[1])) /\ (Loaded(g[2])' <=> Loaded(g[2]))
      BY <1>2, <2>3, <2>7 DEF Pending, Fresh, Loaded
    <3>4. SenderInv(g)'
      BY <2>1, <2>2, <3>1, <3>3 DEF SenderInv
    <3>5. ReceiverInv(g)'
      BY <2>1, <2>2, <3>1, <3>3 DEF ReceiverInv
    <3>6. JoinedInv(g)'
      BY <2>1, <2>2, <3>1, <3>2 DEF JoinedInv
    <3> QED BY <3>4, <3>5, <3>6
  <2> QED BY <2>5, <2>6, <2>7
<1> QED BY <1>2, <1>3, <1>4 DEF IndInv, LinkInv

(* A server that could not is left out of what the theorems claim.         *)
LEMMA LoadFailsKeeps ==
    ASSUME IndInv, NEW p \in Node, LoadFails(p)
    PROVE  IndInv'
<1>1. /\ sidecar[p] = "starting" /\ sidecar' = [sidecar EXCEPT ![p] = "restored"]
      /\ unseeded' = unseeded \cup {p} /\ failures' = failures + 1
      /\ UNCHANGED <<files, app, scripts, transfers>>
      /\ UNCHANGED peers \/ Seed(p)
  BY DEF LoadFails, Fail
<1>2. /\ PhaseInv'
      /\ sidecar' \in [Node -> {"old", "none", "starting", "restored"}]
      /\ ~Pending(p)' /\ ~Fresh(p)' /\ Pending(p) /\ Fresh(p) /\ ~Loaded(p)
      /\ \A q \in Node \ {p} : /\ Pending(q)' <=> Pending(q)
                               /\ Fresh(q)' <=> Fresh(q)
                               /\ sidecar'[q] = sidecar[q]
  BY <1>1, LoadingPhase
<1>3. LinkTypeOK'
  <2>1. CASE UNCHANGED peers
    BY <1>1, <1>2, <2>1 DEF IndInv, LinkTypeOK, files, scripts, peers
  <2>2. CASE Seed(p)
    BY <1>1, <1>2, <2>2, SeedTyped DEF IndInv, LinkTypeOK, files, scripts, Seed
  <2> QED BY <1>1, <2>1, <2>2
<1>4. ASSUME NEW g \in Channel
      PROVE  SenderInv(g)' /\ ReceiverInv(g)' /\ JoinedInv(g)'
  <2> g[1] \in Node /\ g[2] \in Node /\ g[1] # g[2] BY DEF Channel
  <2>1. SenderInv(g) /\ ReceiverInv(g) /\ JoinedInv(g)
    BY DEF IndInv, LinkInv
  <2>2. /\ sendCut' = sendCut /\ recvCut' = recvCut
        /\ unacked' = unacked /\ recvBuffer' = recvBuffer
    BY <1>1 DEF Seed, files, peers
  <2>3. /\ ~Loaded(p)'
        /\ \A q \in Node \ {p} : Loaded(q)' <=> Loaded(q)
    BY <1>1, <1>2 DEF Loaded
  <2>4. /\ g[1] # p => sendSeq'[g] = sendSeq[g]
        /\ g[2] # p => recvSeq'[g] = recvSeq[g]
    BY <1>1 DEF Seed, peers, IndInv, LinkTypeOK
  <2>5. Joined(g)' => g[1] # p /\ g[2] # p /\ Joined(g)
    BY <1>1, <1>2, <2>2 DEF Joined
  <2>6. SenderInv(g)'
    <3>1. CASE g[1] = p
      BY <1>2, <2>1, <2>2, <2>3, <3>1 DEF SenderInv
    <3>2. CASE g[1] # p
      <4>1. /\ Loaded(g[1])' <=> Loaded(g[1])
            /\ Fresh(g[1])' <=> Fresh(g[1])
            /\ Pending(g[2])' => Pending(g[2])
            /\ sendSeq'[g] = sendSeq[g]
        BY <1>2, <2>3, <2>4, <3>2 DEF Pending, Fresh, Loaded
      <4> QED BY <4>1, <2>1, <2>2 DEF SenderInv
    <3> QED BY <3>1, <3>2
  <2>7. ReceiverInv(g)'
    <3>1. CASE g[2] = p
      BY <1>2, <2>1, <2>2, <2>3, <3>1 DEF ReceiverInv
    <3>2. CASE g[2] # p
      <4>1. /\ Loaded(g[2])' <=> Loaded(g[2])
            /\ Fresh(g[2])' <=> Fresh(g[2])
            /\ Pending(g[1])' => Pending(g[1])
            /\ recvSeq'[g] = recvSeq[g]
        BY <1>2, <2>3, <2>4, <3>2 DEF Pending, Fresh, Loaded
      <4> QED BY <4>1, <2>1, <2>2 DEF ReceiverInv
    <3> QED BY <3>1, <3>2
  <2>8. JoinedInv(g)'
    BY <2>1, <2>2, <2>4, <2>5 DEF JoinedInv
  <2> QED BY <2>6, <2>7, <2>8
<1> QED BY <1>2, <1>3, <1>4 DEF IndInv, LinkInv

-----------------------------------------------------------------------------

LEMMA StepKeeps ==
    ASSUME Script = {Node}, IndInv, [Next]_vars
    PROVE  IndInv'
<1>1. ASSUME NEW f \in Channel, Transfer(f) PROVE IndInv'
  BY <1>1, TransferKeeps
<1>2. ASSUME NEW f \in Channel, NEW n \in unacked[f], Receive(f, n) PROVE IndInv'
  BY <1>2, ReceiveKeeps
<1>3. ASSUME RunRestore(Node) PROVE IndInv'
  BY <1>3, RunRestoreKeeps
<1>4. ASSUME NEW p \in Node, Stop(Node, p) \/ StopFails(Node, p) PROVE IndInv'
  BY <1>4, StopKeeps
<1>5. ASSUME NEW p \in Node, RestoreApp(Node, p) PROVE IndInv'
  BY <1>5, RestoreAppKeeps
<1>6. ASSUME NEW p \in Node, RestoreFails(Node, p) \/ RunSidecarFails(Node, p)
      PROVE  IndInv'
  BY <1>6, AbortKeeps
<1>7. ASSUME NEW p \in Node, RunSidecar(Node, p) PROVE IndInv'
  BY <1>7, RunSidecarKeeps
<1>8. ASSUME NEW p \in Node, LoadArtifact(p) PROVE IndInv'
  BY <1>8, LoadArtifactKeeps
<1>9. ASSUME NEW p \in Node, LoadFails(p) PROVE IndInv'
  BY <1>9, LoadFailsKeeps
<1>10. ASSUME UNCHANGED vars PROVE IndInv'
  <2>1. UNCHANGED <<files, containers, peers, scripts, counts>>
    BY <1>10 DEF vars
  <2>2. LinkTypeOK' /\ PhaseInv'
    BY <2>1 DEF IndInv, LinkTypeOK, PhaseInv, TheStep, TheTodo,
                files, containers, peers, scripts, counts
  <2>3. \A q \in Node : Pending(q)' => Pending(q)
    BY <2>1 DEF Pending, TheStep, TheTodo, containers, scripts
  <2> QED BY <2>1, <2>2, <2>3, IdleKeepsLinks DEF IndInv, containers, counts
<1> QED BY <1>1, <1>2, <1>3, <1>4, <1>5, <1>6, <1>7, <1>8, <1>9, <1>10
        DEF Next, ScriptStep

(* IndInv is an invariant of every restore by one script: the loops of     *)
(* run_restore.sh let no old and no half-loaded sidecar talk to a loaded   *)
(* one.                                                                    *)
THEOREM RestoreInvariance == Script = {Node} => (Spec => []IndInv)
<1> SUFFICES ASSUME Script = {Node} PROVE Spec => []IndInv
  OBVIOUS
<1>1. Init => IndInv
  BY InitHolds
<1>2. IndInv /\ [Next]_vars => IndInv'
  BY StepKeeps
<1> QED BY <1>1, <1>2, PTL DEF Spec

(* Every PeerState number is a natural number: a coordinate an aborted     *)
(* artifact lacks never becomes a sequence number (restore_from_artifact,  *)
(* "Skip nulls").                                                          *)
THEOREM LinksTyped == Script = {Node} => (Spec => []LinkTypeOK)
<1> SUFFICES ASSUME Script = {Node} PROVE Spec => []LinkTypeOK
  OBVIOUS
<1>1. Spec => []IndInv
  BY RestoreInvariance
<1>2. IndInv => LinkTypeOK
  BY DEF IndInv
<1> QED BY <1>1, <1>2, PTL

(* Between two sidecars restored by one script no number of the cut is     *)
(* skipped and none is used twice ("sender send_seq and receiver recv_seq  *)
(* match by construction", restore_from_artifact).                         *)
THEOREM RestoredChannelsWhole == Script = {Node} => (Spec => []ChannelsWhole)
<1> SUFFICES ASSUME Script = {Node} PROVE Spec => []ChannelsWhole
  OBVIOUS
<1>1. Spec => []IndInv
  BY RestoreInvariance
<1>2. IndInv => ChannelsWhole
  <2> SUFFICES ASSUME IndInv, NEW f \in Channel, Joined(f)
               PROVE  /\ sendCut[f] <= recvSeq[f] /\ recvSeq[f] <= sendSeq[f]
                      /\ recvSeq[f] .. sendSeq[f] - 1 = InFlight(f)
    BY DEF ChannelsWhole
  <2>1. JoinedInv(f) /\ SenderInv(f) /\ Loaded(f[1])
    BY DEF IndInv, LinkInv, Joined, Loaded
  <2>2. /\ sendSeq[f] \in Nat /\ recvSeq[f] \in Nat /\ sendCut[f] \in Nat
        /\ unacked[f] \in SUBSET Nat /\ recvBuffer[f] \in SUBSET Nat
    BY DEF IndInv, LinkTypeOK
  <2> QED BY <2>1, <2>2 DEF JoinedInv, SenderInv, InFlight
<1> QED BY <1>1, <1>2, PTL

-----------------------------------------------------------------------------
(* Credit.                                                                 *)

Up(p) == sidecar[p] = "restored"

(* Where the ends of f began to count, if S are the servers that seeded    *)
(* their PeerStates.                                                       *)
SendBase(f, S) == IF f[1] \in S THEN sendCut[f] ELSE 0
RecvBase(f, S) == IF f[2] \in S /\ recvCut[f] # Missing THEN recvCut[f] ELSE 0

(* What the channels brought to their receivers and took from their        *)
(* senders, replay included.                                               *)
Brought(S) == [f \in Channel |-> recorded[f] + (recvSeq[f] - RecvBase(f, S))]
Took(S)    == [f \in Channel |-> SendBase(f, S) - sendSeq[f]]

(* in on the channels into p, out on those out of p.                       *)
AtEnds(p, in, out) ==
    [f \in Channel |-> IF f[2] = p THEN in[f] ELSE IF f[1] = p THEN out[f] ELSE 0]

Ledger(p, S) == image[p] + SumFunction(AtEnds(p, Brought(S), Took(S)))

(* p's application has come back and its sidecar has not been heard yet.   *)
Returned(p) == Pending(p) \/ (TheStep = "restoring" /\ p \notin TheTodo)

(* A replay that failed is at most the whole of it.                        *)
CounterInv(S) ==
    \A p \in Node :
        /\ Returned(p) => counter[p] = image[p]
        /\ Up(p) => counter[p] <= Ledger(p, S)
        /\ Loaded(p) => p \in S /\ counter[p] = Ledger(p, S)

(* The two ends of f, each for itself.                                     *)
EndInv(f, S) ==
    /\ Fresh(f[1]) => unacked[f] = {} /\ sendSeq[f] = 0
    /\ Fresh(f[2]) => recvBuffer[f] = {} /\ recvSeq[f] = 0
    /\ Up(f[1]) => /\ SendBase(f, S) <= sendSeq[f]
                   /\ unacked[f] \subseteq SendBase(f, S) .. sendSeq[f] - 1
    /\ Up(f[1]) /\ Pending(f[2]) => unacked[f] = SendBase(f, S) .. sendSeq[f] - 1
    /\ Up(f[2]) /\ Pending(f[1]) => recvSeq[f] = RecvBase(f, S) /\ recvBuffer[f] = {}

(* Both ends of f are up: whatever they were seeded with, a number from    *)
(* recv_seq on is at the sender or in the buffer, and recv_seq has only    *)
(* moved if it began at a number that is used.                             *)
PairInv(f, S) ==
    Up(f[1]) /\ Up(f[2]) =>
        /\ recvBuffer[f] \subseteq SendBase(f, S) .. sendSeq[f] - 1
        /\ \A n \in recvBuffer[f] : n > recvSeq[f]
        /\ \A n \in SendBase(f, S) .. sendSeq[f] - 1 :
               n >= recvSeq[f] => n \in unacked[f] \cup recvBuffer[f]
        /\ \/ recvSeq[f] = RecvBase(f, S)
           \/ /\ SendBase(f, S) <= RecvBase(f, S) /\ RecvBase(f, S) < recvSeq[f]
              /\ recvSeq[f] <= sendSeq[f]

LinkLedger(S) == \A f \in Channel : EndInv(f, S) /\ PairInv(f, S)

CreditInv ==
    /\ CreditTypeOK
    /\ \E S \in SUBSET Node : CounterInv(S) /\ LinkLedger(S)

-----------------------------------------------------------------------------
(* Sums over the servers and over the channels.                            *)

LEMMA ChannelsFinite == IsFiniteSet(Node) /\ IsFiniteSet(Channel)
<1>1. IsFiniteSet(Node \X Node)
  BY NodeAssumption, FS_Product
<1>2. Channel \subseteq Node \X Node
  BY DEF Channel
<1> QED BY <1>1, <1>2, NodeAssumption, FS_Subset

LEMMA AtEndsType ==
    ASSUME NEW in \in [Channel -> Int], NEW out \in [Channel -> Int], NEW p \in Node
    PROVE  /\ AtEnds(p, in, out) \in [Channel -> Int]
           /\ SumFunction(AtEnds(p, in, out)) \in Int
<1>1. AtEnds(p, in, out) \in [Channel -> Int]
  BY DEF AtEnds
<1> QED BY <1>1, ChannelsFinite, SumType

(* Every channel has one receiver and one sender.                          *)
LEMMA SumOfEnds ==
    ASSUME NEW in \in [Channel -> Int], NEW out \in [Channel -> Int]
    PROVE  SumFunction([p \in Node |-> SumFunction(AtEnds(p, in, out))])
           = SumFunction([f \in Channel |-> in[f] + out[f]])
<1> PICK C : C = Channel OBVIOUS
<1> DEFINE e == [k \in Node \X C |-> AtEnds(k[1], in, out)[k[2]]]
           both == [f \in C |-> in[f] + out[f]]
           col(f) == [p \in Node |-> e[<<p, f>>]]
<1>1. e \in [Node \X C -> Int]
  BY DEF AtEnds
<1>2. \A p \in Node : [f \in C |-> e[<<p, f>>]] = AtEnds(p, in, out)
  BY DEF AtEnds
<1>3. ASSUME NEW f \in C
      PROVE  SumFunction(col(f)) = in[f] + out[f]
  <2>1. f[1] \in Node /\ f[2] \in Node /\ f[1] # f[2] /\ in[f] \in Int /\ out[f] \in Int
    BY DEF Channel
  <2>2. /\ col(f) \in [Node -> Int]
        /\ \A p \in Node \ {f[1], f[2]} : col(f)[p] = 0
        /\ col(f)[f[1]] = out[f] /\ col(f)[f[2]] = in[f]
    BY <2>1 DEF AtEnds
  <2> HIDE DEF col
  <2>3. SumFunction(col(f)) = col(f)[f[1]] + col(f)[f[2]]
    BY <2>1, <2>2, ChannelsFinite, SumOfTwo
  <2> QED BY <2>1, <2>2, <2>3
<1>4. IsFiniteSet(Node) /\ IsFiniteSet(C)
  BY ChannelsFinite
<1>5. SumFunction([p \in Node |-> SumFunction([f \in C |-> e[<<p, f>>]])])
      = SumFunction([f \in C |-> SumFunction([p \in Node |-> e[<<p, f>>]])])
  <2> HIDE DEF e
  <2> QED BY ONLY <1>1, <1>4, SumSwap
<1>6. [p \in Node |-> SumFunction([f \in C |-> e[<<p, f>>]])]
      = [p \in Node |-> SumFunction(AtEnds(p, in, out))]
  <2> HIDE DEF e
  <2> QED BY <1>2
<1>7. [f \in C |-> SumFunction([p \in Node |-> e[<<p, f>>]])] = both
  <2> HIDE DEF e
  <2> QED BY <1>3
<1> QED BY <1>5, <1>6, <1>7

(* What the ledgers are made of.                                           *)
LEMMA LedgerTyped ==
    ASSUME LinkTypeOK, CreditTypeOK, NEW S
    PROVE  /\ Brought(S) \in [Channel -> Int] /\ Took(S) \in [Channel -> Int]
           /\ \A p \in Node : Ledger(p, S) \in Int
           /\ \A f \in Channel : SendBase(f, S) \in Nat /\ RecvBase(f, S) \in Nat
<1>1. \A f \in Channel : SendBase(f, S) \in Nat /\ RecvBase(f, S) \in Nat
  BY DEF SendBase, RecvBase, LinkTypeOK
<1>2. Brought(S) \in [Channel -> Int] /\ Took(S) \in [Channel -> Int]
  BY <1>1 DEF Brought, Took, LinkTypeOK
<1>3. ASSUME NEW p \in Node PROVE Ledger(p, S) \in Int
  <2>1. SumFunction(AtEnds(p, Brought(S), Took(S))) \in Int
    BY <1>2, AtEndsType
  <2>2. image[p] \in Int
    BY DEF CreditTypeOK
  <2> QED BY <2>1, <2>2 DEF Ledger
<1> QED BY <1>1, <1>2, <1>3

(* The replay brings p what its channels recorded.                         *)
LEMMA RecordedIn ==
    ASSUME LinkTypeOK, NEW p \in Node, NEW zero, zero = [f \in Channel |-> 0]
    PROVE  /\ SumFunctionOnSet(recorded, In(p)) = SumFunction(AtEnds(p, recorded, zero))
           /\ SumFunctionOnSet(recorded, In(p)) \in Nat
<1> DEFINE k == AtEnds(p, recorded, zero)
<1>1. /\ k \in [Channel -> Nat] /\ recorded \in [Channel -> Int]
      /\ \A f \in In(p) : k[f] = recorded[f]
      /\ \A f \in Channel \ In(p) : k[f] = 0
      /\ In(p) \in SUBSET Channel
  BY DEF AtEnds, In, LinkTypeOK
<1> HIDE DEF k
<1>2. k \in [Channel -> Int]
  BY <1>1
<1>3. SumFunctionOnSet(recorded, In(p)) = SumFunction(k)
  BY <1>1, <1>2, ChannelsFinite, SumOnPart
<1>4. SumFunction(k) \in Nat
  BY <1>1, ChannelsFinite, SumNat
<1> QED BY <1>3, <1>4 DEF k

(* A ledger is its server's own: it depends on p's half of the PeerStates  *)
(* and on nothing else.                                                    *)
LEMMA LedgerFrame ==
    ASSUME NEW p \in Node, NEW S, NEW T, p \in S <=> p \in T,
           UNCHANGED files,
           \A f \in Channel : /\ f[1] = p => sendSeq'[f] = sendSeq[f]
                              /\ f[2] = p => recvSeq'[f] = recvSeq[f]
    PROVE  Ledger(p, T)' = Ledger(p, S)
<1>1. \A f \in Channel : /\ f[1] = p => Took(T)'[f] = Took(S)[f]
                         /\ f[2] = p => Brought(T)'[f] = Brought(S)[f]
  BY DEF Took, Brought, SendBase, RecvBase, files
<1>2. AtEnds(p, Brought(T)', Took(T)') = AtEnds(p, Brought(S), Took(S))
  BY <1>1 DEF AtEnds
<1> QED BY <1>2 DEF Ledger, files

(* One number of a ledger moves.                                           *)
LEMMA ChannelMoves ==
    ASSUME NEW u \in [Channel -> Int], NEW v \in [Channel -> Int],
           NEW f \in Channel, NEW d \in Int,
           \A g \in Channel \ {f} : v[g] = u[g], v[f] = u[f] + d
    PROVE  SumFunction(v) = SumFunction(u) + d
<1>1. SumFunction(v) = SumFunction(u) - u[f] + v[f]
  BY ChannelsFinite, SumUpdate
<1>2. SumFunction(u) \in Int /\ u[f] \in Int
  BY ChannelsFinite, SumType
<1> QED BY <1>1, <1>2

-----------------------------------------------------------------------------
(* The files.                                                              *)

LEMMA CounterOfIsLedger ==
    ASSUME NEW before \in [Channel -> Nat], NEW late \in [Channel -> Nat],
           NEW p \in Node, NEW got \in [Channel -> Int], NEW gone \in [Channel -> Int],
           \A f \in Channel : got[f] = before[f] - late[f] /\ gone[f] = 0 - before[f]
    PROVE  CounterOf(p, before, late) = InitCounter + SumFunction(AtEnds(p, got, gone))
<1> DEFINE a == [f \in Channel |-> IF f \in In(p) THEN before[f] ELSE 0]
           b == [f \in Channel |-> IF f \in In(p) THEN late[f] ELSE 0]
           c == [f \in Channel |-> IF f \in Out(p) THEN before[f] ELSE 0]
           k == AtEnds(p, got, gone)
           l == [f \in Channel |-> k[f] + b[f]]
<1>1. /\ a \in [Channel -> Int] /\ b \in [Channel -> Int] /\ c \in [Channel -> Int]
      /\ before \in [Channel -> Int] /\ late \in [Channel -> Int]
      /\ In(p) \in SUBSET Channel /\ Out(p) \in SUBSET Channel
  BY DEF In, Out
<1>2. k \in [Channel -> Int]
  BY AtEndsType
<1>3. l \in [Channel -> Int] /\ \A f \in Channel : l[f] = k[f] + b[f]
  BY <1>1, <1>2
<1>4. \A f \in Channel : a[f] = l[f] + c[f]
  <2> SUFFICES ASSUME NEW f \in Channel PROVE a[f] = l[f] + c[f]
    OBVIOUS
  <2>1. f[1] # f[2] /\ before[f] \in Int /\ late[f] \in Int
    BY DEF Channel
  <2>2. CASE f[2] = p
    BY <2>1, <2>2 DEF In, Out, AtEnds
  <2>3. CASE f[1] = p
    BY <2>1, <2>3 DEF In, Out, AtEnds
  <2>4. CASE f[1] # p /\ f[2] # p
    BY <2>1, <2>4 DEF In, Out, AtEnds
  <2> QED BY <2>2, <2>3, <2>4
<1>5. /\ \A f \in In(p) : a[f] = before[f] /\ b[f] = late[f]
      /\ \A f \in Channel \ In(p) : a[f] = 0 /\ b[f] = 0
      /\ \A f \in Out(p) : c[f] = before[f]
      /\ \A f \in Channel \ Out(p) : c[f] = 0
  BY <1>1
<1> HIDE DEF a, b, c, k, l
<1>6. SumFunctionOnSet(before, In(p)) = SumFunction(a)
  BY <1>1, <1>5, ChannelsFinite, SumOnPart
<1>7. SumFunctionOnSet(late, In(p)) = SumFunction(b)
  <2>1. /\ late \in [Channel -> Int] /\ b \in [Channel -> Int]
        /\ In(p) \in SUBSET Channel /\ IsFiniteSet(Channel)
        /\ \A f \in In(p) : b[f] = late[f]
        /\ \A f \in Channel \ In(p) : b[f] = 0
    BY <1>1, <1>5, ChannelsFinite
  <2> QED BY ONLY <2>1, SumOnPart
<1>8. SumFunctionOnSet(before, Out(p)) = SumFunction(c)
  BY <1>1, <1>5, ChannelsFinite, SumOnPart
<1>9. SumFunction(l) = SumFunction(k) + SumFunction(b)
  BY <1>1, <1>2, <1>3, ChannelsFinite, SumAdd
<1>10. SumFunction(a) = SumFunction(l) + SumFunction(c)
  BY <1>1, <1>3, <1>4, ChannelsFinite, SumAdd
<1>11. /\ SumFunction(k) \in Int /\ SumFunction(b) \in Int /\ SumFunction(c) \in Int
       /\ InitCounter \in Int
  BY <1>1, <1>2, ChannelsFinite, SumType, CounterAssumption
<1>12. InitCounter - SumFunction(c) + SumFunction(a) - SumFunction(b)
       = InitCounter + SumFunction(k)
  BY <1>9, <1>10, <1>11
<1> QED BY <1>6, <1>7, <1>8, <1>12 DEF CounterOf, k

LEMMA CounterOfTyped ==
    ASSUME NEW before \in [Channel -> Nat], NEW late \in [Channel -> Nat], NEW p \in Node
    PROVE  CounterOf(p, before, late) \in Int
<1>1. PICK got \in [Channel -> Int], gone \in [Channel -> Int] :
          \A f \in Channel : got[f] = before[f] - late[f] /\ gone[f] = 0 - before[f]
  <2> DEFINE g == [f \in Channel |-> before[f] - late[f]]
             h == [f \in Channel |-> 0 - before[f]]
  <2>1. /\ g \in [Channel -> Int] /\ h \in [Channel -> Int]
        /\ \A f \in Channel : g[f] = before[f] - late[f] /\ h[f] = 0 - before[f]
    OBVIOUS
  <2> HIDE DEF g, h
  <2> QED BY <2>1
<1>2. SumFunction(AtEnds(p, got, gone)) \in Int
  BY AtEndsType
<1>3. CounterOf(p, before, late) = InitCounter + SumFunction(AtEnds(p, got, gone))
  BY <1>1, CounterOfIsLedger
<1> QED BY <1>2, <1>3, CounterAssumption

(* Images and recorded channels of a snapshot nobody aborted are all the   *)
(* credit there is.                                                        *)
LEMMA CompleteIsConsistent ==
    ASSUME NEW before \in [Channel -> 0 .. MaxBefore], CompleteCut(before)
    PROVE  Consistent
<1>1. /\ recorded \in [Channel -> 0 .. MaxBefore]
      /\ image = [p \in Node |-> CounterOf(p, before, recorded)]
      /\ recvCut = sendCut
  BY DEF CompleteCut
<1> DEFINE got == [f \in Channel |-> before[f] - recorded[f]]
           gone == [f \in Channel |-> 0 - before[f]]
           lost == [f \in Channel |-> 0 - recorded[f]]
           zero == [f \in Channel |-> 0]
           base == [p \in Node |-> InitCounter]
           ends == [p \in Node |-> SumFunction(AtEnds(p, got, gone))]
<1>2. /\ before \in [Channel -> Nat] /\ recorded \in [Channel -> Nat]
      /\ recorded \in [Channel -> Int]
  BY <1>1, BoundAssumption
<1>3. /\ got \in [Channel -> Int] /\ gone \in [Channel -> Int]
      /\ lost \in [Channel -> Int] /\ zero \in [Channel -> Int]
      /\ \A f \in Channel : zero[f] = lost[f] + recorded[f] /\ zero[f] = 0
      /\ \A f \in Channel : got[f] = before[f] - recorded[f] /\ gone[f] = 0 - before[f]
  BY <1>2
<1>4. [f \in Channel |-> got[f] + gone[f]] = lost
  <2>1. \A f \in Channel : got[f] + gone[f] = lost[f]
    BY <1>2
  <2> HIDE DEF got, gone
  <2> QED BY <2>1
<1>5. ends \in [Node -> Int] /\ base \in [Node -> Int]
  <2> HIDE DEF got, gone
  <2> QED BY <1>3, AtEndsType, CounterAssumption
<1>6. \A p \in Node : image[p] = base[p] + ends[p]
  <2> HIDE DEF got, gone
  <2>1. \A p \in Node : image[p] = CounterOf(p, before, recorded)
    BY <1>1
  <2>2. \A p \in Node :
            CounterOf(p, before, recorded) = InitCounter + SumFunction(AtEnds(p, got, gone))
    <3> SUFFICES ASSUME NEW p \in Node
                 PROVE  CounterOf(p, before, recorded)
                        = InitCounter + SumFunction(AtEnds(p, got, gone))
      OBVIOUS
    <3>1. /\ before \in [Channel -> Nat] /\ recorded \in [Channel -> Nat]
          /\ got \in [Channel -> Int] /\ gone \in [Channel -> Int]
      BY <1>2, <1>3
    <3>2. \A f \in Channel :
              got[f] = before[f] - recorded[f] /\ gone[f] = 0 - before[f]
      BY <1>3
    <3> QED BY ONLY p \in Node, <3>1, <3>2, CounterOfIsLedger
  <2> QED BY <2>1, <2>2
<1>7. image \in [Node -> Int]
  <2>1. \A p \in Node : base[p] + ends[p] \in Int
    BY <1>5
  <2> HIDE DEF base, ends
  <2> QED BY <1>1, <1>6, <2>1
<1>8. SumFunction(ends) = SumFunction(lost)
  <2> HIDE DEF got, gone, lost
  <2> QED BY <1>3, <1>4, SumOfEnds
<1>9. SumFunction(base) = Cardinality(Node) * InitCounter
  BY ChannelsFinite, CounterAssumption, SumConstant
<1> HIDE DEF lost, zero, base, ends, got, gone
<1>10. SumFunction(image) = SumFunction(base) + SumFunction(ends)
  <2>1. /\ image \in [Node -> Int] /\ base \in [Node -> Int] /\ ends \in [Node -> Int]
        /\ IsFiniteSet(Node)
    BY <1>5, <1>7, ChannelsFinite
  <2> QED BY ONLY <1>6, <2>1, SumAdd
<1>11. SumFunction(zero) = SumFunction(lost) + SumFunction(recorded)
  BY <1>2, <1>3, ChannelsFinite, SumAdd
<1>12. SumFunction(zero) = 0
  BY <1>3, ChannelsFinite, SumZero
<1>13. /\ SumFunction(lost) \in Int /\ SumFunction(recorded) \in Int
       /\ SumFunction(base) \in Int
  BY <1>2, <1>3, <1>5, ChannelsFinite, SumType
<1>14. CutCredit = Total
  BY <1>8, <1>9, <1>10, <1>11, <1>12, <1>13 DEF CutCredit, Total
<1> QED BY <1>1, <1>14 DEF Consistent

(* A complete cut or one of an aborted snapshot: the counters are integers.*)
LEMMA InitCreditTyped ==
    ASSUME Init
    PROVE  CreditTypeOK
<1>1. PICK before \in [Channel -> 0 .. MaxBefore] :
          /\ CompleteCut(before) \/ AbortedCut(before)
          /\ counter = [p \in Node |-> CounterOf(p, before, [f \in Channel |-> 0])]
  BY DEF Init
<1>2. before \in [Channel -> Nat]
  BY BoundAssumption
<1>3. counter \in [Node -> Int]
  <2>1. PICK zero \in [Channel -> Nat] : zero = [f \in Channel |-> 0]
    OBVIOUS
  <2>2. \A p \in Node : CounterOf(p, before, zero) \in Int
    BY <1>2, CounterOfTyped
  <2> QED BY <1>1, <2>1, <2>2
<1>4. \E late \in [Channel -> Nat] : image = [p \in Node |-> CounterOf(p, before, late)]
  <2>1. CASE CompleteCut(before)
    <3>1. recorded \in [Channel -> Nat]
      BY <2>1, CutTyped
    <3> QED BY <2>1, <3>1 DEF CompleteCut
  <2>2. CASE AbortedCut(before)
    <3>1. PICK again \in SUBSET Node :
              image = [p \in Node |-> CounterOf(p, before,
                  [f \in Channel |-> IF f[2] \in again THEN 0 ELSE before[f]])]
      BY <2>2 DEF AbortedCut
    <3>2. [f \in Channel |-> IF f[2] \in again THEN 0 ELSE before[f]] \in [Channel -> Nat]
      BY <1>2
    <3> QED BY <3>1, <3>2
  <2> QED BY <1>1, <2>1, <2>2
<1>5. image \in [Node -> Int]
  <2>1. PICK late \in [Channel -> Nat] :
            image = [p \in Node |-> CounterOf(p, before, late)]
    BY <1>4
  <2>2. \A p \in Node : CounterOf(p, before, late) \in Int
    BY <1>2, CounterOfTyped
  <2> QED BY <2>1, <2>2
<1> QED BY <1>3, <1>5 DEF CreditTypeOK

LEMMA InitCredit ==
    ASSUME Script = {Node}, Init, LinkTypeOK
    PROVE  CreditInv
<1>1. \A p \in Node : ~Up(p) /\ ~Loaded(p) /\ ~Returned(p) /\ ~Fresh(p)
  BY DEF Init, Up, Loaded, Returned, Pending, Fresh, TheStep
<1>2. CounterInv({})
  BY <1>1 DEF CounterInv
<1>3. LinkLedger({})
  BY <1>1, ChannelEnds DEF LinkLedger, EndInv, PairInv
<1> QED BY <1>2, <1>3, InitCreditTyped DEF CreditInv

-----------------------------------------------------------------------------
(* The mesh.                                                               *)

(* Nothing that restores writes the files.                                 *)
LEMMA FilesKept ==
    ASSUME [Next]_vars
    PROVE  files' = files
<1>1. CASE UNCHANGED vars
  BY <1>1 DEF vars
<1>2. CASE Next
  BY <1>2 DEF Next, ScriptStep, Transfer, Receive, RunRestore, Stop, StopFails,
     RestoreApp, BringBack, RestoreFails, RunSidecar, RunSidecarFails, LoadArtifact,
     LoadFails
<1> QED BY <1>1, <1>2

LEMMA ServingIsNotReturned ==
    ASSUME IndInv, NEW p \in Node, Serving(p)
    PROVE  ~Returned(p) /\ ~Pending(p) /\ ~Fresh(p)
BY ServingIsUp DEF IndInv, PhaseInv, Serving, Returned

(* A credit leaves the counter of its sender and its ledger.               *)
LEMMA TransferCredit ==
    ASSUME IndInv, CreditTypeOK, NEW S, CounterInv(S), LinkLedger(S),
           NEW f \in Channel, Transfer(f)
    PROVE  CounterInv(S)' /\ LinkLedger(S)'
<1> f[1] \in Node /\ f[2] \in Node /\ f[1] # f[2] BY DEF Channel
<1> LinkTypeOK BY DEF IndInv
<1>1. ~Returned(f[1]) /\ ~Pending(f[1]) /\ ~Fresh(f[1])
  BY ServingIsNotReturned DEF Transfer
<1>2. /\ \A p \in Node : /\ Returned(p)' <=> Returned(p)
                         /\ Pending(p)' <=> Pending(p)
                         /\ Loaded(p)' <=> Loaded(p)
                         /\ Up(p)' <=> Up(p)
                         /\ Fresh(p)' <=> Fresh(p)
      /\ \A g \in Channel : /\ SendBase(g, S)' = SendBase(g, S)
                            /\ RecvBase(g, S)' = RecvBase(g, S)
      /\ files' = files /\ image' = image /\ recvSeq' = recvSeq
      /\ recvBuffer' = recvBuffer
  BY DEF Transfer, Returned, Pending, Loaded, Up, Fresh, SendBase, RecvBase, files,
         scripts, TheStep, TheTodo
<1>3. /\ counter'[f[1]] = counter[f[1]] - 1
      /\ \A p \in Node \ {f[1]} : counter'[p] = counter[p]
      /\ sendSeq'[f] = sendSeq[f] + 1
      /\ unacked'[f] = unacked[f] \cup {sendSeq[f]}
      /\ \A g \in Channel \ {f} : sendSeq'[g] = sendSeq[g] /\ unacked'[g] = unacked[g]
  BY DEF Transfer, LinkTypeOK, CreditTypeOK
<1>4. \A p \in Node \ {f[1]} : Ledger(p, S)' = Ledger(p, S)
  BY <1>2, <1>3, LedgerFrame
<1>5. Ledger(f[1], S)' = Ledger(f[1], S) - 1
  <2>1. PICK in, out, toIn, toOut : /\ in = Brought(S) /\ out = Took(S)
                                    /\ toIn = Brought(S)' /\ toOut = Took(S)'
    OBVIOUS
  <2>2. /\ in \in [Channel -> Int] /\ out \in [Channel -> Int]
    BY <2>1, LedgerTyped
  <2>3. toIn = in
    BY <2>1, <1>2 DEF Brought, files
  <2>4. /\ toOut \in [Channel -> Int]
        /\ toOut[f] = out[f] - 1
        /\ \A g \in Channel \ {f} : toOut[g] = out[g]
    <3>1. \A g \in Channel : SendBase(g, S) \in Nat /\ sendSeq[g] \in Nat
      BY LedgerTyped DEF LinkTypeOK
    <3>2. /\ out = [g \in Channel |-> SendBase(g, S) - sendSeq[g]]
          /\ toOut = [g \in Channel |-> SendBase(g, S) - sendSeq'[g]]
      BY <2>1, <1>2 DEF Took
    <3> QED BY <1>3, <3>1, <3>2
  <2>5. PICK u, v : u = AtEnds(f[1], in, out) /\ v = AtEnds(f[1], toIn, toOut)
    OBVIOUS
  <2>6. SumFunction(v) = SumFunction(u) + (-1)
    <3>1. u \in [Channel -> Int] /\ v \in [Channel -> Int] /\ (-1) \in Int
      <4>1. toIn \in [Channel -> Int]
        BY <2>2, <2>3
      <4>2. f[1] \in Node
        BY ChannelEnds
      <4>3. AtEnds(f[1], in, out) \in [Channel -> Int]
        BY <2>2, <4>2, AtEndsType
      <4>4. AtEnds(f[1], toIn, toOut) \in [Channel -> Int]
        BY <2>4, <4>1, <4>2, AtEndsType
      <4> QED BY <2>5, <4>3, <4>4
    <3>2. v[f] = u[f] + (-1) /\ \A g \in Channel \ {f} : v[g] = u[g]
      BY <2>2, <2>3, <2>4, <2>5 DEF AtEnds
    <3> QED BY ONLY f \in Channel, <3>1, <3>2, ChannelMoves
  <2>7. SumFunction(AtEnds(f[1], in, out)) \in Int /\ image[f[1]] \in Int
    BY <2>2, AtEndsType DEF CreditTypeOK
  <2> QED BY <2>1, <2>5, <2>6, <2>7, <1>2 DEF Ledger
<1>6. CounterInv(S)'
  <2> SUFFICES ASSUME NEW p \in Node
               PROVE  /\ Returned(p) => counter'[p] = image[p]
                      /\ Up(p) => counter'[p] <= Ledger(p, S)'
                      /\ Loaded(p) => p \in S /\ counter'[p] = Ledger(p, S)'
    BY <1>2 DEF CounterInv
  <2>1. /\ Returned(p) => counter[p] = image[p]
        /\ Up(p) => counter[p] <= Ledger(p, S)
        /\ Loaded(p) => p \in S /\ counter[p] = Ledger(p, S)
        /\ counter[p] \in Int /\ Ledger(p, S) \in Int
    BY LedgerTyped DEF CounterInv, CreditTypeOK
  <2>2. CASE p = f[1]
    BY <2>1, <2>2, <1>1, <1>3, <1>5
  <2>3. CASE p # f[1]
    BY <2>1, <2>3, <1>3, <1>4
  <2> QED BY <2>2, <2>3
<1>7. LinkLedger(S)'
  <2> SUFFICES ASSUME NEW g \in Channel
               PROVE  EndInv(g, S)' /\ PairInv(g, S)'
    BY DEF LinkLedger
  <2> g[1] \in Node /\ g[2] \in Node BY ChannelEnds
  <2>1. /\ EndInv(g, S) /\ PairInv(g, S)
        /\ SendBase(g, S) \in Nat /\ RecvBase(g, S) \in Nat
        /\ sendSeq[g] \in Nat /\ recvSeq[g] \in Nat
        /\ unacked[g] \in SUBSET Nat /\ recvBuffer[g] \in SUBSET Nat
    BY LedgerTyped DEF LinkLedger, LinkTypeOK
  <2>2. CASE g # f
    BY <2>1, <2>2, <1>2, <1>3 DEF EndInv, PairInv
  <2>3. CASE g = f
    <3>1. EndInv(f, S)'
      BY <2>1, <2>3, <1>1, <1>2, <1>3 DEF EndInv
    <3>2. PairInv(f, S)'
      <4> SUFFICES ASSUME Up(f[1]), Up(f[2])
                   PROVE  /\ recvBuffer[f] \subseteq SendBase(f, S) .. sendSeq'[f] - 1
                          /\ \A n \in recvBuffer[f] : n > recvSeq[f]
                          /\ \A n \in SendBase(f, S) .. sendSeq'[f] - 1 :
                                 n >= recvSeq[f] => n \in unacked'[f] \cup recvBuffer[f]
                          /\ \/ recvSeq[f] = RecvBase(f, S)
                             \/ /\ SendBase(f, S) <= RecvBase(f, S)
                                /\ RecvBase(f, S) < recvSeq[f]
                                /\ recvSeq[f] <= sendSeq'[f]
        BY <1>2 DEF PairInv
      <4>1. /\ recvBuffer[f] \subseteq SendBase(f, S) .. sendSeq[f] - 1
            /\ \A n \in recvBuffer[f] : n > recvSeq[f]
            /\ \A n \in SendBase(f, S) .. sendSeq[f] - 1 :
                   n >= recvSeq[f] => n \in unacked[f] \cup recvBuffer[f]
            /\ \/ recvSeq[f] = RecvBase(f, S)
               \/ /\ SendBase(f, S) <= RecvBase(f, S)
                  /\ RecvBase(f, S) < recvSeq[f]
                  /\ recvSeq[f] <= sendSeq[f]
        BY <2>1, <2>3 DEF PairInv
      <4> QED BY <4>1, <2>1, <2>3, <1>3
    <3> QED BY <2>3, <3>1, <3>2
  <2> QED BY <2>2, <2>3
<1> QED BY <1>6, <1>7

(* A handed-over run enters the counter of its receiver and its ledger.    *)
LEMMA ReceiveCredit ==
    ASSUME IndInv, CreditTypeOK, NEW S, CounterInv(S), LinkLedger(S),
           NEW f \in Channel, NEW n \in unacked[f], Receive(f, n)
    PROVE  CounterInv(S)' /\ LinkLedger(S)' /\ counter' \in [Node -> Int]
<1> f[1] \in Node /\ f[2] \in Node /\ f[1] # f[2] BY DEF Channel
<1> LinkTypeOK BY DEF IndInv
<1>1. /\ ~Returned(f[1]) /\ ~Pending(f[1]) /\ ~Fresh(f[1])
      /\ ~Returned(f[2]) /\ ~Pending(f[2]) /\ ~Fresh(f[2])
  BY ServingIsNotReturned DEF Receive
<1>2. /\ \A p \in Node : /\ Returned(p)' <=> Returned(p)
                         /\ Pending(p)' <=> Pending(p)
                         /\ Loaded(p)' <=> Loaded(p)
                         /\ Up(p)' <=> Up(p)
                         /\ Fresh(p)' <=> Fresh(p)
      /\ \A g \in Channel : /\ SendBase(g, S)' = SendBase(g, S)
                            /\ RecvBase(g, S)' = RecvBase(g, S)
      /\ files' = files /\ image' = image /\ sendSeq' = sendSeq
  BY DEF Receive, Returned, Pending, Loaded, Up, Fresh, SendBase, RecvBase, files,
         scripts, counts, TheStep, TheTodo
<1>3. unacked'[f] \in {unacked[f], unacked[f] \ {n}}
  BY DEF Receive, LinkTypeOK
<1>4. \A g \in Channel \ {f} : /\ unacked'[g] = unacked[g]
                               /\ recvSeq'[g] = recvSeq[g]
                               /\ recvBuffer'[g] = recvBuffer[g]
  BY DEF Receive, DeliverInOrder, BufferFuture, DropStale, LinkTypeOK
<1>5. /\ n \in Nat /\ recvSeq[f] \in Nat /\ sendSeq[f] \in Nat
      /\ unacked[f] \in SUBSET Nat /\ recvBuffer[f] \in SUBSET Nat
      /\ SendBase(f, S) \in Nat /\ RecvBase(f, S) \in Nat
  BY LedgerTyped DEF LinkTypeOK
(* The buffer and recv_seq, whichever of the three it was.                 *)
<1>6. PICK stop \in Nat :
          /\ recvSeq'[f] = stop
          /\ counter'[f[2]] = counter[f[2]] + (stop - recvSeq[f])
          /\ \A p \in Node \ {f[2]} : counter'[p] = counter[p]
          /\ counter' \in [Node -> Int]
          /\ \/ /\ n = recvSeq[f] /\ stop > n
                /\ recvBuffer'[f] = {k \in recvBuffer[f] : k > stop}
                /\ stop \notin recvBuffer[f]
                /\ stop = n + 1 \/ stop - 1 \in recvBuffer[f]
             \/ /\ n > recvSeq[f] /\ stop = recvSeq[f]
                /\ recvBuffer'[f] = recvBuffer[f] \cup {n}
             \/ /\ n < recvSeq[f] /\ stop = recvSeq[f]
                /\ recvBuffer'[f] = recvBuffer[f]
  <2>0. \A p \in Node : counter[p] \in Int
    BY DEF CreditTypeOK
  <2>1. CASE DeliverInOrder(f, n)
    <3>1. PICK stop \in n + 1 .. n + 1 + Cardinality(recvBuffer[f]) :
              /\ n + 1 .. stop - 1 \subseteq recvBuffer[f]
              /\ stop \notin recvBuffer[f]
              /\ counter' = [counter EXCEPT ![f[2]] = @ + (stop - n)]
              /\ recvSeq' = [recvSeq EXCEPT ![f] = stop]
              /\ recvBuffer' = [recvBuffer EXCEPT ![f] = {k \in @ : k > stop}]
      BY <2>1 DEF DeliverInOrder
    <3>2. /\ stop \in Nat /\ stop > n /\ n = recvSeq[f] /\ recvSeq'[f] = stop
          /\ recvBuffer'[f] = {k \in recvBuffer[f] : k > stop}
      BY <1>5, <2>1, <3>1 DEF DeliverInOrder, LinkTypeOK
    <3>3. /\ counter' \in [Node -> Int]
          /\ counter'[f[2]] = counter[f[2]] + (stop - recvSeq[f])
          /\ \A p \in Node \ {f[2]} : counter'[p] = counter[p]
      <4>1. counter[f[2]] + (stop - n) \in Int
        BY <1>5, <2>0, <3>2
      <4> QED BY <3>1, <3>2, <4>1 DEF CreditTypeOK
    <3>4. stop = n + 1 \/ stop - 1 \in recvBuffer[f]
      <4>1. CASE stop > n + 1
        <5>1. stop - 1 \in n + 1 .. stop - 1
          BY <4>1, <3>2, <1>5
        <5> QED BY <5>1, <3>1
      <4> QED BY <4>1, <3>2, <1>5
    <3> QED BY <3>1, <3>2, <3>3, <3>4
  <2>2. CASE BufferFuture(f, n)
    <3>1. /\ n > recvSeq[f] /\ counter' = counter /\ recvSeq' = recvSeq
          /\ recvBuffer'[f] = recvBuffer[f] \cup {n}
      BY <2>2 DEF BufferFuture, LinkTypeOK
    <3> QED BY <3>1, <1>5, <2>0 DEF CreditTypeOK
  <2>3. CASE DropStale(f, n)
    <3>1. /\ n < recvSeq[f] /\ counter' = counter /\ recvSeq' = recvSeq
          /\ recvBuffer' = recvBuffer
      BY <2>3 DEF DropStale
    <3> QED BY <3>1, <1>5, <2>0 DEF CreditTypeOK
  <2> QED BY <2>1, <2>2, <2>3 DEF Receive
<1>7. \A p \in Node \ {f[2]} : Ledger(p, S)' = Ledger(p, S)
  BY <1>2, <1>4, LedgerFrame
<1>8. Ledger(f[2], S)' = Ledger(f[2], S) + (stop - recvSeq[f])
  <2>1. PICK in, out, toIn, toOut, d : /\ in = Brought(S) /\ out = Took(S)
                                       /\ toIn = Brought(S)' /\ toOut = Took(S)'
                                       /\ d = stop - recvSeq[f]
    OBVIOUS
  <2>2. /\ in \in [Channel -> Int] /\ out \in [Channel -> Int] /\ d \in Int
    BY <2>1, <1>5, LedgerTyped
  <2>3. toOut = out
    BY <2>1, <1>2 DEF Took, files
  <2>4. /\ toIn \in [Channel -> Int]
        /\ toIn[f] = in[f] + d
        /\ \A g \in Channel \ {f} : toIn[g] = in[g]
    <3>1. \A g \in Channel : /\ RecvBase(g, S) \in Nat /\ recvSeq[g] \in Nat
                             /\ recorded[g] \in Nat
      BY LedgerTyped DEF LinkTypeOK
    <3>2. /\ in = [g \in Channel |-> recorded[g] + (recvSeq[g] - RecvBase(g, S))]
          /\ toIn = [g \in Channel |-> recorded[g] + (recvSeq'[g] - RecvBase(g, S))]
      BY <2>1, <1>2 DEF Brought, files
    <3> QED BY <1>4, <1>6, <2>1, <3>1, <3>2
  <2>5. PICK u, v : u = AtEnds(f[2], in, out) /\ v = AtEnds(f[2], toIn, toOut)
    OBVIOUS
  <2>6. SumFunction(v) = SumFunction(u) + d
    <3>1. u \in [Channel -> Int] /\ v \in [Channel -> Int] /\ d \in Int
      BY <2>2, <2>3, <2>4, <2>5, AtEndsType
    <3>2. v[f] = u[f] + d /\ \A g \in Channel \ {f} : v[g] = u[g]
      BY <2>2, <2>3, <2>4, <2>5 DEF AtEnds
    <3> QED BY ONLY f \in Channel, <3>1, <3>2, ChannelMoves
  <2>7. SumFunction(AtEnds(f[2], in, out)) \in Int /\ image[f[2]] \in Int
    BY <2>2, AtEndsType DEF CreditTypeOK
  <2>8. image'[f[2]] = image[f[2]]
    BY <1>2
  <2> QED BY <2>1, <2>2, <2>5, <2>6, <2>7, <2>8 DEF Ledger
<1>9. CounterInv(S)'
  <2> SUFFICES ASSUME NEW p \in Node
               PROVE  /\ Returned(p) => counter'[p] = image[p]
                      /\ Up(p) => counter'[p] <= Ledger(p, S)'
                      /\ Loaded(p) => p \in S /\ counter'[p] = Ledger(p, S)'
    BY <1>2 DEF CounterInv
  <2>1. /\ Returned(p) => counter[p] = image[p]
        /\ Up(p) => counter[p] <= Ledger(p, S)
        /\ Loaded(p) => p \in S /\ counter[p] = Ledger(p, S)
        /\ counter[p] \in Int /\ Ledger(p, S) \in Int
    BY LedgerTyped DEF CounterInv, CreditTypeOK
  <2>2. CASE p = f[2]
    <3>1. PICK d \in Int : d = stop - recvSeq[f]
      BY <1>5
    <3>2. counter'[p] = counter[p] + d /\ Ledger(p, S)' = Ledger(p, S) + d
      BY <1>6, <1>8, <2>2, <3>1
    <3> QED BY <2>1, <2>2, <3>2, <1>1
  <2>3. CASE p # f[2]
    BY <2>1, <2>3, <1>6, <1>7
  <2> QED BY <2>2, <2>3
<1>10. LinkLedger(S)'
  <2> SUFFICES ASSUME NEW g \in Channel
               PROVE  EndInv(g, S)' /\ PairInv(g, S)'
    BY DEF LinkLedger
  <2> g[1] \in Node /\ g[2] \in Node BY ChannelEnds
  <2>1. EndInv(g, S) /\ PairInv(g, S)
    BY DEF LinkLedger
  <2>2. CASE g # f
    BY <2>1, <2>2, <1>2, <1>4 DEF EndInv, PairInv
  <2>3. CASE g = f
    <3>1. EndInv(f, S)'
      BY <2>1, <2>3, <1>1, <1>2, <1>3, <1>5 DEF EndInv
    <3>2. PairInv(f, S)'
      <4> SUFFICES ASSUME Up(f[1]), Up(f[2])
                   PROVE  /\ recvBuffer'[f] \subseteq SendBase(f, S) .. sendSeq[f] - 1
                          /\ \A k \in recvBuffer'[f] : k > stop
                          /\ \A k \in SendBase(f, S) .. sendSeq[f] - 1 :
                                 k >= stop => k \in unacked'[f] \cup recvBuffer'[f]
                          /\ \/ stop = RecvBase(f, S)
                             \/ /\ SendBase(f, S) <= RecvBase(f, S)
                                /\ RecvBase(f, S) < stop
                                /\ stop <= sendSeq[f]
        BY <1>2, <1>6 DEF PairInv
      <4>1. /\ recvBuffer[f] \subseteq SendBase(f, S) .. sendSeq[f] - 1
            /\ \A k \in recvBuffer[f] : k > recvSeq[f]
            /\ \A k \in SendBase(f, S) .. sendSeq[f] - 1 :
                   k >= recvSeq[f] => k \in unacked[f] \cup recvBuffer[f]
            /\ \/ recvSeq[f] = RecvBase(f, S)
               \/ /\ SendBase(f, S) <= RecvBase(f, S)
                  /\ RecvBase(f, S) < recvSeq[f]
                  /\ recvSeq[f] <= sendSeq[f]
            /\ n \in SendBase(f, S) .. sendSeq[f] - 1
        BY <2>1, <2>3 DEF PairInv, EndInv
      <4>2. CASE n = recvSeq[f] /\ stop > n
        <5>1. /\ recvBuffer'[f] = {k \in recvBuffer[f] : k > stop}
              /\ stop \notin recvBuffer[f]
              /\ stop = n + 1 \/ stop - 1 \in recvBuffer[f]
          BY <1>5, <1>6, <4>2
        <5>2. stop <= sendSeq[f]
          BY <1>5, <4>1, <4>2, <5>1
        <5>3. SendBase(f, S) <= RecvBase(f, S) /\ RecvBase(f, S) < stop
          BY <1>5, <4>1, <4>2
        <5>4. ASSUME NEW k \in SendBase(f, S) .. sendSeq[f] - 1, k >= stop
              PROVE  k \in unacked'[f] \cup recvBuffer'[f]
          <6>1. k \in unacked[f] \cup recvBuffer[f] /\ k # n
            BY <1>5, <4>1, <4>2, <5>4
          <6>2. CASE k \in unacked[f]
            BY <6>1, <6>2, <1>3
          <6>3. CASE k \in recvBuffer[f]
            BY <6>3, <5>1, <5>4, <1>5
          <6> QED BY <6>1, <6>2, <6>3
        <5> QED BY <4>1, <5>1, <5>2, <5>3, <5>4
      <4>3. CASE stop = recvSeq[f] /\ n > recvSeq[f]
        <5>1. recvBuffer'[f] = recvBuffer[f] \cup {n}
          BY <1>5, <1>6, <4>3
        <5> QED BY <4>1, <4>3, <5>1, <1>3, <1>5
      <4>4. CASE stop = recvSeq[f] /\ n < recvSeq[f]
        <5>1. recvBuffer'[f] = recvBuffer[f]
          BY <1>5, <1>6, <4>4
        <5> QED BY <4>1, <4>4, <5>1, <1>3, <1>5
      <4> QED BY <1>6, <4>2, <4>3, <4>4
    <3> QED BY <2>3, <3>1, <3>2
  <2> QED BY <2>2, <2>3
<1> QED BY <1>6, <1>9, <1>10

-----------------------------------------------------------------------------
(* The script.                                                             *)

(* Who stays up keeps its counter and its numbers.                         *)
LEMMA CounterFrame ==
    ASSUME NEW S, CounterInv(S), UNCHANGED <<files, unseeded>>,
           \A q \in Node : Returned(q)' => counter'[q] = image[q],
           \A q \in Node : Up(q)' => Up(q) /\ counter'[q] = counter[q],
           \A q \in Node : Up(q)' =>
               \A f \in Channel : /\ f[1] = q => sendSeq'[f] = sendSeq[f]
                                  /\ f[2] = q => recvSeq'[f] = recvSeq[f]
    PROVE  CounterInv(S)'
<1> SUFFICES ASSUME NEW q \in Node
             PROVE  /\ Returned(q)' => counter'[q] = image'[q]
                    /\ Up(q)' => counter'[q] <= Ledger(q, S)'
                    /\ Loaded(q)' => q \in S /\ counter'[q] = Ledger(q, S)'
  BY DEF CounterInv
<1>1. image' = image /\ (Loaded(q)' => Loaded(q) /\ Up(q)')
  BY DEF files, Loaded, Up
<1>2. Up(q)' => Ledger(q, S)' = Ledger(q, S)
  BY LedgerFrame
<1>3. /\ Up(q) => counter[q] <= Ledger(q, S)
      /\ Loaded(q) => q \in S /\ counter[q] = Ledger(q, S)
  BY DEF CounterInv
<1> QED BY <1>1, <1>2, <1>3

(* A step that leaves sidecars and sequence numbers alone.                 *)
LEMMA QuietCredit ==
    ASSUME NEW S, CounterInv(S), LinkLedger(S),
           UNCHANGED <<files, sidecar, peers, unseeded>>,
           \A q \in Node : Returned(q)' => counter'[q] = image[q],
           \A q \in Node : Up(q) => counter'[q] = counter[q],
           \A q \in Node : Pending(q)' => Pending(q)
    PROVE  CounterInv(S)' /\ LinkLedger(S)'
<1>1. /\ sendSeq' = sendSeq /\ unacked' = unacked
      /\ recvSeq' = recvSeq /\ recvBuffer' = recvBuffer
      /\ \A q \in Node : (Up(q)' <=> Up(q)) /\ (Fresh(q)' <=> Fresh(q))
  BY DEF peers, Up, Fresh
<1>2. CounterInv(S)'
  BY <1>1, CounterFrame
<1>3. ASSUME NEW g \in Channel PROVE EndInv(g, S)' /\ PairInv(g, S)'
  <2>1. g[1] \in Node /\ g[2] \in Node /\ EndInv(g, S) /\ PairInv(g, S)
    BY ChannelEnds DEF LinkLedger
  <2>2. SendBase(g, S)' = SendBase(g, S) /\ RecvBase(g, S)' = RecvBase(g, S)
    BY DEF SendBase, RecvBase, files
  <2> QED BY <1>1, <2>1, <2>2 DEF EndInv, PairInv
<1> QED BY <1>2, <1>3 DEF LinkLedger

(* A step that ends a sidecar, or replaces it by one that has read nothing.*)
LEMMA EndingCredit ==
    ASSUME LinkTypeOK, NEW S, CounterInv(S), LinkLedger(S),
           NEW p \in Node, NoPeers(p), UNCHANGED <<files, unseeded>>,
           NEW to \in {"none", "starting"}, sidecar' = [sidecar EXCEPT ![p] = to],
           \A q \in Node : Returned(q)' => counter'[q] = image[q],
           \A q \in Node \ {p} : counter'[q] = counter[q],
           \A q \in Node : Pending(q)' => Pending(q)
    PROVE  CounterInv(S)' /\ LinkLedger(S)'
<1>1. sidecar'[p] = to /\ \A q \in Node \ {p} : sidecar'[q] = sidecar[q]
  BY DEF LinkTypeOK
<1>2. /\ ~Up(p)' /\ Fresh(p)'
      /\ \A q \in Node \ {p} : (Up(q)' <=> Up(q)) /\ (Fresh(q)' <=> Fresh(q))
  BY <1>1 DEF Up, Fresh
<1>3. \A f \in Channel :
          /\ f[1] = p => sendSeq'[f] = 0 /\ unacked'[f] = {}
          /\ f[1] # p => sendSeq'[f] = sendSeq[f] /\ unacked'[f] = unacked[f]
          /\ f[2] = p => recvSeq'[f] = 0 /\ recvBuffer'[f] = {}
          /\ f[2] # p => recvSeq'[f] = recvSeq[f] /\ recvBuffer'[f] = recvBuffer[f]
  BY DEF NoPeers
<1>4. CounterInv(S)'
  BY <1>2, <1>3, CounterFrame
<1>5. ASSUME NEW g \in Channel PROVE EndInv(g, S)' /\ PairInv(g, S)'
  <2>1. g[1] \in Node /\ g[2] \in Node /\ EndInv(g, S) /\ PairInv(g, S)
    BY ChannelEnds DEF LinkLedger
  <2>2. SendBase(g, S)' = SendBase(g, S) /\ RecvBase(g, S)' = RecvBase(g, S)
    BY DEF SendBase, RecvBase, files
  <2>3. g[1] # g[2]
    BY DEF Channel
  <2>4. CASE g[1] = p
    BY <1>2, <1>3, <2>1, <2>2, <2>3, <2>4 DEF EndInv, PairInv
  <2>5. CASE g[2] = p
    BY <1>2, <1>3, <2>1, <2>2, <2>3, <2>5 DEF EndInv, PairInv
  <2>6. CASE g[1] # p /\ g[2] # p
    BY <1>2, <1>3, <2>1, <2>2, <2>6 DEF EndInv, PairInv
  <2> QED BY <2>4, <2>5, <2>6
<1> QED BY <1>4, <1>5 DEF LinkLedger

LEMMA RunRestoreCredit ==
    ASSUME Script = {Node}, IndInv, NEW S, CounterInv(S), LinkLedger(S),
           RunRestore(Node)
    PROVE  CounterInv(S)' /\ LinkLedger(S)'
<1>1. TheStep' = "stopping"
  BY DEF RunRestore, IndInv, LinkTypeOK, TheStep
<1>2. \A q \in Node : /\ Pending(q)' => Pending(q)
                      /\ Returned(q)' => Returned(q)
  BY <1>1 DEF RunRestore, Pending, Returned, containers
<1> QED BY <1>2, QuietCredit DEF RunRestore, containers, counts, CounterInv

LEMMA StopCredit ==
    ASSUME Script = {Node}, IndInv, CreditTypeOK, NEW S, CounterInv(S), LinkLedger(S),
           NEW p \in Node, Stop(Node, p) \/ StopFails(Node, p)
    PROVE  CounterInv(S)' /\ LinkLedger(S)'
<1> LinkTypeOK BY DEF IndInv
<1>1. /\ TheStep = "stopping" /\ p \in TheTodo /\ Advance(Node, p, "restoring")
      /\ UNCHANGED <<files, runs, unseeded, transfers>>
  BY DEF Stop, StopFails, TheStep, TheTodo, counts
<1>2. \/ TheStep' = "restoring" /\ TheTodo' = Node
      \/ TheStep' = "stopping"
  BY <1>1 DEF LinkTypeOK, Advance, TheStep, TheTodo
<1>3. CASE UNCHANGED <<sidecar, peers, counter>>
  <2>1. \A q \in Node : /\ Pending(q)' => Pending(q)
                        /\ Returned(q)' => Returned(q)
    BY <1>2, <1>3 DEF Pending, Returned
  <2> QED BY <1>1, <1>3, <2>1, QuietCredit DEF CounterInv
<1>4. CASE /\ NoPeers(p) /\ sidecar' = [sidecar EXCEPT ![p] = "none"]
           /\ counter' \in {counter, [counter EXCEPT ![p] = 0]}
  <2>1. \A q \in Node \ {p} : counter'[q] = counter[q]
    BY <1>4 DEF CreditTypeOK
  <2>2. sidecar'[p] = "none" /\ \A q \in Node \ {p} : sidecar'[q] = sidecar[q]
    BY <1>4 DEF LinkTypeOK
  <2>3. \A q \in Node : /\ Pending(q)' => Pending(q)
                        /\ Returned(q)' => Returned(q) /\ q # p
    BY <1>2, <2>2 DEF Pending, Returned
  <2>4. \A q \in Node : Returned(q)' => counter'[q] = image[q]
    BY <2>1, <2>3 DEF CounterInv
  <2> QED BY <1>1, <1>4, <2>1, <2>3, <2>4, EndingCredit
<1> QED BY <1>3, <1>4 DEF Stop, StopFails

(* The image is brought back on a server whose sidecar has ended.          *)
LEMMA RestoreAppCredit ==
    ASSUME Script = {Node}, IndInv, CreditTypeOK, NEW S, CounterInv(S), LinkLedger(S),
           NEW p \in Node, RestoreApp(Node, p)
    PROVE  CounterInv(S)' /\ LinkLedger(S)'
<1> LinkTypeOK BY DEF IndInv
<1>1. /\ TheStep = "restoring" /\ p \in TheTodo /\ Advance(Node, p, "starting")
      /\ app[p] = "none" /\ counter' = [counter EXCEPT ![p] = image[p]]
      /\ UNCHANGED <<files, sidecar, peers, runs, counts>>
  BY DEF RestoreApp, BringBack, TheStep, TheTodo
<1>2. \/ TheTodo = {p} /\ TheStep' = "starting" /\ TheTodo' = Node
      \/ TheStep' = "restoring" /\ TheTodo' = TheTodo \ {p}
  BY <1>1 DEF LinkTypeOK, Advance, TheStep, TheTodo
<1>3. /\ counter'[p] = image[p]
      /\ \A q \in Node \ {p} : counter'[q] = counter[q]
      /\ ~Up(p)
  BY <1>1 DEF CreditTypeOK, IndInv, PhaseInv, Up
<1>4. \A q \in Node : Returned(q)' => Returned(q) \/ q = p
  BY <1>1, <1>2 DEF Returned, Pending
<1>5. \A q \in Node : /\ Returned(q)' => counter'[q] = image[q]
                      /\ Up(q) => counter'[q] = counter[q]
  BY <1>3, <1>4 DEF CounterInv
<1>6. CASE TheStep' = "restoring"
  <2>1. \A q \in Node : Pending(q)' => Pending(q)
    BY <1>1, <1>6 DEF Pending
  <2> QED BY <1>1, <1>5, <2>1, QuietCredit DEF counts
<1>7. CASE TheTodo = {p}
  <2>1. \A q \in Node : sidecar'[q] = "none" /\ sidecar[q] = "none"
    BY <1>1, <1>7 DEF IndInv, PhaseInv
  <2>2. \A q \in Node : ~Up(q)' /\ Fresh(q)' /\ Fresh(q)
    BY <2>1 DEF Up, Fresh
  <2>3. CounterInv(S)'
    BY <1>1, <1>5, <2>2, CounterFrame DEF counts
  <2>4. LinkLedger(S)'
    BY <1>1, <2>2, ChannelEnds DEF LinkLedger, EndInv, PairInv, peers
  <2> QED BY <2>3, <2>4
<1> QED BY <1>2, <1>6, <1>7

LEMMA AbortCredit ==
    ASSUME Script = {Node}, IndInv, CreditTypeOK, NEW S, CounterInv(S), LinkLedger(S),
           NEW p \in Node, RestoreFails(Node, p) \/ RunSidecarFails(Node, p)
    PROVE  CounterInv(S)' /\ LinkLedger(S)'
<1> LinkTypeOK BY DEF IndInv
<1>1. TheStep' = "failed" /\ UNCHANGED <<files, unseeded>>
  BY DEF RestoreFails, RunSidecarFails, Abort, LinkTypeOK, TheStep
<1>2. CASE RestoreFails(Node, p)
  <2>1. /\ UNCHANGED <<sidecar, peers>>
        /\ \/ counter' = counter
           \/ app[p] = "none" /\ counter' = [counter EXCEPT ![p] = image[p]]
    BY <1>2 DEF RestoreFails, BringBack
  <2>2. \A q \in Node : /\ Pending(q)' => Pending(q)
                        /\ Returned(q)' => Returned(q)
    BY <1>1, <2>1 DEF Pending, Returned
  <2>3. app[p] = "none" => ~Up(p)
    BY DEF IndInv, PhaseInv, Up
  <2>4. \A q \in Node : /\ Returned(q)' => counter'[q] = image[q]
                        /\ Up(q) => counter'[q] = counter[q]
    BY <2>1, <2>2, <2>3 DEF CounterInv, CreditTypeOK
  <2> QED BY <1>1, <2>1, <2>2, <2>4, QuietCredit
<1>3. CASE RunSidecarFails(Node, p)
  <2>1. /\ counter' = counter
        /\ TheStep = "starting" /\ p \in TheTodo
        /\ \/ UNCHANGED <<sidecar, peers>>
           \/ NoPeers(p) /\ sidecar' = [sidecar EXCEPT ![p] = "starting"]
    BY <1>3 DEF RunSidecarFails, TheStep, TheTodo
  <2>2. \A q \in Node : /\ Pending(q)' => Pending(q)
                        /\ Returned(q)' => Returned(q)
    BY <1>1, <2>1 DEF LinkTypeOK, Pending, Returned
  <2>3. \A q \in Node : Returned(q)' => counter'[q] = image[q]
    BY <2>1, <2>2 DEF CounterInv
  <2> QED BY <1>1, <2>1, <2>2, <2>3, QuietCredit, EndingCredit
<1> QED BY <1>2, <1>3

LEMMA RunSidecarCredit ==
    ASSUME Script = {Node}, IndInv, NEW S, CounterInv(S), LinkLedger(S),
           NEW p \in Node, RunSidecar(Node, p)
    PROVE  CounterInv(S)' /\ LinkLedger(S)'
<1> LinkTypeOK BY DEF IndInv
<1>1. /\ TheStep = "starting" /\ p \in TheTodo /\ Advance(Node, p, "done")
      /\ NoPeers(p) /\ sidecar' = [sidecar EXCEPT ![p] = "starting"]
      /\ counter' = counter /\ UNCHANGED <<files, unseeded>>
  BY DEF RunSidecar, TheStep, TheTodo, counts
<1>2. \/ TheStep' = "done"
      \/ TheStep' = "starting" /\ TheTodo' = TheTodo \ {p}
  BY <1>1 DEF LinkTypeOK, Advance, TheStep, TheTodo
<1>3. \A q \in Node : /\ Pending(q)' => Pending(q)
                      /\ Returned(q)' => Returned(q)
  BY <1>1, <1>2 DEF LinkTypeOK, Pending, Returned
<1>4. \A q \in Node : Returned(q)' => counter'[q] = image[q]
  BY <1>1, <1>3 DEF CounterInv
<1> QED BY <1>1, <1>3, <1>4, EndingCredit

-----------------------------------------------------------------------------
(* The fresh sidecar.                                                      *)

(* p's sidecar goes up, with the numbers it was seeded with, or with none. *)
Loads(p, S, T) ==
    /\ sidecar[p] = "starting"
    /\ sidecar' = [sidecar EXCEPT ![p] = "restored"]
    /\ UNCHANGED <<files, app, scripts, unacked, recvBuffer>>
    /\ \A q \in Node \ {p} : q \in T <=> q \in S
    /\ \A f \in Channel :
           /\ sendSeq'[f] = IF f[1] = p THEN SendBase(f, T) ELSE sendSeq[f]
           /\ recvSeq'[f] = IF f[2] = p THEN RecvBase(f, T) ELSE recvSeq[f]

LEMMA LoadsLinks ==
    ASSUME IndInv, CreditTypeOK, NEW p \in Node, NEW S, NEW T, Loads(p, S, T),
           LinkLedger(S)
    PROVE  LinkLedger(T)'
<1> LinkTypeOK BY DEF IndInv
<1>1. /\ ~Pending(p)' /\ ~Fresh(p)' /\ Pending(p) /\ Fresh(p)
      /\ \A q \in Node \ {p} : /\ Pending(q)' <=> Pending(q)
                               /\ Fresh(q)' <=> Fresh(q)
                               /\ sidecar'[q] = sidecar[q]
  BY LoadingPhase DEF Loads
<1>2. /\ Up(p)' /\ ~Up(p)
      /\ \A q \in Node \ {p} : Up(q)' <=> Up(q)
  BY <1>1 DEF Up, Loads, LinkTypeOK
<1> SUFFICES ASSUME NEW g \in Channel
             PROVE  EndInv(g, T)' /\ PairInv(g, T)'
  BY DEF LinkLedger
<1>3. g[1] \in Node /\ g[2] \in Node /\ g[1] # g[2]
  BY DEF Channel
<1>4. EndInv(g, S) /\ PairInv(g, S)
  BY DEF LinkLedger
<1>5. /\ SendBase(g, T)' = SendBase(g, T) /\ RecvBase(g, T)' = RecvBase(g, T)
      /\ g[1] # p => SendBase(g, T) = SendBase(g, S)
      /\ g[2] # p => RecvBase(g, T) = RecvBase(g, S)
      /\ unacked' = unacked /\ recvBuffer' = recvBuffer
      /\ g[1] # p => sendSeq'[g] = sendSeq[g]
      /\ g[1] = p => sendSeq'[g] = SendBase(g, T)
      /\ g[2] # p => recvSeq'[g] = recvSeq[g]
      /\ g[2] = p => recvSeq'[g] = RecvBase(g, T)
  BY <1>3 DEF Loads, SendBase, RecvBase, files
<1>6. /\ SendBase(g, T) \in Nat /\ RecvBase(g, T) \in Nat
      /\ sendSeq[g] \in Nat /\ recvSeq[g] \in Nat
      /\ SendBase(g, T) .. SendBase(g, T) - 1 = {}
  <2>1. SendBase(g, T) \in Nat /\ RecvBase(g, T) \in Nat
    BY LedgerTyped
  <2> QED BY <2>1 DEF LinkTypeOK
<1>7. CASE g[1] = p
  <2>1. EndInv(g, T)'
    <3>1. /\ unacked'[g] = {} /\ sendSeq'[g] = SendBase(g, T)
          /\ recvSeq'[g] = recvSeq[g] /\ recvBuffer'[g] = recvBuffer[g]
          /\ Fresh(g[2])' <=> Fresh(g[2])
          /\ ~Fresh(g[1])' /\ ~Pending(g[1])'
      BY <1>1, <1>3, <1>4, <1>5, <1>7 DEF EndInv
    <3>2. Fresh(g[2]) => recvBuffer[g] = {} /\ recvSeq[g] = 0
      BY <1>4 DEF EndInv
    <3> QED BY <3>1, <3>2, <1>5, <1>6 DEF EndInv
  <2>2. PairInv(g, T)'
    <3> SUFFICES ASSUME Up(g[2])
                 PROVE  /\ recvBuffer[g] = {} /\ recvSeq'[g] = RecvBase(g, T)
                        /\ SendBase(g, T) .. sendSeq'[g] - 1 = {}
      BY <1>2, <1>3, <1>5, <1>7 DEF PairInv
    <3> QED BY <1>1, <1>3, <1>4, <1>5, <1>6, <1>7 DEF EndInv
  <2> QED BY <2>1, <2>2
<1>8. CASE g[2] = p
  <2>1. EndInv(g, T)'
    BY <1>1, <1>2, <1>3, <1>4, <1>5, <1>6, <1>8 DEF EndInv
  <2>2. PairInv(g, T)'
    <3> SUFFICES ASSUME Up(g[1])
                 PROVE  /\ recvBuffer[g] = {} /\ recvSeq'[g] = RecvBase(g, T)
                        /\ SendBase(g, T) .. sendSeq'[g] - 1 = unacked[g]
      BY <1>2, <1>3, <1>5, <1>8 DEF PairInv
    <3> QED BY <1>1, <1>3, <1>4, <1>5, <1>6, <1>8 DEF EndInv
  <2> QED BY <2>1, <2>2
<1>9. CASE g[1] # p /\ g[2] # p
  BY <1>1, <1>2, <1>3, <1>4, <1>5, <1>9 DEF EndInv, PairInv
<1> QED BY <1>7, <1>8, <1>9

(* What it has replayed is the first entry of its ledger.                  *)
LEMMA LoadsCredit ==
    ASSUME IndInv, CreditTypeOK, NEW p \in Node, NEW S, NEW T, Loads(p, S, T),
           CounterInv(S), NEW n \in 0 .. SumFunctionOnSet(recorded, In(p)),
           counter' = [counter EXCEPT ![p] = @ + n],
           \A q \in Node \ {p} : q \in unseeded' <=> q \in unseeded,
           p \notin unseeded' => p \in T /\ n = SumFunctionOnSet(recorded, In(p))
    PROVE  CounterInv(T)'
<1> LinkTypeOK BY DEF IndInv
<1>1. /\ ~Pending(p)' /\ Pending(p)
      /\ \A q \in Node \ {p} : /\ Pending(q)' <=> Pending(q)
                               /\ sidecar'[q] = sidecar[q]
  BY LoadingPhase DEF Loads
<1>2. TheStep' = TheStep /\ TheTodo' = TheTodo /\ image' = image
  BY DEF Loads, scripts, files, TheStep, TheTodo
<1>3. ~Returned(p)' /\ Returned(p)
  BY <1>1, <1>2 DEF Returned, Loads, IndInv, PhaseInv
<1> SUFFICES ASSUME NEW q \in Node
             PROVE  /\ Returned(q)' => counter'[q] = image[q]
                    /\ Up(q)' => counter'[q] <= Ledger(q, T)'
                    /\ Loaded(q)' => q \in T /\ counter'[q] = Ledger(q, T)'
  BY <1>2 DEF CounterInv
<1>4. CASE q = p
  <2>1. PICK R \in Nat : R = SumFunctionOnSet(recorded, In(p))
    BY RecordedIn
  <2> DEFINE zero == [f \in Channel |-> 0]
  <2>2. AtEnds(p, Brought(T)', Took(T)') = AtEnds(p, recorded, zero)
    <3>1. \A f \in Channel : SendBase(f, T) \in Nat /\ RecvBase(f, T) \in Nat
      BY LedgerTyped
    <3>2. \A f \in Channel :
              /\ f[2] = p => Brought(T)'[f] = recorded[f]
              /\ f[1] = p => Took(T)'[f] = 0
      BY <3>1 DEF Brought, Took, Loads, files, SendBase, RecvBase, LinkTypeOK
    <3> QED BY <3>2 DEF AtEnds
  <2> HIDE DEF zero
  <2>3. Ledger(p, T)' = image[p] + R
    BY <1>2, <2>1, <2>2, RecordedIn DEF Ledger, zero
  <2>4. counter[p] = image[p] /\ image[p] \in Int
    BY <1>3 DEF CounterInv, CreditTypeOK
  <2>5. counter'[p] = image[p] + n /\ n \in 0 .. R
    BY <2>1, <2>4 DEF CreditTypeOK
  <2>6. Loaded(p)' => p \in T /\ n = R
    BY <2>1 DEF Loaded
  <2> QED BY <1>3, <1>4, <2>3, <2>4, <2>5, <2>6
<1>5. CASE q # p
  <2>1. counter'[q] = counter[q] /\ (q \in T <=> q \in S)
    BY <1>5 DEF CreditTypeOK, Loads
  <2>2. \A f \in Channel : /\ f[1] = q => sendSeq'[f] = sendSeq[f]
                           /\ f[2] = q => recvSeq'[f] = recvSeq[f]
    BY <1>5 DEF Loads
  <2>3. Ledger(q, T)' = Ledger(q, S)
    BY <2>1, <2>2, LedgerFrame DEF Loads
  <2>4. /\ Returned(q)' <=> Returned(q)
        /\ Up(q)' <=> Up(q)
        /\ Loaded(q)' <=> Loaded(q)
    BY <1>1, <1>2, <1>5 DEF Returned, Up, Loaded
  <2> QED BY <2>1, <2>3, <2>4 DEF CounterInv
<1> QED BY <1>4, <1>5

(* Seeding starts a PeerState at the cut.                                  *)
LEMMA SeedBases ==
    ASSUME LinkTypeOK, NEW p \in Node, NEW S, LinkLedger(S), Fresh(p), Seed(p),
           files' = files, NEW f \in Channel
    PROVE  /\ sendSeq'[f] = IF f[1] = p THEN SendBase(f, S \cup {p}) ELSE sendSeq[f]
           /\ recvSeq'[f] = IF f[2] = p THEN RecvBase(f, S \cup {p}) ELSE recvSeq[f]
<1>1. f[2] = p => recvSeq[f] = 0
  BY DEF LinkLedger, EndInv
<1> QED BY <1>1 DEF Seed, SendBase, RecvBase

LEMMA LoadCredit ==
    ASSUME IndInv, CreditTypeOK, NEW S \in SUBSET Node, CounterInv(S), LinkLedger(S),
           NEW p \in Node, LoadArtifact(p) \/ LoadFails(p)
    PROVE  \E T \in SUBSET Node : CounterInv(T)' /\ LinkLedger(T)'
<1> LinkTypeOK BY DEF IndInv
<1>1. /\ sidecar[p] = "starting" /\ sidecar' = [sidecar EXCEPT ![p] = "restored"]
      /\ UNCHANGED <<files, app, scripts>>
  BY DEF LoadArtifact, LoadFails
<1>2. Fresh(p)
  BY <1>1 DEF Fresh
<1>3. PICK R \in Nat : R = SumFunctionOnSet(recorded, In(p))
  BY RecordedIn
<1>4. CASE Seed(p)
  <2> DEFINE T == S \cup {p}
  <2>1. Loads(p, S, T)
    <3>1. \A f \in Channel :
              /\ sendSeq'[f] = IF f[1] = p THEN SendBase(f, T) ELSE sendSeq[f]
              /\ recvSeq'[f] = IF f[2] = p THEN RecvBase(f, T) ELSE recvSeq[f]
      BY <1>1, <1>2, <1>4, SeedBases
    <3>2. \A q \in Node \ {p} : q \in T <=> q \in S
      OBVIOUS
    <3> HIDE DEF T
    <3> QED BY <1>1, <1>4, <3>1, <3>2 DEF Loads, Seed
  <2>2. PICK n \in 0 .. R : /\ counter' = [counter EXCEPT ![p] = @ + n]
                            /\ p \notin unseeded' => n = R
    <3>1. CASE LoadArtifact(p)
      <4>1. counter' = [counter EXCEPT ![p] = @ + R] /\ R \in 0 .. R
        BY <1>3, <3>1 DEF LoadArtifact
      <4> QED BY <4>1
    <3>2. CASE LoadFails(p)
      <4>1. p \in unseeded'
        BY <3>2 DEF LoadFails
      <4>2. \E n \in 0 .. R : counter' = [counter EXCEPT ![p] = @ + n]
        <5>1. CASE counter' = counter
          <6>1. counter' = [counter EXCEPT ![p] = @ + 0] /\ 0 \in 0 .. R
            BY <5>1 DEF CreditTypeOK
          <6> QED BY <6>1
        <5>2. CASE \E n \in 0 .. R - 1 : counter' = [counter EXCEPT ![p] = @ + n]
          <6>1. PICK n \in 0 .. R - 1 : counter' = [counter EXCEPT ![p] = @ + n]
            BY <5>2
          <6>2. n \in 0 .. R
            BY <6>1
          <6> QED BY <6>1, <6>2
        <5> QED BY <1>3, <3>2, <5>1, <5>2 DEF LoadFails
      <4> QED BY <4>1, <4>2
    <3> QED BY <3>1, <3>2
  <2>3. \A q \in Node \ {p} : q \in unseeded' <=> q \in unseeded
    BY DEF LoadArtifact, LoadFails
  <2>4. p \in T /\ T \in SUBSET Node
    OBVIOUS
  <2> HIDE DEF T
  <2>5. CounterInv(T)'
    BY <1>3, <2>1, <2>2, <2>3, <2>4, LoadsCredit
  <2>6. LinkLedger(T)'
    BY <2>1, LoadsLinks
  <2> QED BY <2>4, <2>5, <2>6
<1>5. CASE LoadFails(p) /\ UNCHANGED <<peers, counter>>
  <2> DEFINE T == S \ {p}
  <2>1. Loads(p, S, T)
    <3>1. \A f \in Channel : /\ f[1] = p => sendSeq[f] = 0
                             /\ f[2] = p => recvSeq[f] = 0
      BY <1>2 DEF LinkLedger, EndInv
    <3> QED BY <1>1, <1>5, <3>1 DEF Loads, peers, SendBase, RecvBase
  <2>2. counter' = [counter EXCEPT ![p] = @ + 0]
    BY <1>5 DEF CreditTypeOK
  <2>3. p \in unseeded' /\ \A q \in Node \ {p} : q \in unseeded' <=> q \in unseeded
    BY <1>5 DEF LoadFails
  <2>4. T \in SUBSET Node /\ 0 \in 0 .. R
    OBVIOUS
  <2> HIDE DEF T
  <2>5. CounterInv(T)'
    BY <1>3, <2>1, <2>2, <2>3, <2>4, LoadsCredit
  <2>6. LinkLedger(T)'
    BY <2>1, LoadsLinks
  <2> QED BY <2>4, <2>5, <2>6
<1> QED BY <1>4, <1>5 DEF LoadArtifact, LoadFails

-----------------------------------------------------------------------------
(* What the servers have, added up.                                        *)

(* A channel whose ends are both up has lost what its receiver was seeded  *)
(* beyond, and nothing else.                                               *)
LEMMA ChannelBalance ==
    ASSUME LinkTypeOK, CreditTypeOK, NEW S, NEW f \in Channel,
           EndInv(f, S), PairInv(f, S), Up(f[1]), Up(f[2])
    PROVE  /\ Cardinality(InFlight(f)) \in Nat
           /\ (recvSeq[f] - RecvBase(f, S)) + (SendBase(f, S) - sendSeq[f])
              + Cardinality(InFlight(f)) <= 0
           /\ RecvBase(f, S) <= SendBase(f, S) =>
                  (recvSeq[f] - RecvBase(f, S)) + (SendBase(f, S) - sendSeq[f])
                  + Cardinality(InFlight(f)) = 0
<1> PICK a, b, r, t : /\ a = SendBase(f, S) /\ b = RecvBase(f, S)
                      /\ r = recvSeq[f] /\ t = sendSeq[f]
  OBVIOUS
<1>1. /\ a \in Nat /\ b \in Nat /\ r \in Nat /\ t \in Nat
      /\ unacked[f] \in SUBSET Nat /\ recvBuffer[f] \in SUBSET Nat
  BY LedgerTyped DEF LinkTypeOK
<1>2. /\ a <= t /\ unacked[f] \subseteq a .. t - 1
      /\ recvBuffer[f] \subseteq a .. t - 1
      /\ \A n \in recvBuffer[f] : n > r
      /\ \A n \in a .. t - 1 : n >= r => n \in unacked[f] \cup recvBuffer[f]
      /\ r = b \/ (a <= b /\ b < r /\ r <= t)
  BY DEF EndInv, PairInv
<1>3. InFlight(f) = {n \in a .. t - 1 : n >= r}
  BY <1>1, <1>2 DEF InFlight
<1>4. ASSUME NEW x \in Nat, x <= t
      PROVE  Cardinality(x .. t - 1) = t - x
  <2>1. PICK y \in Int : y = t - 1
    BY <1>1
  <2>2. Cardinality(x .. y) = IF x > y THEN 0 ELSE y - x + 1
    BY FS_Interval
  <2> QED BY <1>1, <1>4, <2>1, <2>2
<1>5. CASE r <= a
  <2>1. InFlight(f) = a .. t - 1
    BY <1>1, <1>3, <1>5
  <2>2. r = b
    BY <1>1, <1>2, <1>5
  <2>3. Cardinality(InFlight(f)) = t - a
    BY <1>1, <1>2, <1>4, <2>1
  <2> QED BY <1>1, <1>2, <1>5, <2>2, <2>3
<1>6. CASE a < r /\ r <= t
  <2>1. InFlight(f) = r .. t - 1
    BY <1>1, <1>3, <1>6
  <2>2. Cardinality(InFlight(f)) = t - r
    BY <1>1, <1>4, <1>6, <2>1
  <2>3. a <= b
    BY <1>1, <1>2, <1>6
  <2> QED BY <1>1, <1>2, <1>6, <2>2, <2>3
<1>7. CASE t < r
  <2>1. InFlight(f) = {}
    BY <1>1, <1>3, <1>7
  <2>2. Cardinality(InFlight(f)) = 0
    BY <2>1, FS_EmptySet
  <2>3. r = b
    BY <1>1, <1>2, <1>7
  <2> QED BY <1>1, <1>2, <1>7, <2>2, <2>3
<1> QED BY <1>1, <1>5, <1>6, <1>7

(* The counters are the images plus what the ends of all channels brought  *)
(* and took, at most, and exactly if everybody is loaded.                  *)
LEMMA CountersAddUp ==
    ASSUME LinkTypeOK, CreditTypeOK, NEW S, CounterInv(S), Ready,
           NEW net, net = [f \in Channel |-> Brought(S)[f] + Took(S)[f]]
    PROVE  /\ SumFunction(counter) <= SumFunction(image) + SumFunction(net)
           /\ unseeded = {} =>
                  SumFunction(counter) = SumFunction(image) + SumFunction(net)
<1> DEFINE ends == [p \in Node |-> SumFunction(AtEnds(p, Brought(S), Took(S)))]
           ledgers == [p \in Node |-> Ledger(p, S)]
<1>1. Brought(S) \in [Channel -> Int] /\ Took(S) \in [Channel -> Int]
  BY LedgerTyped
<1>2. ends \in [Node -> Int]
  BY <1>1, AtEndsType
<1>3. ledgers \in [Node -> Int]
  BY LedgerTyped
<1>4. image \in [Node -> Int] /\ counter \in [Node -> Int]
  BY DEF CreditTypeOK
<1>5. \A p \in Node : ledgers[p] = image[p] + ends[p]
  BY DEF Ledger
<1>6. \A p \in Node : counter[p] <= ledgers[p]
  BY DEF CounterInv, Ready, Up
<1>7. unseeded = {} => \A p \in Node : counter[p] = ledgers[p]
  BY DEF CounterInv, Ready, Loaded
<1>8. SumFunction(ends) = SumFunction(net)
  <2>1. PICK in, out : in = Brought(S) /\ out = Took(S)
    OBVIOUS
  <2>2. SumFunction([p \in Node |-> SumFunction(AtEnds(p, in, out))])
        = SumFunction([f \in Channel |-> in[f] + out[f]])
    BY <1>1, <2>1, SumOfEnds
  <2> QED BY <2>1, <2>2
<1> HIDE DEF ends, ledgers
<1>9. IsFiniteSet(Node)
  BY ChannelsFinite
<1>10. SumFunction(ledgers) = SumFunction(image) + SumFunction(ends)
  BY ONLY <1>2, <1>3, <1>4, <1>5, <1>9, SumAdd
<1>11. SumFunction(counter) <= SumFunction(ledgers)
  BY ONLY <1>3, <1>4, <1>6, <1>9, SumMonotone
<1>12. unseeded = {} => counter = ledgers
  BY <1>3, <1>4, <1>7
<1> QED BY <1>8, <1>10, <1>11, <1>12

(* The files are of one cut and every server has loaded its own.           *)
Whole == unseeded = {} /\ \A f \in Channel : recvCut[f] = sendCut[f]

LEMMA ReadyBalance ==
    ASSUME LinkTypeOK, CreditTypeOK, NEW S, CounterInv(S), LinkLedger(S), Ready
    PROVE  /\ Holdings \in Int /\ CutCredit \in Int
           /\ SumFunction(counter) <= Holdings /\ Holdings <= CutCredit
           /\ Whole => Holdings = CutCredit
<1> DEFINE net == [f \in Channel |-> Brought(S)[f] + Took(S)[f]]
           load == [f \in Channel |-> Cardinality(InFlight(f))]
           kept == [f \in Channel |-> net[f] + load[f]]
<1>1. Brought(S) \in [Channel -> Int] /\ Took(S) \in [Channel -> Int]
  BY LedgerTyped
<1>2. net \in [Channel -> Int]
  BY <1>1
<1>3. ASSUME NEW f \in Channel
      PROVE  /\ Cardinality(InFlight(f)) \in Nat
             /\ net[f] + Cardinality(InFlight(f)) <= recorded[f]
             /\ Whole => net[f] + Cardinality(InFlight(f)) = recorded[f]
  <2>1. Up(f[1]) /\ Up(f[2]) /\ EndInv(f, S) /\ PairInv(f, S)
    BY ChannelEnds DEF Ready, Up, LinkLedger
  <2>2. Whole => RecvBase(f, S) <= SendBase(f, S)
    <3>1. Whole => f[1] \in S /\ recvCut[f] = sendCut[f]
      BY <2>1, ChannelEnds DEF Whole, CounterInv, Loaded, Up
    <3>2. sendCut[f] \in Nat
      BY DEF LinkTypeOK
    <3> QED BY <3>1, <3>2 DEF RecvBase, SendBase
  <2>3. PICK c, d, e \in Int : /\ c = recvSeq[f] - RecvBase(f, S)
                               /\ d = SendBase(f, S) - sendSeq[f]
                               /\ e = recorded[f]
    <3>1. SendBase(f, S) \in Nat /\ RecvBase(f, S) \in Nat
      BY LedgerTyped
    <3> QED BY <3>1 DEF LinkTypeOK
  <2>4. net[f] = (e + c) + d
    BY <2>3 DEF Brought, Took
  <2>5. /\ Cardinality(InFlight(f)) \in Nat
        /\ c + d + Cardinality(InFlight(f)) <= 0
        /\ Whole => c + d + Cardinality(InFlight(f)) = 0
    BY <2>1, <2>2, <2>3, ChannelBalance
  <2> HIDE DEF net
  <2>6. PICK l \in Nat : l = Cardinality(InFlight(f))
    BY <2>5
  <2>7. c + d + l <= 0 /\ (Whole => c + d + l = 0)
    BY <2>5, <2>6
  <2>8. (e + c) + d + l <= e /\ (Whole => (e + c) + d + l = e)
    BY ONLY c \in Int, d \in Int, e \in Int, l \in Nat, <2>7
  <2> QED BY ONLY <2>3, <2>4, <2>6, <2>8
<1> HIDE DEF net
<1>4. load \in [Channel -> Int] /\ SumFunction(load) \in Nat
  <2>1. load \in [Channel -> Nat]
    BY <1>3
  <2> HIDE DEF load
  <2> QED BY <2>1, ChannelsFinite, SumNat
<1>5. /\ kept \in [Channel -> Int] /\ \A f \in Channel : kept[f] = net[f] + load[f]
  BY <1>2, <1>4
<1>6. recorded \in [Channel -> Int] /\ \A f \in Channel : kept[f] <= recorded[f]
  BY <1>3 DEF LinkTypeOK
<1>7. Whole => kept = recorded
  <2>1. Whole => \A f \in Channel : kept[f] = recorded[f]
    BY <1>3
  <2> HIDE DEF kept, load
  <2> QED BY <1>5, <1>6, <2>1
<1> HIDE DEF load, kept
<1>8. /\ SumFunction(counter) <= SumFunction(image) + SumFunction(net)
      /\ Whole =>
             SumFunction(counter) = SumFunction(image) + SumFunction(net)
  BY CountersAddUp DEF net, Whole
<1>9. SumFunction(kept) = SumFunction(net) + SumFunction(load)
  BY <1>2, <1>4, <1>5, ChannelsFinite, SumAdd
<1>10. SumFunction(kept) <= SumFunction(recorded)
  BY <1>5, <1>6, ChannelsFinite, SumMonotone
<1>11. /\ SumFunction(counter) \in Int /\ SumFunction(image) \in Int
       /\ SumFunction(net) \in Int /\ SumFunction(load) \in Int
       /\ SumFunction(recorded) \in Int /\ SumFunction(kept) \in Int
  BY <1>2, <1>4, <1>5, <1>6, ChannelsFinite, SumType DEF CreditTypeOK
<1>12. Holdings = SumFunction(counter) + SumFunction(load)
  <2>1. /\ SumFunction(counter) = SumFunctionOnSet(counter, Node)
        /\ SumFunction(load) = SumFunctionOnSet(load, Channel)
    BY <1>4 DEF SumFunction, CreditTypeOK
  <2> QED BY <2>1 DEF Holdings, load
<1>13. CutCredit = SumFunction(image) + SumFunction(recorded)
  BY DEF CutCredit
<1> QED BY <1>4, <1>7, <1>8, <1>9, <1>10, <1>11, <1>12, <1>13

-----------------------------------------------------------------------------

LEMMA CreditStep ==
    ASSUME Script = {Node}, IndInv, CreditInv, [Next]_vars
    PROVE  CreditInv'
<1> LinkTypeOK BY DEF IndInv
<1> CreditTypeOK BY DEF CreditInv
<1>0. PICK S \in SUBSET Node : CounterInv(S) /\ LinkLedger(S)
  BY DEF CreditInv
<1> DEFINE Accounted == /\ files' = files /\ counter' \in [Node -> Int]
                        /\ \E T \in SUBSET Node : CounterInv(T)' /\ LinkLedger(T)'
<1>1. ASSUME NEW f \in Channel, Transfer(f) PROVE Accounted
  <2>1. CounterInv(S)' /\ LinkLedger(S)'
    BY <1>0, <1>1, TransferCredit
  <2>2. files' = files /\ counter' = [counter EXCEPT ![f[1]] = @ - 1]
    BY <1>1 DEF Transfer
  <2>3. counter' \in [Node -> Int]
    <3>1. f[1] \in Node /\ counter \in [Node -> Int]
      BY ChannelEnds DEF CreditTypeOK
    <3>2. counter[f[1]] - 1 \in Int
      BY <3>1
    <3> QED BY <2>2, <3>1, <3>2
  <2> QED BY <2>1, <2>2, <2>3
<1>2. ASSUME NEW f \in Channel, NEW n \in unacked[f], Receive(f, n) PROVE Accounted
  <2>1. CounterInv(S)' /\ LinkLedger(S)' /\ counter' \in [Node -> Int]
    BY <1>0, <1>2, ReceiveCredit
  <2>2. files' = files
    BY <1>2 DEF Receive
  <2> QED BY <2>1, <2>2
<1>3. ASSUME RunRestore(Node) PROVE Accounted
  <2>1. CounterInv(S)' /\ LinkLedger(S)'
    BY <1>0, <1>3, RunRestoreCredit
  <2>2. files' = files /\ counter' \in [Node -> Int]
    BY <1>3 DEF RunRestore, CreditTypeOK, containers
  <2> QED BY <2>1, <2>2
<1>4. ASSUME NEW p \in Node, Stop(Node, p) \/ StopFails(Node, p) PROVE Accounted
  <2>1. CounterInv(S)' /\ LinkLedger(S)'
    BY <1>0, <1>4, StopCredit
  <2>2. files' = files /\ counter' \in [Node -> Int]
    BY <1>4 DEF Stop, StopFails, CreditTypeOK
  <2> QED BY <2>1, <2>2
<1>5. ASSUME NEW p \in Node, RestoreApp(Node, p) PROVE Accounted
  <2>1. CounterInv(S)' /\ LinkLedger(S)'
    BY <1>0, <1>5, RestoreAppCredit
  <2>2. files' = files /\ counter' \in [Node -> Int]
    BY <1>5 DEF RestoreApp, BringBack, CreditTypeOK
  <2> QED BY <2>1, <2>2
<1>6. ASSUME NEW p \in Node, RestoreFails(Node, p) \/ RunSidecarFails(Node, p)
      PROVE  Accounted
  <2>1. CounterInv(S)' /\ LinkLedger(S)'
    BY <1>0, <1>6, AbortCredit
  <2>2. files' = files /\ counter' \in [Node -> Int]
    BY <1>6 DEF RestoreFails, RunSidecarFails, BringBack, CreditTypeOK
  <2> QED BY <2>1, <2>2
<1>7. ASSUME NEW p \in Node, RunSidecar(Node, p) PROVE Accounted
  <2>1. CounterInv(S)' /\ LinkLedger(S)'
    BY <1>0, <1>7, RunSidecarCredit
  <2>2. files' = files /\ counter' \in [Node -> Int]
    BY <1>7 DEF RunSidecar, CreditTypeOK
  <2> QED BY <2>1, <2>2
<1>8. ASSUME NEW p \in Node, LoadArtifact(p) \/ LoadFails(p) PROVE Accounted
  <2>1. \E T \in SUBSET Node : CounterInv(T)' /\ LinkLedger(T)'
    BY <1>0, <1>8, LoadCredit
  <2>2. files' = files
    BY <1>8 DEF LoadArtifact, LoadFails
  <2>3. counter' \in [Node -> Int]
    <3>1. PICK R \in Nat : R = SumFunctionOnSet(recorded, In(p))
      BY RecordedIn
    <3>2. \/ counter' = counter
          \/ \E n \in 0 .. R : counter' = [counter EXCEPT ![p] = @ + n]
      <4>1. CASE LoadArtifact(p)
        <5>1. counter' = [counter EXCEPT ![p] = @ + R] /\ R \in 0 .. R
          BY <3>1, <4>1 DEF LoadArtifact
        <5> QED BY <5>1
      <4>2. CASE LoadFails(p)
        <5>1. CASE \E n \in 0 .. R - 1 : counter' = [counter EXCEPT ![p] = @ + n]
          <6>1. PICK n \in 0 .. R - 1 : counter' = [counter EXCEPT ![p] = @ + n]
            BY <5>1
          <6>2. n \in 0 .. R
            BY <6>1
          <6> QED BY <6>1, <6>2
        <5> QED BY <3>1, <4>2, <5>1 DEF LoadFails
      <4> QED BY <1>8, <4>1, <4>2
    <3>3. CASE counter' = counter
      BY <3>3 DEF CreditTypeOK
    <3>4. CASE \E n \in 0 .. R : counter' = [counter EXCEPT ![p] = @ + n]
      <4>1. PICK n \in 0 .. R : counter' = [counter EXCEPT ![p] = @ + n]
        BY <3>4
      <4> QED BY <4>1 DEF CreditTypeOK
    <3> QED BY <3>2, <3>3, <3>4
  <2> QED BY <2>1, <2>2, <2>3
<1>9. ASSUME UNCHANGED vars PROVE Accounted
  <2>1. UNCHANGED <<files, containers, peers, scripts, counts>>
    BY <1>9 DEF vars
  <2>2. \A q \in Node : /\ Pending(q)' <=> Pending(q)
                        /\ Returned(q)' <=> Returned(q)
    BY <2>1 DEF Pending, Returned, TheStep, TheTodo, containers, scripts
  <2>3. CounterInv(S)' /\ LinkLedger(S)'
    BY <1>0, <2>1, <2>2, QuietCredit DEF containers, counts, CounterInv
  <2> QED BY <2>1, <2>3 DEF containers, CreditTypeOK
<1>10. Accounted
  <2> HIDE DEF Accounted
  <2>1. CASE UNCHANGED vars
    BY <2>1, <1>9
  <2>2. CASE Next
    BY <2>2, <1>1, <1>2, <1>3, <1>4, <1>5, <1>6, <1>7, <1>8 DEF Next, ScriptStep
  <2> QED BY <2>1, <2>2
<1>11. CreditTypeOK'
  BY <1>10 DEF CreditTypeOK, files
<1> QED BY <1>10, <1>11 DEF CreditInv

(* CreditInv is an invariant of every restore by one script: each server   *)
(* that is up has what its image and its channels gave it, whatever the    *)
(* operator ran again and whatever failed before.                          *)
THEOREM CreditInvariance == Script = {Node} => (Spec => []CreditInv)
<1> SUFFICES ASSUME Script = {Node} PROVE Spec => []CreditInv
  OBVIOUS
<1>1. Spec => []IndInv
  BY RestoreInvariance
<1>2. IndInv /\ Init => CreditInv
  BY InitCredit DEF IndInv
<1>3. IndInv /\ CreditInv /\ [Next]_vars => CreditInv'
  BY CreditStep
<1> QED BY <1>1, <1>2, <1>3, PTL DEF Spec

(* Every variable of a restore by one script keeps its type.               *)
THEOREM RestoreTypeCorrect == Script = {Node} => (Spec => []TypeOK)
<1> SUFFICES ASSUME Script = {Node} PROVE Spec => []TypeOK
  OBVIOUS
<1>1. Spec => []IndInv /\ []CreditInv
  BY RestoreInvariance, CreditInvariance
<1>2. IndInv /\ CreditInv => TypeOK
  BY DEF IndInv, CreditInv, TypeOK
<1> QED BY <1>1, <1>2, PTL

(* Once every server is restored from its artifact of a consistent cut,    *)
(* the mesh has the credit it was set up with, whatever the old instances  *)
(* did after the cut and however often and wherever the script failed ("so *)
(* no in-flight credits are lost or duplicated", RUNBOOK.md).              *)
THEOREM RestoreKeepsCredit == Script = {Node} => (Spec => []RestoreConserves)
<1> SUFFICES ASSUME Script = {Node} PROVE Spec => []RestoreConserves
  OBVIOUS
<1>1. Spec => []IndInv /\ []CreditInv
  BY RestoreInvariance, CreditInvariance
<1>2. IndInv /\ CreditInv => RestoreConserves
  <2> SUFFICES ASSUME IndInv, CreditInv, Consistent, Ready, unseeded = {}
               PROVE  Holdings = Total
    BY DEF RestoreConserves
  <2>1. PICK S \in SUBSET Node : CounterInv(S) /\ LinkLedger(S)
    BY DEF CreditInv
  <2>2. Whole /\ CutCredit = Total
    BY DEF Whole, Consistent
  <2> QED BY <2>1, <2>2, ReadyBalance DEF IndInv, CreditInv
<1> QED BY <1>1, <1>2, PTL

(* The files of a snapshot nobody aborted are a consistent cut, and stay   *)
(* one: a mesh restored from them has the credit it was set up with        *)
(* (restore_from_artifact; run_restore.sh reads the files and no more).    *)
THEOREM CompleteRestores ==
    Script = {Node} =>
        (Spec /\ (\E before \in [Channel -> 0 .. MaxBefore] : CompleteCut(before))
         => [](Ready /\ unseeded = {} => Holdings = Total))
<1> DEFINE Complete == \E before \in [Channel -> 0 .. MaxBefore] : CompleteCut(before)
           Restored == Ready /\ unseeded = {} => Holdings = Total
<1> SUFFICES ASSUME Script = {Node} PROVE Spec /\ Complete => []Restored
  OBVIOUS
<1>1. Spec => []RestoreConserves
  BY RestoreKeepsCredit
<1>2. Complete => Consistent
  BY CompleteIsConsistent
<1>3. Consistent /\ [Next]_vars => Consistent'
  BY FilesKept DEF files, Consistent, CutCredit, Total
<1>4. RestoreConserves /\ Consistent => Restored
  BY DEF RestoreConserves
<1> HIDE DEF Complete, Restored
<1> QED BY <1>1, <1>2, <1>3, <1>4, PTL DEF Spec

(* A restore from whatever artifacts there are, those of an aborted        *)
(* snapshot included and whichever could be loaded, can cost the mesh      *)
(* credit but never has more than the images and recorded channels it was  *)
(* made from: a receiver takes a number for new only if it never had it    *)
(* (restore_from_artifact: "logged LOUDLY but swallowed").                 *)
THEOREM RestoreForgesNothing == Script = {Node} => (Spec => []NeverForges)
<1> SUFFICES ASSUME Script = {Node} PROVE Spec => []NeverForges
  OBVIOUS
<1>1. Spec => []IndInv /\ []CreditInv
  BY RestoreInvariance, CreditInvariance
<1>2. IndInv /\ CreditInv => NeverForges
  <2> SUFFICES ASSUME IndInv, CreditInv, Ready
               PROVE  Holdings <= CutCredit
    BY DEF NeverForges
  <2>1. PICK S \in SUBSET Node : CounterInv(S) /\ LinkLedger(S)
    BY DEF CreditInv
  <2> QED BY <2>1, ReadyBalance DEF IndInv, CreditInv
<1> QED BY <1>1, <1>2, PTL

=============================================================================
