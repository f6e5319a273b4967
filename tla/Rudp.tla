-------------------------------- MODULE Rudp --------------------------------
(***************************************************************************)
(* The sidecars' reliable datagram layer: PeerState, TunnelProtocol and    *)
(* the sending half of MeshProxy (src/proxy/mesh_proxy.py).                *)
(*                                                                         *)
(* A flow <<p, q>> is the state p's PeerState for q keeps as sender        *)
(* (send_seq, unacked) together with the state q's PeerState for p keeps   *)
(* as receiver (recv_seq, recv_buffer).  The UDP tunnel between sidecars   *)
(* loses, reorders and duplicates: a packet stays available to its         *)
(* receiver, any number of times, until it is lost.                        *)
(*                                                                         *)
(* Every callback of the asyncio loop runs to completion, so each is one   *)
(* action.  Clocks are abstracted: in a pass of the retransmit loop any    *)
(* set of unacknowledged packets may have outlived RETRY_TIMEOUT.          *)
(***************************************************************************)
EXTENDS Integers, Sequences, FiniteSets

CONSTANTS Flow,       \* ordered pairs of servers
          Payload,    \* application datagrams
          MaxSend,    \* bound: datagrams accepted per flow
          MaxFail     \* bound: deliveries whose spoofed sendto raises

ASSUME MaxSendAssumption == MaxSend \in Nat
ASSUME MaxFailAssumption == MaxFail \in Nat

VARIABLES
    sendSeq,     \* sendSeq[f]: PeerState.send_seq at the sender
    unacked,     \* unacked[f]: PeerState.unacked, as a set of entries
    recvSeq,     \* recvSeq[f]: PeerState.recv_seq at the receiver
    recvBuffer,  \* recvBuffer[f]: PeerState.recv_buffer, as a set of entries
    packets,     \* Type-0 packets on the tunnel
    acks,        \* Type-1 packets on the tunnel
    sent,        \* history: what the sending app gave to flow f
    delivered,   \* history: what the receiving app got from flow f
    failures     \* deliveries that raised so far

sender   == <<sendSeq, unacked, sent>>
receiver == <<recvSeq, recvBuffer, delivered, failures>>
vars == <<sendSeq, unacked, recvSeq, recvBuffer, packets, acks,
          sent, delivered, failures>>

SeqNo == 0 .. MaxSend - 1
Entry == [seq : SeqNo, payload : Payload]          \* a slot of either dict
Packet == [flow : Flow, seq : SeqNo, payload : Payload]
AckPacket == [flow : Flow, seq : SeqNo]

Keys(dict) == {e.seq : e \in dict}
PayloadAt(dict, s) == (CHOOSE e \in dict : e.seq = s).payload
Assign(dict, s, m) ==                             \* dict[s] = m
    {e \in dict : e.seq # s} \cup {[seq |-> s, payload |-> m]}

-----------------------------------------------------------------------------

Init ==
    /\ sendSeq = [f \in Flow |-> 0]
    /\ unacked = [f \in Flow |-> {}]
    /\ recvSeq = [f \in Flow |-> 0]
    /\ recvBuffer = [f \in Flow |-> {}]
    /\ packets = {}
    /\ acks = {}
    /\ sent = [f \in Flow |-> << >>]
    /\ delivered = [f \in Flow |-> << >>]
    /\ failures = 0

(* send_data: frame the intercepted datagram with the next sequence number,*)
(* put it on the tunnel and keep it for retransmission.                    *)
SendData(f, m) ==
    /\ sendSeq[f] < MaxSend
    /\ packets' = packets \cup {[flow |-> f, seq |-> sendSeq[f], payload |-> m]}
    /\ unacked' = [unacked EXCEPT ![f] = Assign(@, sendSeq[f], m)]
    /\ sendSeq' = [sendSeq EXCEPT ![f] = @ + 1]
    /\ sent' = [sent EXCEPT ![f] = Append(@, m)]
    /\ UNCHANGED <<receiver, acks>>

(* The datagrams numbered s .. stop - 1: m, and the rest from dict.        *)
Run(s, m, dict, stop) ==
    [i \in 1 .. stop - s |-> IF i = 1 THEN m ELSE PayloadAt(dict, s + i - 1)]

(* FAULT: recv_seq is advanced once too often.                             *)
HandOverSkips(pkt, stop) ==
    /\ delivered' = [delivered EXCEPT ![pkt.flow] =
            @ \o Run(pkt.seq, pkt.payload, recvBuffer[pkt.flow], stop)]
    /\ recvSeq' = [recvSeq EXCEPT ![pkt.flow] = stop + 1]
    /\ recvBuffer' = [recvBuffer EXCEPT ![pkt.flow] = {e \in @ : e.seq > stop}]

(* Hand over pkt and the buffered run behind it, up to but excluding       *)
(* sequence number stop.  The loop pops each buffered entry before it      *)
(* delivers it, so if delivering stop raises, stop is popped and gone, and *)
(* recv_seq still names it.                                                *)
HandOver(pkt, stop) ==
    LET f == pkt.flow IN
    /\ delivered' = [delivered EXCEPT ![f] =
                         @ \o Run(pkt.seq, pkt.payload, recvBuffer[f], stop)]
    /\ recvSeq' = [recvSeq EXCEPT ![f] = stop]
    /\ recvBuffer' = [recvBuffer EXCEPT ![f] = {e \in @ : e.seq > stop}]

(* FAULT: a packet from the future is delivered at once.                   *)
DeliverUngated(pkt) ==
    /\ pkt.seq >= recvSeq[pkt.flow]
    /\ \E stop \in pkt.seq + 1 .. MaxSend :
           /\ pkt.seq + 1 .. stop - 1 \subseteq Keys(recvBuffer[pkt.flow])
           /\ stop \notin Keys(recvBuffer[pkt.flow])
           /\ HandOver(pkt, stop)
    /\ UNCHANGED failures

(* The flush loop runs to the first number missing from recv_buffer.       *)
DeliverInOrder(pkt) ==
    /\ pkt.seq = recvSeq[pkt.flow]
    /\ \E stop \in pkt.seq + 1 .. MaxSend :
           /\ pkt.seq + 1 .. stop - 1 \subseteq Keys(recvBuffer[pkt.flow])
           /\ stop \notin Keys(recvBuffer[pkt.flow])
           /\ HandOver(pkt, stop)
    /\ UNCHANGED failures

(* process_and_deliver raises (spoof_sock.sendto, socket creation) on pkt  *)
(* or on a buffered entry behind it, number stop: the callback ends there. *)
(* The packet that arrived has been acknowledged all the same.             *)
DeliverRaises(pkt) ==
    /\ pkt.seq = recvSeq[pkt.flow]
    /\ failures < MaxFail
    /\ failures' = failures + 1
    /\ \E stop \in pkt.seq .. MaxSend - 1 :
           /\ pkt.seq + 1 .. stop \subseteq Keys(recvBuffer[pkt.flow])
           /\ HandOver(pkt, stop)

(* FAULT: a packet from the future is acknowledged and then dropped.       *)
DropFuture(pkt) ==
    /\ pkt.seq > recvSeq[pkt.flow]
    /\ UNCHANGED receiver

(* FAULT: a stale packet is buffered as if it came from the future.        *)
BufferAnything(pkt) ==
    /\ pkt.seq # recvSeq[pkt.flow]
    /\ recvBuffer' = [recvBuffer EXCEPT ![pkt.flow] =
                          Assign(@, pkt.seq, pkt.payload)]
    /\ UNCHANGED <<recvSeq, delivered, failures>>

BufferFuture(pkt) ==
    /\ pkt.seq > recvSeq[pkt.flow]
    /\ recvBuffer' = [recvBuffer EXCEPT ![pkt.flow] =
                          Assign(@, pkt.seq, pkt.payload)]
    /\ UNCHANGED <<recvSeq, delivered, failures>>

DropStale(pkt) ==
    /\ pkt.seq < recvSeq[pkt.flow]
    /\ UNCHANGED receiver

(* FAULT: a stale packet is dropped without an acknowledgement.            *)
ReceiveDataSilently(pkt) ==
    /\ \/ DeliverInOrder(pkt) \/ DeliverRaises(pkt) \/ BufferFuture(pkt)
       \/ DropStale(pkt)
    /\ acks' = IF pkt.seq < recvSeq[pkt.flow] THEN acks
               ELSE acks \cup {[flow |-> pkt.flow, seq |-> pkt.seq]}
    /\ UNCHANGED <<sender, packets>>

(* datagram_received, Type 0: acknowledge first, whatever happens next.    *)
ReceiveData(pkt) ==
    /\ acks' = acks \cup {[flow |-> pkt.flow, seq |-> pkt.seq]}
    /\ \/ DeliverInOrder(pkt)
       \/ DeliverRaises(pkt)
       \/ BufferFuture(pkt)
       \/ DropStale(pkt)
    /\ UNCHANGED <<sender, packets>>

(* datagram_received, Type 1.                                              *)
ReceiveAck(a) ==
    /\ unacked' = [unacked EXCEPT ![a.flow] = {e \in @ : e.seq # a.seq}]
    /\ UNCHANGED <<sendSeq, sent, receiver, packets, acks>>

Outstanding(p) ==
    UNION {{[flow |-> f, seq |-> e.seq, payload |-> e.payload] :
               e \in unacked[f]} : f \in {g \in Flow : g[1] = p}}

(* FAULT: the timestamp is renewed but the packet is not sent.             *)
RetransmitNothing(p, expired) ==
    /\ expired \subseteq Outstanding(p)
    /\ UNCHANGED vars

(* One pass of p's _retransmit_loop, over all its peers: the expired       *)
(* entries go out again.                                                   *)
RetransmitPass(p, expired) ==
    /\ expired \subseteq Outstanding(p)
    /\ packets' = packets \cup expired
    /\ UNCHANGED <<sender, receiver, acks>>

LosePacket(pkt) == /\ packets' = packets \ {pkt}
                   /\ UNCHANGED <<sender, receiver, acks>>

LoseAck(a) == /\ acks' = acks \ {a}
              /\ UNCHANGED <<sender, receiver, packets>>

Sender == {f[1] : f \in Flow}

Next ==
    \/ \E f \in Flow, m \in Payload : SendData(f, m)
    \/ \E pkt \in packets : ReceiveData(pkt)
    \/ \E a \in acks : ReceiveAck(a)
    \/ \E p \in Sender : \E expired \in SUBSET Outstanding(p) :
           RetransmitPass(p, expired)
    \/ \E pkt \in packets : LosePacket(pkt)
    \/ \E a \in acks : LoseAck(a)

Spec == Init /\ [][Next]_vars

-----------------------------------------------------------------------------
(* Fairness.  The retransmit loop runs for ever and resends an entry that  *)
(* stays unacknowledged; a packet that is put on the tunnel again and      *)
(* again is eventually received, and so is an acknowledgement.             *)

Resend(f, s) == \E expired \in SUBSET Outstanding(f[1]) :
                    /\ \E pkt \in expired : pkt.flow = f /\ pkt.seq = s
                    /\ RetransmitPass(f[1], expired)

Arrive(f, s) == \E pkt \in packets :
                    pkt.flow = f /\ pkt.seq = s /\ ReceiveData(pkt)

AckArrives(f, s) == \E a \in acks :
                        a.flow = f /\ a.seq = s /\ ReceiveAck(a)

Fairness == \A f \in Flow, s \in SeqNo : /\ WF_vars(Resend(f, s))
                                         /\ SF_vars(Arrive(f, s))
                                         /\ SF_vars(AckArrives(f, s))

LiveSpec == Spec /\ Fairness

-----------------------------------------------------------------------------

TypeOK ==
    /\ sendSeq \in [Flow -> 0 .. MaxSend]
    /\ unacked \in [Flow -> SUBSET Entry]
    /\ recvSeq \in [Flow -> 0 .. MaxSend]
    /\ recvBuffer \in [Flow -> SUBSET Entry]
    /\ packets \subseteq Packet
    /\ acks \subseteq AckPacket
    /\ sent \in [Flow -> Seq(Payload)]
    /\ delivered \in [Flow -> Seq(Payload)]
    /\ failures \in 0 .. MaxFail

(* The receiving application has got exactly the first recv_seq datagrams  *)
(* of the flow, in the order they were sent, each once: no loss, duplicate,*)
(* reordering, buffering or failed delivery can put a wrong datagram in.   *)
(* ("STRICT IN-ORDER DELIVERY LOGIC", mesh_proxy.py:73.)                   *)
InOrder ==
    \A f \in Flow :
        /\ Len(delivered[f]) = recvSeq[f]
        /\ recvSeq[f] <= Len(sent[f])
        /\ \A i \in 1 .. recvSeq[f] : delivered[f][i] = sent[f][i]

(* A datagram the receiver still needs is in the sender's unacked or in    *)
(* the receiver's recv_buffer, as long as no delivery has raised: an ACK   *)
(* frees the sender's copy only when the receiver holds its own.           *)
NothingLost ==
    failures = 0 =>
        \A f \in Flow : \A s \in recvSeq[f] .. sendSeq[f] - 1 :
            s \in Keys(unacked[f]) \cup Keys(recvBuffer[f])

(* recv_buffer never keeps an entry that recv_seq has passed or reached:   *)
(* such an entry would never be looked at again.                           *)
BufferAhead ==
    \A f \in Flow : \A e \in recvBuffer[f] :
        /\ recvSeq[f] < e.seq
        /\ e.seq < sendSeq[f]

(* Every entry of unacked is eventually acknowledged and deleted, so the   *)
(* retransmit loop falls silent.                                           *)
EventuallyAcked ==
    \A f \in Flow, s \in SeqNo :
        (s \in Keys(unacked[f])) ~> (s \notin Keys(unacked[f]))

(* Every datagram accepted from the sending app reaches the receiving app. *)
EventuallyDelivered ==
    \A f \in Flow, s \in 1 .. MaxSend :
        (Len(sent[f]) >= s) ~> (Len(delivered[f]) >= s)

Fifo == INSTANCE FifoChannel WITH Flow <- Flow, Payload <- Payload,
                                  sent <- sent, delivered <- delivered

(* The sidecars implement the reliable FIFO channel the servers rely on.   *)
ImplementsFifo == Fifo!LiveSpec

=============================================================================
