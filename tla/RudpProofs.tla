----------------------------- MODULE RudpProofs -----------------------------
(***************************************************************************)
(* Proofs about Rudp, for every set of flows, every set of payloads and    *)
(* every bound: the receiving application gets the sent datagrams in       *)
(* order and each once, nothing that is still needed is dropped while no   *)
(* delivery raises, and every step is a step of FifoChannel or a stutter.  *)
(***************************************************************************)
EXTENDS Rudp, SequenceTheorems, TLAPS

(* The sender has numbered its datagrams 0, 1, 2, ... without a hole, and  *)
(* every copy of a datagram, in unacked, on the tunnel or in recv_buffer,  *)
(* is the datagram of that number.                                         *)
IsCopy(e, all) == e.seq < Len(all) /\ e.payload = all[e.seq + 1]
AreCopies(dict, all) == \A e \in dict : IsCopy(e, all)

CopiesInv ==
    /\ \A f \in Flow : /\ Len(sent[f]) = sendSeq[f]
                       /\ AreCopies(unacked[f], sent[f])
                       /\ AreCopies(recvBuffer[f], sent[f])
                       /\ \A e \in recvBuffer[f] : recvSeq[f] < e.seq
    /\ \A pkt \in packets : IsCopy(pkt, sent[pkt.flow])

(* An acknowledgement on the tunnel names a datagram its receiver has      *)
(* delivered or holds in recv_buffer.                                      *)
AckedInv ==
    failures = 0 =>
        \A a \in acks : \/ a.seq < recvSeq[a.flow]
                        \/ a.seq \in Keys(recvBuffer[a.flow])

IndInv == TypeOK /\ CopiesInv /\ InOrder /\ AckedInv /\ NothingLost

-----------------------------------------------------------------------------
(* The helpers on the dicts.                                               *)

LEMMA PayloadAtIsEntry ==
    ASSUME NEW dict, NEW s \in Keys(dict)
    PROVE  \E e \in dict : e.seq = s /\ PayloadAt(dict, s) = e.payload
BY DEF Keys, PayloadAt

LEMMA AssignKeys ==
    ASSUME NEW dict, NEW s, NEW m
    PROVE  Keys(Assign(dict, s, m)) = Keys(dict) \cup {s}
<1> DEFINE new == [seq |-> s, payload |-> m]
           d2 == Assign(dict, s, m)
<1>1. \A e : e \in d2 <=> (e \in dict /\ e.seq # s) \/ e = new
  BY DEF Assign
<1>2. new.seq = s
  OBVIOUS
<1>3. \A k : k \in Keys(dict) <=> \E e \in dict : e.seq = k
  BY DEF Keys
<1>4. \A k : k \in Keys(d2) <=> \E e \in d2 : e.seq = k
  BY DEF Keys
<1> HIDE DEF new, d2
<1>5. \A k : k \in Keys(d2) <=> k \in Keys(dict) \/ k = s
  BY <1>1, <1>2, <1>3, <1>4
<1> QED BY <1>5 DEF d2

LEMMA AssignEntries ==
    ASSUME NEW dict, NEW s, NEW m, NEW e \in Assign(dict, s, m)
    PROVE  e \in dict \/ (e.seq = s /\ e.payload = m)
BY DEF Assign

LEMMA FilterKeys ==
    ASSUME NEW dict, NEW n
    PROVE  /\ Keys({e \in dict : e.seq # n}) = Keys(dict) \ {n}
           /\ Keys({e \in dict : e.seq > n}) = {k \in Keys(dict) : k > n}
BY DEF Keys

-----------------------------------------------------------------------------
(* What the in-order branch does to the receiver, whether or not it raises *)

LEMMA ExtendPrefix ==
    ASSUME NEW S, NEW all \in Seq(S), NEW got \in Seq(S), NEW run \in Seq(S),
           Len(got) + Len(run) <= Len(all),
           \A i \in 1 .. Len(got) : got[i] = all[i],
           \A i \in 1 .. Len(run) : run[i] = all[Len(got) + i]
    PROVE  /\ got \o run \in Seq(S)
           /\ Len(got \o run) = Len(got) + Len(run)
           /\ \A i \in 1 .. Len(got) + Len(run) : (got \o run)[i] = all[i]
<1>1. /\ got \o run \in Seq(S)
      /\ Len(got \o run) = Len(got) + Len(run)
      /\ \A i \in 1 .. Len(got) + Len(run) : (got \o run)[i] =
             IF i <= Len(got) THEN got[i] ELSE run[i - Len(got)]
  BY ConcatProperties
<1>2. Len(got) \in Nat /\ Len(run) \in Nat
  OBVIOUS
<1>3. ASSUME NEW i \in 1 .. Len(got) + Len(run), i > Len(got)
      PROVE  run[i - Len(got)] = all[i]
  <2>1. i - Len(got) \in 1 .. Len(run) /\ Len(got) + (i - Len(got)) = i
    BY <1>2, <1>3
  <2> QED BY <2>1
<1> QED BY <1>1, <1>2, <1>3

LEMMA FunctionIsSeq ==
    ASSUME NEW S, NEW n \in Nat, NEW r \in [1 .. n -> S]
    PROVE  r \in Seq(S) /\ Len(r) = n
OBVIOUS

LEMMA RunIsGenuine ==
    ASSUME NEW S, NEW all \in Seq(S), NEW dict, NEW s \in Nat, NEW stop \in Nat,
           NEW m \in S, s < Len(all), m = all[s + 1],
           s <= stop, s + 1 .. stop - 1 \subseteq Keys(dict),
           AreCopies(dict, all)
    PROVE  /\ Run(s, m, dict, stop) \in Seq(S)
           /\ Len(Run(s, m, dict, stop)) = stop - s
           /\ stop <= Len(all)
           /\ \A i \in 1 .. stop - s : Run(s, m, dict, stop)[i] = all[s + i]
<1> DEFINE run == Run(s, m, dict, stop)
<1>1. stop <= Len(all)
  <2>1. CASE stop <= s + 1
    BY <2>1
  <2>2. CASE stop > s + 1
    <3>1. stop - 1 \in Keys(dict)
      BY <2>2
    <3>2. PICK e \in dict : e.seq = stop - 1
      BY <3>1 DEF Keys
    <3> QED BY <3>2 DEF AreCopies, IsCopy
  <2> QED BY <2>1, <2>2
<1>2. ASSUME NEW i \in 1 .. stop - s
      PROVE  run[i] = all[s + i]
  <2>1. CASE i = 1
    BY <2>1 DEF Run
  <2>2. CASE i # 1
    <3>1. s + i - 1 \in Keys(dict)
      BY <2>2
    <3>2. PICK e \in dict :
              e.seq = s + i - 1 /\ PayloadAt(dict, s + i - 1) = e.payload
      BY <3>1, PayloadAtIsEntry
    <3> QED BY <2>2, <3>2 DEF Run, AreCopies, IsCopy
  <2> QED BY <2>1, <2>2
<1>3. \A i \in 1 .. stop - s : run[i] \in S
  BY <1>1, <1>2
<1>4. run = [i \in 1 .. stop - s |-> run[i]]
  BY DEF Run
<1>5. stop - s \in Nat
  OBVIOUS
<1> HIDE DEF run
<1>6. run \in [1 .. stop - s -> S]
  BY <1>3, <1>4
<1>7. run \in Seq(S) /\ Len(run) = stop - s
  BY <1>5, <1>6, FunctionIsSeq
<1> QED BY <1>1, <1>2, <1>7 DEF run

LEMMA HandOverExtends ==
    \A pkt \in packets : \A stop \in pkt.seq .. MaxSend :
        /\ IndInv
        /\ pkt.seq = recvSeq[pkt.flow]
        /\ pkt.seq + 1 .. stop - 1 \subseteq Keys(recvBuffer[pkt.flow])
        /\ HandOver(pkt, stop)
        => /\ stop <= sendSeq[pkt.flow]
           /\ delivered' \in [Flow -> Seq(Payload)]
           /\ \A g \in Flow : g # pkt.flow => delivered'[g] = delivered[g]
           /\ Len(delivered'[pkt.flow]) = stop
           /\ \A i \in 1 .. stop : delivered'[pkt.flow][i] = sent[pkt.flow][i]
<1>0. SUFFICES ASSUME NEW pkt \in packets, NEW stop \in pkt.seq .. MaxSend,
                      IndInv,
                      pkt.seq = recvSeq[pkt.flow],
                      pkt.seq + 1 .. stop - 1 \subseteq Keys(recvBuffer[pkt.flow]),
                      HandOver(pkt, stop)
               PROVE  /\ stop <= sendSeq[pkt.flow]
                      /\ delivered' \in [Flow -> Seq(Payload)]
                      /\ \A g \in Flow : g # pkt.flow => delivered'[g] = delivered[g]
                      /\ Len(delivered'[pkt.flow]) = stop
                      /\ \A i \in 1 .. stop :
                             delivered'[pkt.flow][i] = sent[pkt.flow][i]
  BY Zenon
<1> DEFINE f == pkt.flow
           s == pkt.seq
           m == pkt.payload
           all == sent[f]
           got == delivered[f]
           dict == recvBuffer[f]
           run == Run(s, m, dict, stop)
<1>1. /\ f \in Flow /\ s \in 0 .. MaxSend - 1 /\ m \in Payload
      /\ s < sendSeq[f] /\ m = all[s + 1]
      /\ s = recvSeq[f] /\ s + 1 .. stop - 1 \subseteq Keys(dict)
      /\ stop \in s .. MaxSend
  BY <1>0 DEF IndInv, TypeOK, CopiesInv, IsCopy, Packet, SeqNo
<1>2. delivered' = [delivered EXCEPT ![f] = got \o run]
  BY <1>0 DEF HandOver
<1> HIDE DEF f, s, m
<1>3. s \in Nat /\ stop \in Nat /\ s <= stop
  BY <1>1, MaxSendAssumption
<1>4. /\ all \in Seq(Payload) /\ Len(all) = sendSeq[f]
      /\ got \in Seq(Payload) /\ Len(got) = s
      /\ \A i \in 1 .. Len(got) : got[i] = all[i]
      /\ AreCopies(dict, all)
  BY <1>0, <1>1 DEF IndInv, TypeOK, CopiesInv, InOrder
<1>5. delivered \in [Flow -> Seq(Payload)]
  BY <1>0 DEF IndInv, TypeOK
<1>6. s < Len(all) /\ all[s + 1] = m
  BY <1>1, <1>4
<1> HIDE DEF all, got, dict
<1>7. /\ run \in Seq(Payload)
      /\ Len(run) = stop - s
      /\ stop <= Len(all)
      /\ \A i \in 1 .. stop - s : run[i] = all[s + i]
  <2>1. /\ all \in Seq(Payload) /\ s \in Nat /\ stop \in Nat /\ m \in Payload
        /\ s < Len(all) /\ m = all[s + 1] /\ s <= stop
    BY <1>1, <1>3, <1>4, <1>6
  <2>2. s + 1 .. stop - 1 \subseteq Keys(dict)
    BY <1>1
  <2>3. AreCopies(dict, all)
    BY <1>4
  <2> QED BY <2>1, <2>2, <2>3, RunIsGenuine
<1> HIDE DEF run
<1>8. /\ Len(got) + Len(run) = stop
      /\ \A i \in 1 .. Len(run) : run[i] = all[Len(got) + i]
  <2>1. Len(got) = s /\ Len(run) = stop - s
    BY <1>4, <1>7
  <2>2. s + (stop - s) = stop
    BY <1>3
  <2> QED BY <2>1, <2>2, <1>7
<1>9. /\ got \o run \in Seq(Payload)
      /\ Len(got \o run) = Len(got) + Len(run)
      /\ \A i \in 1 .. Len(got) + Len(run) : (got \o run)[i] = all[i]
  <2>1. all \in Seq(Payload) /\ got \in Seq(Payload) /\ run \in Seq(Payload)
    BY <1>4, <1>7
  <2>2. Len(got) + Len(run) <= Len(all)
    BY <1>7, <1>8
  <2>3. \A i \in 1 .. Len(got) : got[i] = all[i]
    BY <1>4
  <2>4. \A i \in 1 .. Len(run) : run[i] = all[Len(got) + i]
    BY <1>8
  <2> QED BY <2>1, <2>2, <2>3, <2>4, ExtendPrefix
<1>10. delivered'[f] = got \o run
  BY <1>1, <1>2, <1>5
<1>11. delivered' \in [Flow -> Seq(Payload)]
  BY <1>2, <1>5, <1>9
<1>12. \A g \in Flow : g # f => delivered'[g] = delivered[g]
  BY <1>2, <1>5
<1> QED BY <1>4, <1>7, <1>8, <1>9, <1>10, <1>11, <1>12 DEF f, all

-----------------------------------------------------------------------------
(* The invariant is kept, handler by handler.                              *)

LEMMA SendDataKeeps ==
    ASSUME IndInv, NEW f \in Flow, NEW m \in Payload, SendData(f, m)
    PROVE  IndInv'
<1> DEFINE n == sendSeq[f]
<1> USE MaxSendAssumption DEF IndInv
<1>1. n \in 0 .. MaxSend - 1 /\ n = Len(sent[f]) /\ sent[f] \in Seq(Payload)
  BY DEF SendData, TypeOK, CopiesInv
<1>2. /\ sent' = [sent EXCEPT ![f] = Append(sent[f], m)]
      /\ sendSeq' = [sendSeq EXCEPT ![f] = n + 1]
      /\ unacked' = [unacked EXCEPT ![f] = Assign(unacked[f], n, m)]
      /\ packets' = packets \cup {[flow |-> f, seq |-> n, payload |-> m]}
      /\ UNCHANGED <<recvSeq, recvBuffer, delivered, failures, acks>>
  BY DEF SendData, receiver
<1>3. /\ Append(sent[f], m) \in Seq(Payload)
      /\ Len(Append(sent[f], m)) = n + 1
      /\ \A i \in 1 .. n : Append(sent[f], m)[i] = sent[f][i]
      /\ Append(sent[f], m)[n + 1] = m
  BY <1>1, AppendProperties
<1>4. /\ sent'[f] = Append(sent[f], m) /\ sendSeq'[f] = n + 1
      /\ \A g \in Flow : g # f => sent'[g] = sent[g] /\ sendSeq'[g] = sendSeq[g]
  BY <1>2 DEF TypeOK
<1>5. TypeOK'
  <2>1. Assign(unacked[f], n, m) \subseteq Entry
    BY <1>1 DEF TypeOK, Assign, Entry, SeqNo
  <2>2. packets' \subseteq Packet
    BY <1>1, <1>2 DEF TypeOK, Packet, SeqNo
  <2> QED BY <1>1, <1>2, <1>3, <2>1, <2>2 DEF TypeOK
<1>6. \A g \in Flow : \A e : e.seq \in Nat /\ IsCopy(e, sent[g]) => IsCopy(e, sent'[g])
  <2> SUFFICES ASSUME NEW g \in Flow, NEW e, e.seq \in Nat, IsCopy(e, sent[g])
               PROVE  IsCopy(e, sent'[g])
    OBVIOUS
  <2>1. CASE g # f
    BY <2>1, <1>4
  <2>2. CASE g = f
    <3>1. e.seq < n /\ e.payload = sent[f][e.seq + 1]
      BY <2>2, <1>1 DEF IsCopy
    <3>2. e.seq + 1 \in 1 .. n
      BY <3>1, <1>1
    <3>3. sent'[f][e.seq + 1] = sent[f][e.seq + 1]
      BY <3>2, <1>3, <1>4
    <3>4. e.seq < n + 1
      BY <3>1, <1>1
    <3> QED BY <2>2, <3>1, <3>3, <3>4, <1>3, <1>4 DEF IsCopy
  <2> QED BY <2>1, <2>2
<1>7. \A e : e.seq = n /\ e.payload = m => IsCopy(e, sent'[f])
  BY <1>1, <1>3, <1>4 DEF IsCopy
<1>8. CopiesInv'
  <2>1. \A g \in Flow : Len(sent'[g]) = sendSeq'[g]
    BY <1>3, <1>4 DEF CopiesInv
  <2>2. \A g \in Flow : AreCopies(unacked'[g], sent'[g])
    <3> SUFFICES ASSUME NEW g \in Flow, NEW e \in unacked'[g]
                 PROVE  IsCopy(e, sent'[g])
      BY DEF AreCopies
    <3>1. e \in unacked[g] => IsCopy(e, sent'[g])
      BY <1>6 DEF CopiesInv, AreCopies, TypeOK, Entry, SeqNo
    <3>2. e \notin unacked[g] => g = f /\ e.seq = n /\ e.payload = m
      BY <1>2, AssignEntries DEF TypeOK
    <3> QED BY <3>1, <3>2, <1>7
  <2>3. \A g \in Flow : AreCopies(recvBuffer'[g], sent'[g])
    BY <1>2, <1>6 DEF CopiesInv, AreCopies, TypeOK, Entry, SeqNo
  <2>4. \A g \in Flow : \A e \in recvBuffer'[g] : recvSeq'[g] < e.seq
    BY <1>2 DEF CopiesInv
  <2>5. \A pkt \in packets' : IsCopy(pkt, sent'[pkt.flow])
    <3> SUFFICES ASSUME NEW pkt \in packets' PROVE IsCopy(pkt, sent'[pkt.flow])
      OBVIOUS
    <3>1. ASSUME pkt \in packets PROVE IsCopy(pkt, sent'[pkt.flow])
      <4>1. pkt.flow \in Flow /\ pkt.seq \in Nat
        BY <3>1 DEF TypeOK, Packet, SeqNo
      <4>2. IsCopy(pkt, sent[pkt.flow])
        BY <3>1 DEF CopiesInv
      <4> QED BY <4>1, <4>2, <1>6
    <3>2. pkt \notin packets => pkt = [flow |-> f, seq |-> n, payload |-> m]
      BY <1>2
    <3> QED BY <3>1, <3>2, <1>7
  <2> QED BY <2>1, <2>2, <2>3, <2>4, <2>5 DEF CopiesInv
<1>9. InOrder'
  <2> SUFFICES ASSUME NEW g \in Flow
               PROVE  /\ Len(delivered'[g]) = recvSeq'[g]
                      /\ recvSeq'[g] <= Len(sent'[g])
                      /\ \A i \in 1 .. recvSeq'[g] : delivered'[g][i] = sent'[g][i]
    BY DEF InOrder
  <2>1. CASE g # f
    BY <2>1, <1>2, <1>4 DEF InOrder
  <2>2. CASE g = f
    <3>1. recvSeq[f] \in Nat /\ recvSeq[f] <= n
      BY <1>1 DEF InOrder, TypeOK
    <3>2. \A i \in 1 .. recvSeq[f] : sent'[f][i] = sent[f][i]
      BY <3>1, <1>1, <1>3, <1>4
    <3> QED BY <2>2, <3>1, <3>2, <1>1, <1>2, <1>3, <1>4 DEF InOrder
  <2> QED BY <2>1, <2>2
<1>10. AckedInv'
  BY <1>2 DEF AckedInv
<1>11. NothingLost'
  <2> SUFFICES ASSUME failures' = 0, NEW g \in Flow,
                      NEW s \in recvSeq'[g] .. sendSeq'[g] - 1
               PROVE  s \in Keys(unacked'[g]) \cup Keys(recvBuffer'[g])
    BY DEF NothingLost
  <2>1. CASE g # f
    BY <2>1, <1>2, <1>4 DEF NothingLost, TypeOK
  <2>2. CASE g = f
    <3>1. Keys(unacked'[f]) = Keys(unacked[f]) \cup {n}
      BY <1>2, AssignKeys DEF TypeOK
    <3>2. s = n \/ s \in recvSeq[f] .. n - 1
      BY <2>2, <1>1, <1>2, <1>4 DEF TypeOK
    <3> QED BY <2>2, <3>1, <3>2, <1>2 DEF NothingLost
  <2> QED BY <2>1, <2>2
<1> QED BY <1>5, <1>8, <1>9, <1>10, <1>11

LEMMA DeliverKeeps ==
    ASSUME IndInv, NEW pkt \in packets, ReceiveData(pkt),
           DeliverInOrder(pkt) \/ DeliverRaises(pkt)
    PROVE  IndInv'
<1> DEFINE f == pkt.flow
<1> USE MaxSendAssumption, MaxFailAssumption DEF IndInv
<1>1. f \in Flow /\ pkt.seq \in SeqNo /\ pkt.seq = recvSeq[f]
  BY DEF TypeOK, Packet, DeliverInOrder, DeliverRaises
<1>2. PICK stop \in pkt.seq .. MaxSend :
         /\ pkt.seq + 1 .. stop - 1 \subseteq Keys(recvBuffer[f])
         /\ HandOver(pkt, stop)
         /\ \/ /\ stop > pkt.seq
               /\ stop \notin Keys(recvBuffer[f])
               /\ UNCHANGED failures
            \/ failures < MaxFail /\ failures' = failures + 1
  <2>1. CASE DeliverInOrder(pkt)
    <3>1. PICK stop \in pkt.seq + 1 .. MaxSend :
             /\ pkt.seq + 1 .. stop - 1 \subseteq Keys(recvBuffer[f])
             /\ stop \notin Keys(recvBuffer[f])
             /\ HandOver(pkt, stop)
      BY <2>1 DEF DeliverInOrder
    <3>2. stop \in pkt.seq .. MaxSend /\ stop > pkt.seq
      BY <1>1 DEF SeqNo
    <3> QED BY <2>1, <3>1, <3>2 DEF DeliverInOrder
  <2>2. CASE DeliverRaises(pkt)
    <3>1. PICK stop \in pkt.seq .. MaxSend - 1 :
             /\ pkt.seq + 1 .. stop \subseteq Keys(recvBuffer[f])
             /\ HandOver(pkt, stop)
      BY <2>2 DEF DeliverRaises
    <3>2. stop \in pkt.seq .. MaxSend /\ pkt.seq + 1 .. stop - 1 \subseteq pkt.seq + 1 .. stop
      BY <1>1 DEF SeqNo
    <3> QED BY <2>2, <3>1, <3>2 DEF DeliverRaises
  <2> QED BY <2>1, <2>2
<1>3. /\ stop <= sendSeq[f]
      /\ delivered' \in [Flow -> Seq(Payload)]
      /\ \A g \in Flow : g # f => delivered'[g] = delivered[g]
      /\ Len(delivered'[f]) = stop
      /\ \A i \in 1 .. stop : delivered'[f][i] = sent[f][i]
  BY <1>1, <1>2, HandOverExtends
<1>4. /\ recvSeq' = [recvSeq EXCEPT ![f] = stop]
      /\ recvBuffer' = [recvBuffer EXCEPT ![f] = {e \in recvBuffer[f] : e.seq > stop}]
      /\ acks' = acks \cup {[flow |-> f, seq |-> pkt.seq]}
      /\ UNCHANGED <<sendSeq, unacked, sent, packets>>
  BY <1>2 DEF HandOver, ReceiveData, sender
<1>5. stop \in 0 .. MaxSend /\ pkt.seq <= stop
  BY <1>1, <1>2 DEF SeqNo
<1>6. /\ recvSeq'[f] = stop
      /\ recvBuffer'[f] = {e \in recvBuffer[f] : e.seq > stop}
      /\ \A g \in Flow : g # f => /\ recvSeq'[g] = recvSeq[g]
                                  /\ recvBuffer'[g] = recvBuffer[g]
  BY <1>1, <1>4 DEF TypeOK
<1>7. Keys(recvBuffer'[f]) = {k \in Keys(recvBuffer[f]) : k > stop}
  BY <1>6, FilterKeys
<1>8. TypeOK'
  <2>1. recvBuffer' \in [Flow -> SUBSET Entry]
    BY <1>4 DEF TypeOK
  <2>2. acks' \subseteq AckPacket
    BY <1>1, <1>4 DEF TypeOK, AckPacket
  <2>3. failures' \in 0 .. MaxFail
    BY <1>2 DEF TypeOK
  <2>4. recvSeq' \in [Flow -> 0 .. MaxSend]
    BY <1>4, <1>5 DEF TypeOK
  <2> QED BY <2>1, <2>2, <2>3, <2>4, <1>3, <1>4 DEF TypeOK
<1>9. CopiesInv'
  <2>1. \A g \in Flow : AreCopies(recvBuffer'[g], sent[g])
    BY <1>6 DEF CopiesInv, AreCopies
  <2>2. \A g \in Flow : \A e \in recvBuffer'[g] : recvSeq'[g] < e.seq
    BY <1>6, <1>5 DEF CopiesInv, TypeOK, Entry, SeqNo
  <2> QED BY <2>1, <2>2, <1>4 DEF CopiesInv
<1>10. InOrder'
  <2>1. sendSeq[f] = Len(sent[f])
    BY <1>1 DEF CopiesInv
  <2> QED BY <2>1, <1>3, <1>4, <1>6 DEF InOrder
<1>11. AckedInv'
  <2> SUFFICES ASSUME failures' = 0, NEW a \in acks'
               PROVE  a.seq < recvSeq'[a.flow] \/ a.seq \in Keys(recvBuffer'[a.flow])
    BY DEF AckedInv
  <2>1. failures = 0 /\ stop > pkt.seq /\ stop \notin Keys(recvBuffer[f])
    BY <1>2 DEF TypeOK
  <2>2. CASE a \notin acks
    <3>1. a.flow = f /\ a.seq = pkt.seq
      BY <2>2, <1>4
    <3> QED BY <3>1, <2>1, <1>6
  <2>3. CASE a \in acks /\ a.flow = f
    <3>1. a.seq \in Nat /\ recvSeq[f] \in Nat /\ recvSeq[f] <= stop
      BY <2>3, <1>1, <1>5 DEF TypeOK, AckPacket, SeqNo
    <3>2. a.seq < recvSeq[f] \/ a.seq \in Keys(recvBuffer[f])
      BY <2>1, <2>3 DEF AckedInv
    <3>3. CASE a.seq < recvSeq[f]
      BY <3>1, <3>3, <2>3, <1>5, <1>6
    <3>4. CASE a.seq \in Keys(recvBuffer[f])
      <4>1. a.seq < stop \/ a.seq > stop
        BY <3>1, <3>4, <2>1, <1>5
      <4> QED BY <4>1, <3>4, <2>3, <1>6, <1>7
    <3> QED BY <3>2, <3>3, <3>4
  <2>4. CASE a \in acks /\ a.flow # f
    BY <2>1, <2>4, <1>6 DEF AckedInv, TypeOK, AckPacket
  <2> QED BY <2>2, <2>3, <2>4
<1>12. NothingLost'
  <2> SUFFICES ASSUME failures' = 0, NEW g \in Flow,
                      NEW s \in recvSeq'[g] .. sendSeq'[g] - 1
               PROVE  s \in Keys(unacked'[g]) \cup Keys(recvBuffer'[g])
    BY DEF NothingLost
  <2>1. failures = 0 /\ stop > pkt.seq /\ stop \notin Keys(recvBuffer[f])
    BY <1>2 DEF TypeOK
  <2>2. CASE g # f
    BY <2>1, <2>2, <1>4, <1>6 DEF NothingLost
  <2>3. CASE g = f
    <3>1. s \in recvSeq[f] .. sendSeq[f] - 1 /\ s >= stop
      BY <2>3, <1>1, <1>4, <1>5, <1>6 DEF TypeOK, SeqNo
    <3>2. s \in Keys(unacked[f]) \cup Keys(recvBuffer[f])
      BY <3>1, <2>1, <1>1 DEF NothingLost
    <3>3. s \in Keys(recvBuffer[f]) => s > stop
      BY <3>1, <2>1, <1>5
    <3> QED BY <2>3, <3>2, <3>3, <1>4, <1>7
  <2> QED BY <2>2, <2>3
<1> QED BY <1>8, <1>9, <1>10, <1>11, <1>12

LEMMA BufferFutureKeeps ==
    ASSUME IndInv, NEW pkt \in packets, ReceiveData(pkt), BufferFuture(pkt)
    PROVE  IndInv'
<1> DEFINE f == pkt.flow
           d == Assign(recvBuffer[f], pkt.seq, pkt.payload)
<1> USE MaxSendAssumption DEF IndInv
<1>1. /\ f \in Flow /\ pkt.seq \in SeqNo /\ pkt.payload \in Payload
      /\ pkt.seq > recvSeq[f] /\ IsCopy(pkt, sent[f])
  BY DEF TypeOK, Packet, BufferFuture, CopiesInv
<1>2. /\ recvBuffer' = [recvBuffer EXCEPT ![f] = d]
      /\ acks' = acks \cup {[flow |-> f, seq |-> pkt.seq]}
      /\ UNCHANGED <<sendSeq, unacked, sent, packets, recvSeq, delivered, failures>>
  BY DEF BufferFuture, ReceiveData, sender
<1>3. /\ recvBuffer'[f] = d
      /\ \A g \in Flow : g # f => recvBuffer'[g] = recvBuffer[g]
  BY <1>1, <1>2 DEF TypeOK
<1>4. Keys(d) = Keys(recvBuffer[f]) \cup {pkt.seq}
  BY AssignKeys
<1>5. \A e \in d : e \in recvBuffer[f] \/ (e.seq = pkt.seq /\ e.payload = pkt.payload)
  BY AssignEntries
<1>6. d \subseteq Entry
  BY <1>1 DEF Assign, Entry, TypeOK
<1>7. TypeOK'
  <2>1. acks' \subseteq AckPacket
    BY <1>1, <1>2 DEF TypeOK, AckPacket
  <2> QED BY <2>1, <1>2, <1>6 DEF TypeOK
<1> HIDE DEF d
<1>8. CopiesInv'
  <2>1. \A g \in Flow : AreCopies(recvBuffer'[g], sent[g])
    BY <1>1, <1>3, <1>5 DEF CopiesInv, AreCopies, IsCopy
  <2>2. \A g \in Flow : \A e \in recvBuffer'[g] : recvSeq[g] < e.seq
    BY <1>1, <1>3, <1>5 DEF CopiesInv
  <2> QED BY <2>1, <2>2, <1>2 DEF CopiesInv
<1>9. InOrder'
  BY <1>2 DEF InOrder
<1>10. AckedInv'
  <2> SUFFICES ASSUME failures' = 0, NEW a \in acks'
               PROVE  a.seq < recvSeq'[a.flow] \/ a.seq \in Keys(recvBuffer'[a.flow])
    BY DEF AckedInv
  <2>1. CASE a \notin acks
    BY <2>1, <1>2, <1>3, <1>4
  <2>2. CASE a \in acks
    <3>1. a.flow \in Flow
      BY <2>2 DEF TypeOK, AckPacket
    <3> QED BY <2>2, <3>1, <1>2, <1>3, <1>4 DEF AckedInv
  <2> QED BY <2>1, <2>2
<1>11. NothingLost'
  BY <1>2, <1>3, <1>4 DEF NothingLost
<1> QED BY <1>7, <1>8, <1>9, <1>10, <1>11

LEMMA DropStaleKeeps ==
    ASSUME IndInv, NEW pkt \in packets, ReceiveData(pkt), DropStale(pkt)
    PROVE  IndInv'
<1> USE DEF IndInv
<1>1. pkt.flow \in Flow /\ pkt.seq \in SeqNo /\ pkt.seq < recvSeq[pkt.flow]
  BY DEF TypeOK, Packet, DropStale
<1>2. /\ acks' = acks \cup {[flow |-> pkt.flow, seq |-> pkt.seq]}
      /\ UNCHANGED <<sendSeq, unacked, sent, packets, recvSeq, recvBuffer,
                     delivered, failures>>
  BY DEF DropStale, ReceiveData, sender, receiver
<1>3. TypeOK'
  <2>1. acks' \subseteq AckPacket
    BY <1>1, <1>2 DEF TypeOK, AckPacket
  <2> QED BY <2>1, <1>2 DEF TypeOK
<1>4. CopiesInv' /\ InOrder' /\ NothingLost'
  BY <1>2 DEF CopiesInv, InOrder, NothingLost
<1>5. AckedInv'
  BY <1>1, <1>2 DEF AckedInv
<1> QED BY <1>3, <1>4, <1>5

LEMMA ReceiveAckKeeps ==
    ASSUME IndInv, NEW a \in acks, ReceiveAck(a)
    PROVE  IndInv'
<1> USE DEF IndInv
<1>1. a.flow \in Flow /\ a.seq \in SeqNo
  BY DEF TypeOK, AckPacket
<1>2. /\ unacked' = [unacked EXCEPT ![a.flow] = {e \in @ : e.seq # a.seq}]
      /\ UNCHANGED <<sendSeq, sent, recvSeq, recvBuffer, packets, acks,
                     delivered, failures>>
  BY DEF ReceiveAck, receiver
<1>3. /\ unacked'[a.flow] = {e \in unacked[a.flow] : e.seq # a.seq}
      /\ \A g \in Flow : g # a.flow => unacked'[g] = unacked[g]
  BY <1>1, <1>2 DEF TypeOK
<1>4. TypeOK'
  BY <1>2 DEF TypeOK
<1>5. CopiesInv'
  BY <1>2, <1>3 DEF CopiesInv, AreCopies
<1>6. InOrder' /\ AckedInv'
  BY <1>2 DEF InOrder, AckedInv
<1>7. NothingLost'
  <2> SUFFICES ASSUME failures' = 0, NEW g \in Flow,
                      NEW s \in recvSeq'[g] .. sendSeq'[g] - 1
               PROVE  s \in Keys(unacked'[g]) \cup Keys(recvBuffer'[g])
    BY DEF NothingLost
  <2>1. s \in Keys(unacked[g]) \cup Keys(recvBuffer[g])
    BY <1>2 DEF NothingLost
  <2>2. CASE g # a.flow
    BY <2>1, <2>2, <1>2, <1>3
  <2>3. CASE g = a.flow
    <3>1. Keys(unacked'[g]) = Keys(unacked[g]) \ {a.seq}
      BY <2>3, <1>3, FilterKeys
    <3>2. s = a.seq => s \in Keys(recvBuffer[g])
      BY <2>3, <1>2, <1>1 DEF AckedInv, TypeOK, SeqNo
    <3> QED BY <2>1, <3>1, <3>2, <1>2
  <2> QED BY <2>2, <2>3
<1> QED BY <1>4, <1>5, <1>6, <1>7

LEMMA RetransmitKeeps ==
    ASSUME IndInv, NEW p \in Sender, NEW expired \in SUBSET Outstanding(p),
           RetransmitPass(p, expired)
    PROVE  IndInv'
<1> USE DEF IndInv
<1>1. /\ packets' = packets \cup expired
      /\ UNCHANGED <<sendSeq, unacked, sent, recvSeq, recvBuffer, acks,
                     delivered, failures>>
  BY DEF RetransmitPass, sender, receiver
<1>2. ASSUME NEW pkt \in expired
      PROVE  pkt \in Packet /\ IsCopy(pkt, sent[pkt.flow])
  <2>1. PICK f \in Flow : \E e \in unacked[f] :
            pkt = [flow |-> f, seq |-> e.seq, payload |-> e.payload]
    BY DEF Outstanding
  <2>2. PICK e \in unacked[f] :
            pkt = [flow |-> f, seq |-> e.seq, payload |-> e.payload]
    BY <2>1
  <2>3. e \in Entry /\ IsCopy(e, sent[f])
    BY <2>2 DEF TypeOK, CopiesInv, AreCopies
  <2> QED BY <2>1, <2>2, <2>3 DEF Packet, Entry, IsCopy
<1>3. TypeOK'
  BY <1>1, <1>2 DEF TypeOK
<1>4. CopiesInv'
  BY <1>1, <1>2 DEF CopiesInv
<1>5. InOrder' /\ AckedInv' /\ NothingLost'
  BY <1>1 DEF InOrder, AckedInv, NothingLost
<1> QED BY <1>3, <1>4, <1>5

LEMMA LoseKeeps ==
    ASSUME IndInv,
           \/ \E pkt \in packets : LosePacket(pkt)
           \/ \E a \in acks : LoseAck(a)
    PROVE  IndInv'
<1>1. /\ packets' \subseteq packets /\ acks' \subseteq acks
      /\ UNCHANGED <<sendSeq, unacked, sent, recvSeq, recvBuffer,
                     delivered, failures>>
  BY DEF LosePacket, LoseAck, sender, receiver
<1> QED BY <1>1 DEF IndInv, TypeOK, CopiesInv, InOrder, AckedInv, NothingLost

-----------------------------------------------------------------------------

LEMMA InitHolds == Init => IndInv
<1> SUFFICES ASSUME Init PROVE IndInv
  OBVIOUS
<1> USE MaxSendAssumption, MaxFailAssumption DEF Init
<1>1. TypeOK
  BY DEF TypeOK
<1>2. CopiesInv
  BY DEF CopiesInv, AreCopies
<1>3. InOrder
  BY DEF InOrder
<1>4. AckedInv /\ NothingLost
  BY DEF AckedInv, NothingLost
<1> QED BY <1>1, <1>2, <1>3, <1>4 DEF IndInv

LEMMA StepKeeps == IndInv /\ [Next]_vars => IndInv'
<1> SUFFICES ASSUME IndInv, [Next]_vars PROVE IndInv'
  OBVIOUS
<1>1. CASE UNCHANGED vars
  BY <1>1 DEF vars, IndInv, TypeOK, CopiesInv, InOrder, AckedInv, NothingLost
<1>2. ASSUME NEW f \in Flow, NEW m \in Payload, SendData(f, m) PROVE IndInv'
  BY <1>2, SendDataKeeps
<1>3. ASSUME NEW pkt \in packets, ReceiveData(pkt) PROVE IndInv'
  <2>1. CASE DeliverInOrder(pkt) \/ DeliverRaises(pkt)
    BY <1>3, <2>1, DeliverKeeps
  <2>2. CASE BufferFuture(pkt)
    BY <1>3, <2>2, BufferFutureKeeps
  <2>3. CASE DropStale(pkt)
    BY <1>3, <2>3, DropStaleKeeps
  <2> QED BY <1>3, <2>1, <2>2, <2>3 DEF ReceiveData
<1>4. ASSUME NEW a \in acks, ReceiveAck(a) PROVE IndInv'
  BY <1>4, ReceiveAckKeeps
<1>5. ASSUME NEW p \in Sender, NEW expired \in SUBSET Outstanding(p),
             RetransmitPass(p, expired)
      PROVE  IndInv'
  BY <1>5, RetransmitKeeps
<1>6. CASE \/ \E pkt \in packets : LosePacket(pkt)
           \/ \E a \in acks : LoseAck(a)
  BY <1>6, LoseKeeps
<1> QED BY <1>1, <1>2, <1>3, <1>4, <1>5, <1>6 DEF Next

(* The invariant holds in every reachable state.                           *)
THEOREM Invariance == Spec => []IndInv
<1>1. Init => IndInv
  BY InitHolds
<1>2. IndInv /\ [Next]_vars => IndInv'
  BY StepKeeps
<1> QED BY <1>1, <1>2, PTL DEF Spec

(* Every variable keeps its type: in particular no sequence number runs    *)
(* past the datagrams accepted from the application.                       *)
THEOREM TypeCorrect == Spec => []TypeOK
<1>1. IndInv => TypeOK
  BY DEF IndInv
<1> QED BY <1>1, Invariance, PTL

(* The receiving application gets a prefix of what was sent, in order and  *)
(* each datagram once, whatever the tunnel does and whichever delivery     *)
(* raises (datagram_received, mesh_proxy.py).                              *)
THEOREM DeliveredInOrder == Spec => []InOrder
<1>1. IndInv => InOrder
  BY DEF IndInv
<1> QED BY <1>1, Invariance, PTL

(* While no delivery has raised, a datagram the receiver still needs has a *)
(* copy in unacked or in recv_buffer: an ACK never frees the last copy.    *)
THEOREM NoLastCopyFreed == Spec => []NothingLost
<1>1. IndInv => NothingLost
  BY DEF IndInv
<1> QED BY <1>1, Invariance, PTL

(* recv_buffer holds only datagrams ahead of recv_seq and already sent.    *)
THEOREM BufferStaysAhead == Spec => []BufferAhead
<1>1. IndInv => BufferAhead
  BY DEF IndInv, CopiesInv, AreCopies, IsCopy, BufferAhead
<1> QED BY <1>1, Invariance, PTL

-----------------------------------------------------------------------------
(* Refinement: what the applications see of a flow is a FIFO channel.      *)

LEMMA InitRefines == Init => Fifo!Init
BY DEF Init, Fifo!Init

LEMMA StepRefines == IndInv /\ [Next]_vars => [Fifo!Next]_<<sent, delivered>>
<1> SUFFICES ASSUME IndInv, [Next]_vars
             PROVE  Fifo!Next \/ UNCHANGED <<sent, delivered>>
  OBVIOUS
<1>1. ASSUME NEW f \in Flow, NEW m \in Payload, SendData(f, m) PROVE Fifo!Next
  <2>1. Fifo!Send(f, m)
    BY <1>1 DEF SendData, receiver, Fifo!Send
  <2> QED BY <2>1 DEF Fifo!Next
<1>2. ASSUME NEW pkt \in packets, ReceiveData(pkt)
      PROVE  Fifo!Next \/ UNCHANGED <<sent, delivered>>
  <2>1. CASE BufferFuture(pkt) \/ DropStale(pkt)
    BY <1>2, <2>1 DEF ReceiveData, BufferFuture, DropStale, receiver, sender
  <2>2. CASE DeliverInOrder(pkt) \/ DeliverRaises(pkt)
    <3> DEFINE f == pkt.flow
               n == recvSeq'[f]
    <3>1. f \in Flow
      BY DEF IndInv, TypeOK, Packet
    <3>2. IndInv'
      BY <1>2, <2>2, DeliverKeeps
    <3>3. UNCHANGED sent
      BY <1>2 DEF ReceiveData, sender
    <3>4. /\ Len(delivered[f]) = recvSeq[f] /\ Len(delivered'[f]) = n
          /\ recvSeq[f] \in Nat /\ n \in Nat /\ n <= Len(sent[f])
          /\ \A i \in 1 .. n : delivered'[f][i] = sent[f][i]
          /\ delivered'[f] \in Seq(Payload) /\ delivered[f] \in Seq(Payload)
      BY <3>1, <3>2, <3>3, MaxSendAssumption DEF IndInv, TypeOK, InOrder
    <3>5. \E stop \in recvSeq[f] .. MaxSend : HandOver(pkt, stop)
      BY <2>2, MaxSendAssumption DEF DeliverInOrder, DeliverRaises, IndInv,
                                     TypeOK, Packet, SeqNo
    <3>6. /\ recvSeq[f] <= n
          /\ delivered' = [delivered EXCEPT ![f] = delivered'[f]]
      <4>1. PICK stop \in recvSeq[f] .. MaxSend : HandOver(pkt, stop)
        BY <3>5
      <4>2. recvSeq' = [recvSeq EXCEPT ![f] = stop] /\ stop >= recvSeq[f]
        BY <4>1, <3>4 DEF HandOver
      <4>3. n = stop
        BY <3>1, <4>2 DEF IndInv, TypeOK
      <4>4. PICK new : delivered' = [delivered EXCEPT ![f] = new]
        BY <4>1 DEF HandOver
      <4>5. delivered'[f] = new
        BY <3>1, <4>4 DEF IndInv, TypeOK
      <4> QED BY <4>2, <4>3, <4>4, <4>5, <3>4
    <3>7. delivered'[f] = [i \in 1 .. n |-> sent[f][i]]
      BY <3>4
    <3>8. CASE n = recvSeq[f]
      <4>1. \A i \in 1 .. n : delivered[f][i] = sent[f][i]
        BY <3>1, <3>8 DEF IndInv, InOrder
      <4>2. delivered[f] = [i \in 1 .. n |-> sent[f][i]]
        BY <3>4, <3>8, <4>1
      <4>3. delivered' = delivered
        BY <3>6, <3>7, <4>2 DEF IndInv, TypeOK
      <4> QED BY <4>3, <3>3
    <3>9. CASE n > recvSeq[f]
      <4>1. n \in Len(delivered[f]) + 1 .. Len(sent[f])
        BY <3>4, <3>9
      <4>2. Fifo!Deliver(f)
        BY <4>1, <3>3, <3>6, <3>7 DEF Fifo!Deliver
      <4> QED BY <3>1, <4>2 DEF Fifo!Next
    <3> QED BY <3>4, <3>6, <3>8, <3>9
  <2> QED BY <1>2, <2>1, <2>2 DEF ReceiveData
<1>3. CASE \/ \E a \in acks : ReceiveAck(a) \/ LoseAck(a)
           \/ \E p \in Sender : \E expired \in SUBSET Outstanding(p) :
                  RetransmitPass(p, expired)
           \/ \E pkt \in packets : LosePacket(pkt)
           \/ UNCHANGED vars
  BY <1>3 DEF ReceiveAck, LoseAck, RetransmitPass, LosePacket, sender, receiver, vars
<1> QED BY <1>1, <1>2, <1>3 DEF Next

(* The sidecars implement the FIFO channel (its safety half; that it is    *)
(* live as well is model-checked, ImplementsFifo).                         *)
THEOREM RefinesFifo == Spec => Fifo!Spec
<1>1. Init => Fifo!Init
  BY InitRefines
<1>2. IndInv /\ [Next]_vars => [Fifo!Next]_<<sent, delivered>>
  BY StepRefines
<1> QED BY <1>1, <1>2, Invariance, PTL DEF Spec, Fifo!Spec, Fifo!vars
=============================================================================
