-------------------------- MODULE SnapshotCutProofs --------------------------
(***************************************************************************)
(* The cut of a snapshot nobody has aborted, for every set of servers and  *)
(* snapshot ids and every bound: complete artifacts agree on the sequence  *)
(* number of every channel, and nothing is stored twice.                   *)
(*                                                                         *)
(* The argument follows the one marker a snapshot sends on a channel.      *)
(* While it is on the wire its number is the sender's coordinate and the   *)
(* receiver still waits for it; when the receiver has got it the receiver's*)
(* coordinate is the sender's; and a server whose snapshot is over has got *)
(* every marker, so that none is left to begin the snapshot again.         *)
(***************************************************************************)
EXTENDS SnapshotProofs

Begun(id, p) == begins[<<id, p>>] > 0

(* p's markers of id are on their way, or have been.                       *)
Sent(id, p) == Begun(id, p) /\ (snapshotId[p] = id => phase[p] = "running")

(* The receiver of f has consumed its marker of id.                        *)
Got(id, f) ==
    /\ Begun(id, f[2])
    /\ snapshotId[f[2]] = id =>
           phase[f[2]] = "running" /\ f[1] \notin recording[f[2]]

(* The coordinate of f at its two ends is v: in the controller while it is *)
(* in the snapshot, in the artifact if one was stored.                     *)
SendIs(id, f, v) ==
    /\ Sent(id, f[1])
    /\ snapshotId[f[1]] = id => recordedSend[f[1]][f[2]] = v
    /\ artifact[<<id, f[1]>>].status = "complete" =>
           artifact[<<id, f[1]>>].send[f[2]] = v

RecvIs(id, f, v) ==
    /\ snapshotId[f[2]] = id => recordedRecv[f[2]][f[1]] = v
    /\ artifact[<<id, f[2]>>].status = "complete" =>
           artifact[<<id, f[2]>>].recv[f[1]] = v

MarkerAt(id, f, i) == i \in DOMAIN wire[f] /\ wire[f][i] = Marker(id)

MarkerInv(id, f) ==
    \A i \in Nat : MarkerAt(id, f, i) =>
        /\ SendIs(id, f, recvSeq[f] + i)
        /\ ~Got(id, f)
        /\ \A j \in Nat : MarkerAt(id, f, j) => j = i

MatchInv(id, f) ==
    Got(id, f) => \E v \in Nat : SendIs(id, f, v) /\ RecvIs(id, f, v)

(* Nothing is stored before its time.                                      *)
StoreInv(id, p) ==
    /\ ~Begun(id, p) \/ snapshotId[p] = id =>
           artifact[<<id, p>>].status = "none"
    /\ ~Begun(id, p) \/ (snapshotId[p] = id /\ phase[p] = "posted") =>
           ~image[<<id, p>>].taken
    /\ artifact[<<id, p>>].status # "aborted"

CutOf(id) == /\ \A f \in Channel : MarkerInv(id, f) /\ MatchInv(id, f)
             /\ \A p \in Node : StoreInv(id, p)

CutInv == \A id \in SnapshotId \ aborted : CutOf(id)

(* A blocked controller awaits every marker but the one it is handling,    *)
(* which is at the head of its channel.                                    *)
HandlerInv ==
    \A p \in Node : phase[p] # "running" =>
        /\ recording[p] = Node \ {p, origin[p]}
        /\ origin[p] # Operator =>
               Head(wire[<<origin[p], p>>]) = Marker(snapshotId[p])

BegunInv ==
    \A p \in Node : /\ Snapshotting(p) => Begun(snapshotId[p], p)
                    /\ \A id \in SnapshotId :
                           Begun(id, p) => id \in started \cup aborted

NumberInv ==
    \A f \in Channel : f[1] \notin dead =>
        sendSeq[f] = recvSeq[f] + Len(wire[f])

PlainInv ==
    \A f \in Channel : \A i \in DOMAIN outbox[f] : outbox[f][i].type # "marker"

CutParts == CutInv /\ HandlerInv /\ BegunInv /\ NumberInv /\ PlainInv

IndInv == TypeInv /\ CutParts

-----------------------------------------------------------------------------
(* What a step may do to a channel and to its ends without disturbing a    *)
(* snapshot.                                                               *)

(* Markers keep their numbers, and none is added.                          *)
Shift(id, f) ==
    \E d \in Nat :
        /\ recvSeq'[f] = recvSeq[f] + d
        /\ \A i \in Nat : MarkerAt(id, f, i)' => MarkerAt(id, f, i + d)

SenderKept(id, f) == \A v \in Nat : SendIs(id, f, v) => SendIs(id, f, v)'

ReceiverKept(id, f) ==
    /\ Got(id, f)' <=> Got(id, f)
    /\ \A v \in Nat : Got(id, f) /\ RecvIs(id, f, v) => RecvIs(id, f, v)'

LEMMA ChannelKept ==
    ASSUME NEW id, NEW f \in Channel, MarkerInv(id, f), MatchInv(id, f),
           recvSeq[f] \in Nat, Shift(id, f), SenderKept(id, f),
           ReceiverKept(id, f)
    PROVE  MarkerInv(id, f)' /\ MatchInv(id, f)'
<1>1. PICK d \in Nat :
          /\ recvSeq'[f] = recvSeq[f] + d
          /\ \A i \in Nat : MarkerAt(id, f, i)' => MarkerAt(id, f, i + d)
  BY DEF Shift
<1>2. ASSUME NEW i \in Nat, MarkerAt(id, f, i)'
      PROVE  /\ SendIs(id, f, recvSeq[f] + i)'
             /\ ~Got(id, f)'
             /\ \A j \in Nat : MarkerAt(id, f, j)' => j = i
  <2>1. MarkerAt(id, f, i + d) /\ i + d \in Nat
    BY <1>1, <1>2
  <2>2. SendIs(id, f, recvSeq[f] + (i + d)) /\ ~Got(id, f)
    BY <2>1 DEF MarkerInv
  <2>3. recvSeq[f] + (i + d) = recvSeq'[f] + i /\ recvSeq'[f] + i \in Nat
    BY <1>1
  <2>4. ASSUME NEW j \in Nat, MarkerAt(id, f, j)' PROVE j = i
    <3>1. MarkerAt(id, f, j + d) /\ j + d \in Nat
      BY <1>1, <2>4
    <3>2. j + d = i + d
      BY <2>1, <3>1 DEF MarkerInv
    <3> QED BY <3>2
  <2> QED BY <2>2, <2>3, <2>4 DEF SenderKept, ReceiverKept
<1> QED BY <1>2 DEF MarkerInv, MatchInv, SenderKept, ReceiverKept

LEMMA SameShift ==
    ASSUME NEW id, NEW f \in Channel, ChannelsOK,
           wire'[f] = wire[f], recvSeq'[f] = recvSeq[f]
    PROVE  Shift(id, f)
<1>1. recvSeq'[f] = recvSeq[f] + 0
  BY DEF ChannelsOK
<1>2. \A i \in Nat : MarkerAt(id, f, i)' => MarkerAt(id, f, i + 0)
  BY DEF MarkerAt
<1> QED BY <1>1, <1>2 DEF Shift

LEMMA GrowShift ==
    ASSUME NEW id, NEW f \in Channel, ChannelsOK,
           NEW t \in Seq(Message), \A i \in DOMAIN t : t[i] # Marker(id),
           wire'[f] = wire[f] \o t, recvSeq'[f] = recvSeq[f]
    PROVE  Shift(id, f)
<1> DEFINE w == wire[f]
<1>1. w \in Seq(Message) /\ recvSeq'[f] = recvSeq[f] + 0
  BY DEF ChannelsOK
<1>2. ASSUME NEW i \in Nat, MarkerAt(id, f, i)'
      PROVE  MarkerAt(id, f, i + 0)
  <2>1. i \in DOMAIN (w \o t) /\ (w \o t)[i] = Marker(id)
    BY <1>2 DEF MarkerAt
  <2> HIDE DEF w
  <2>2. /\ Len(w \o t) = Len(w) + Len(t)
        /\ \A j \in 1 .. Len(w) + Len(t) :
               (w \o t)[j] = IF j <= Len(w) THEN w[j] ELSE t[j - Len(w)]
        /\ w \o t \in Seq(Message)
    BY <1>1, ConcatProperties
  <2>3. /\ DOMAIN (w \o t) = 1 .. Len(w) + Len(t)
        /\ DOMAIN w = 1 .. Len(w) /\ DOMAIN t = 1 .. Len(t)
        /\ Len(w) \in Nat /\ Len(t) \in Nat
    BY <1>1, <2>2, LenProperties
  <2>4. i \in 1 .. Len(w) + Len(t)
    BY <2>1, <2>3
  <2>5. CASE i <= Len(w)
    BY <2>1, <2>2, <2>3, <2>4, <2>5 DEF MarkerAt, w
  <2>6. CASE i > Len(w)
    <3>1. t[i - Len(w)] = Marker(id) /\ i - Len(w) \in DOMAIN t
      BY <2>1, <2>2, <2>3, <2>4, <2>6
    <3> QED BY <3>1
  <2> QED BY <2>3, <2>5, <2>6
<1> QED BY <1>1, <1>2 DEF Shift

LEMMA TailShift ==
    ASSUME NEW id, NEW f \in Channel, ChannelsOK, wire[f] # << >>,
           wire'[f] = Tail(wire[f]), recvSeq'[f] = recvSeq[f] + 1
    PROVE  Shift(id, f)
<1> DEFINE w == wire[f]
<1>1. w \in Seq(Message) /\ w # << >>
  BY DEF ChannelsOK
<1>2. ASSUME NEW i \in Nat, MarkerAt(id, f, i)'
      PROVE  MarkerAt(id, f, i + 1)
  <2>1. i \in DOMAIN Tail(w) /\ Tail(w)[i] = Marker(id)
    BY <1>2 DEF MarkerAt
  <2> HIDE DEF w
  <2>2. /\ Tail(w) \in Seq(Message) /\ Len(Tail(w)) = Len(w) - 1
        /\ \A j \in 1 .. Len(Tail(w)) : Tail(w)[j] = w[j + 1]
    BY <1>1, HeadTailProperties
  <2>3. DOMAIN Tail(w) = 1 .. Len(Tail(w)) /\ DOMAIN w = 1 .. Len(w)
        /\ Len(w) \in Nat
    BY <1>1, <2>2, LenProperties
  <2>4. i + 1 \in DOMAIN w /\ w[i + 1] = Marker(id)
    BY <2>1, <2>2, <2>3
  <2> QED BY <2>4 DEF MarkerAt, w
<1> QED BY <1>2 DEF Shift

LEMMA PrefixShift ==
    ASSUME NEW id, NEW f \in Channel, ChannelsOK,
           NEW k \in Int, k <= Len(wire[f]),
           wire'[f] = SubSeq(wire[f], 1, k), recvSeq'[f] = recvSeq[f]
    PROVE  Shift(id, f)
<1> DEFINE w == wire[f]
<1>1. w \in Seq(Message) /\ recvSeq'[f] = recvSeq[f] + 0
  BY DEF ChannelsOK
<1>2. ASSUME NEW i \in Nat, MarkerAt(id, f, i)'
      PROVE  MarkerAt(id, f, i + 0)
  <2>1. i \in DOMAIN SubSeq(w, 1, k) /\ SubSeq(w, 1, k)[i] = Marker(id)
    BY <1>2 DEF MarkerAt
  <2>2. k <= Len(w)
    OBVIOUS
  <2> HIDE DEF w
  <2>3. DOMAIN SubSeq(w, 1, k) \subseteq 1 .. k
        /\ \A j \in DOMAIN SubSeq(w, 1, k) : SubSeq(w, 1, k)[j] = w[j]
    BY <1>1, <2>2
  <2>4. i \in 1 .. Len(w) /\ w[i] = Marker(id)
    BY <1>1, <2>1, <2>2, <2>3, LenProperties
  <2>5. i + 0 \in DOMAIN w /\ w[i + 0] = Marker(id)
    BY <1>1, <2>4, LenProperties
  <2> QED BY <2>5 DEF MarkerAt, w
<1> QED BY <1>1, <1>2 DEF Shift

(* A server's part in snapshot id is left alone: either it is in another   *)
(* snapshot or none, before and after, or its controller does not change.  *)
Untouched(id, p) ==
    /\ begins'[<<id, p>>] = begins[<<id, p>>]
    /\ artifact'[<<id, p>>] = artifact[<<id, p>>]
    /\ image'[<<id, p>>] = image[<<id, p>>]
    /\ \/ snapshotId[p] # id /\ snapshotId'[p] # id
       \/ /\ snapshotId'[p] = snapshotId[p] /\ phase'[p] = phase[p]
          /\ recording'[p] = recording[p]
          /\ recordedSend'[p] = recordedSend[p]
          /\ recordedRecv'[p] = recordedRecv[p]

LEMMA UntouchedEnds ==
    ASSUME NEW id, NEW f \in Channel
    PROVE  /\ Untouched(id, f[1]) => SenderKept(id, f)
           /\ Untouched(id, f[2]) => ReceiverKept(id, f)
<1>1. ASSUME Untouched(id, f[1]) PROVE SenderKept(id, f)
  <2>1. Sent(id, f[1])' <=> Sent(id, f[1])
    BY <1>1 DEF Untouched, Sent, Begun
  <2> QED BY <1>1, <2>1 DEF Untouched, SenderKept, SendIs
<1>2. ASSUME Untouched(id, f[2]) PROVE ReceiverKept(id, f)
  <2>1. Got(id, f)' <=> Got(id, f)
    BY <1>2 DEF Untouched, Got, Begun
  <2> QED BY <1>2, <2>1 DEF Untouched, ReceiverKept, RecvIs
<1> QED BY <1>1, <1>2

LEMMA UntouchedStores ==
    ASSUME NEW id, NEW p \in Node, StoreInv(id, p), Untouched(id, p)
    PROVE  StoreInv(id, p)'
BY DEF StoreInv, Untouched, Begun

(* A snapshot no server's part in which is touched.                        *)
LEMMA UntouchedCut ==
    ASSUME NEW id, CutOf(id), ChannelsOK,
           \A p \in Node : Untouched(id, p),
           \A f \in Channel : Shift(id, f)
    PROVE  CutOf(id)'
<1>1. ASSUME NEW f \in Channel PROVE MarkerInv(id, f)' /\ MatchInv(id, f)'
  <2>1. f[1] \in Node /\ f[2] \in Node /\ recvSeq[f] \in Nat
    BY ChannelPair DEF ChannelsOK
  <2>2. SenderKept(id, f) /\ ReceiverKept(id, f)
    BY <2>1, UntouchedEnds
  <2> QED BY <2>1, <2>2, ChannelKept DEF CutOf
<1> QED BY <1>1, UntouchedStores DEF CutOf

LEMMA HeadIsFirst ==
    ASSUME NEW S, NEW s \in Seq(S), s # << >>
    PROVE  /\ Head(s) = s[1] /\ Len(s) \in Nat \ {0}
           /\ 1 \in DOMAIN s /\ 1 \in 1 .. Len(s)
<1>1. Len(s) \in Nat \ {0} /\ DOMAIN s = 1 .. Len(s)
  BY EmptySeq, LenProperties
<1> QED BY <1>1

LEMMA HeadOfConcat ==
    ASSUME NEW S, NEW s \in Seq(S), NEW t \in Seq(S), s # << >>
    PROVE  s \o t # << >> /\ Head(s \o t) = Head(s)
<1>1. Head(s) = s[1] /\ Len(s) \in Nat \ {0}
  BY HeadIsFirst
<1>2. /\ s \o t \in Seq(S) /\ Len(s \o t) = Len(s) + Len(t) /\ Len(t) \in Nat
      /\ \A i \in 1 .. Len(s) + Len(t) :
             (s \o t)[i] = IF i <= Len(s) THEN s[i] ELSE t[i - Len(s)]
  BY ConcatProperties, LenProperties
<1>3. s \o t # << >>
  BY <1>1, <1>2, EmptySeq
<1>4. Head(s \o t) = (s \o t)[1]
  BY <1>2, <1>3, HeadIsFirst
<1>5. (s \o t)[1] = s[1]
  BY <1>1, <1>2
<1> QED BY <1>1, <1>3, <1>4, <1>5

(* What the handlers that drain the intercept socket do to the channels.   *)
LEMMA DrainShift ==
    ASSUME TypeInv, PlainInv, NEW p \in Node, Drain(p), UNCHANGED recvSeq,
           NEW id \in SnapshotId, NEW f \in Channel
    PROVE  Shift(id, f)
<1>1. ChannelsOK /\ AppsOK
  BY TypeParts DEF TypeInv
<1>2. CASE f[1] = p
  <2>1. wire'[f] = wire[f] \o outbox[f] /\ outbox[f] \in Seq(Message)
        /\ recvSeq'[f] = recvSeq[f]
    BY <1>1, <1>2 DEF Drain, AppsOK
  <2>2. \A i \in DOMAIN outbox[f] : outbox[f][i] # Marker(id)
    BY DEF PlainInv, Marker
  <2> QED BY <1>1, <2>1, <2>2, GrowShift
<1>3. CASE f[1] # p
  BY <1>1, <1>3, SameShift DEF Drain
<1> QED BY <1>2, <1>3

LEMMA DrainKeeps ==
    ASSUME TypeInv, PlainInv, NumberInv, NEW p \in Node, Drain(p),
           UNCHANGED <<recvSeq, dead>>
    PROVE  /\ PlainInv' /\ NumberInv'
           /\ \A f \in Channel : wire[f] # << >> => Head(wire'[f]) = Head(wire[f])
<1>1. ChannelsOK /\ AppsOK
  BY TypeParts DEF TypeInv
<1>2. PlainInv'
  BY DEF PlainInv, Drain
<1>3. ASSUME NEW f \in Channel
      PROVE  /\ wire[f] # << >> => Head(wire'[f]) = Head(wire[f])
             /\ sendSeq[f] = recvSeq[f] + Len(wire[f]) =>
                    sendSeq'[f] = recvSeq'[f] + Len(wire'[f])
  <2>1. /\ wire[f] \in Seq(Message) /\ outbox[f] \in Seq(Message)
        /\ sendSeq[f] \in Nat /\ recvSeq[f] \in Nat
        /\ Len(wire[f]) \in Nat /\ Len(outbox[f]) \in Nat
    BY <1>1, LenProperties DEF ChannelsOK, AppsOK
  <2>2. CASE f[1] = p
    <3>1. /\ wire'[f] = wire[f] \o outbox[f]
          /\ sendSeq'[f] = sendSeq[f] + Len(outbox[f])
          /\ recvSeq'[f] = recvSeq[f]
      BY <2>2 DEF Drain
    <3>2. Len(wire[f] \o outbox[f]) = Len(wire[f]) + Len(outbox[f])
      BY <2>1, ConcatProperties
    <3>3. wire[f] # << >> => Head(wire[f] \o outbox[f]) = Head(wire[f])
      BY <2>1, HeadOfConcat
    <3>4. wire[f] # << >> => Head(wire'[f]) = Head(wire[f])
      BY <3>1, <3>3
    <3>5. Len(wire'[f]) = Len(wire[f]) + Len(outbox[f])
      BY <3>1, <3>2
    <3>6. sendSeq[f] = recvSeq[f] + Len(wire[f]) =>
              sendSeq'[f] = recvSeq'[f] + Len(wire'[f])
      <4> DEFINE a == sendSeq[f]  b == recvSeq[f]
                 m == Len(wire[f])  n == Len(outbox[f])
      <4>1. a \in Nat /\ b \in Nat /\ m \in Nat /\ n \in Nat
        BY <2>1
      <4>2. sendSeq'[f] = a + n /\ recvSeq'[f] = b /\ Len(wire'[f]) = m + n
        BY <3>1, <3>5
      <4> HIDE DEF a, b, m, n
      <4>3. a = b + m => a + n = b + (m + n)
        BY <4>1
      <4> QED BY <4>2, <4>3 DEF a, b, m
    <3> QED BY <3>4, <3>6
  <2>3. CASE f[1] # p
    BY <2>3 DEF Drain
  <2> QED BY <2>2, <2>3
<1>4. NumberInv'
  BY <1>3 DEF NumberInv
<1> QED BY <1>2, <1>3, <1>4

-----------------------------------------------------------------------------
(* The parts of IndInv, and how a step that leaves them alone keeps them.  *)

LEMMA IndParts ==
    ASSUME IndInv
    PROVE  /\ TypeInv /\ ChannelsOK /\ AppsOK /\ ControllersOK /\ StoresOK
           /\ BookkeepingOK /\ BlockedInv
           /\ CutInv /\ HandlerInv /\ BegunInv /\ NumberInv /\ PlainInv
BY TypeParts DEF IndInv, CutParts, TypeInv

LEMMA CutStays ==
    ASSUME CutInv, ChannelsOK, aborted \subseteq aborted',
           \A id \in SnapshotId \ aborted' :
               /\ \A p \in Node : Untouched(id, p)
               /\ \A f \in Channel : Shift(id, f)
    PROVE  CutInv'
BY UntouchedCut DEF CutInv

LEMMA HandlerStays ==
    ASSUME TypeInv, HandlerInv,
           \A r \in Node : phase'[r] # "running" =>
               /\ phase[r] # "running"
               /\ snapshotId'[r] = snapshotId[r]
               /\ origin'[r] = origin[r]
               /\ recording'[r] = recording[r],
           \A r \in Node :
               phase'[r] # "running" /\ <<origin[r], r>> \in Channel
               /\ wire[<<origin[r], r>>] # << >> =>
                   Head(wire'[<<origin[r], r>>]) = Head(wire[<<origin[r], r>>])
    PROVE  HandlerInv'
<1> SUFFICES ASSUME NEW r \in Node, phase'[r] # "running"
             PROVE  /\ recording'[r] = Node \ {r, origin'[r]}
                    /\ origin'[r] # Operator =>
                           Head(wire'[<<origin'[r], r>>]) = Marker(snapshotId'[r])
  BY DEF HandlerInv
<1>1. /\ phase[r] # "running" /\ snapshotId'[r] = snapshotId[r]
      /\ origin'[r] = origin[r] /\ recording'[r] = recording[r]
  OBVIOUS
<1>2. /\ recording[r] = Node \ {r, origin[r]}
      /\ origin[r] # Operator =>
             Head(wire[<<origin[r], r>>]) = Marker(snapshotId[r])
  BY <1>1 DEF HandlerInv
<1>3. origin[r] # Operator =>
          <<origin[r], r>> \in Channel /\ wire[<<origin[r], r>>] # << >>
  BY <1>1, ChannelPair DEF TypeInv, BlockedInv, Blocked
<1> QED BY <1>1, <1>2, <1>3

(* A snapshot only one server's part in which is touched.                  *)
LEMMA LocalCut ==
    ASSUME NEW id, CutOf(id), ChannelsOK, NEW p \in Node,
           \A r \in Node \ {p} : Untouched(id, r),
           \A f \in Channel :
               /\ Shift(id, f)
               /\ f[1] = p => SenderKept(id, f)
               /\ f[2] = p => ReceiverKept(id, f),
           StoreInv(id, p)'
    PROVE  CutOf(id)'
<1>1. ASSUME NEW f \in Channel PROVE MarkerInv(id, f)' /\ MatchInv(id, f)'
  <2>1. f[1] \in Node /\ f[2] \in Node /\ recvSeq[f] \in Nat
    BY ChannelPair DEF ChannelsOK
  <2>2. SenderKept(id, f) /\ ReceiverKept(id, f)
    BY <2>1, UntouchedEnds
  <2> QED BY <2>1, <2>2, ChannelKept DEF CutOf
<1> QED BY <1>1, UntouchedStores DEF CutOf

LEMMA ConsumeShift ==
    ASSUME ChannelsOK, NEW p \in Node, NEW q \in Node, HasHead(q, p),
           Consume(p, q), NEW id, NEW f \in Channel
    PROVE  Shift(id, f)
<1>1. CASE f = <<q, p>>
  <2>1. wire[f] # << >> /\ wire'[f] = Tail(wire[f])
        /\ recvSeq'[f] = recvSeq[f] + 1
    BY <1>1 DEF HasHead, Consume, ChannelsOK
  <2> QED BY <2>1, TailShift
<1>2. CASE f # <<q, p>>
  <2>1. wire'[f] = wire[f] /\ recvSeq'[f] = recvSeq[f]
    BY <1>2 DEF Consume, ChannelsOK
  <2> QED BY <2>1, SameShift
<1> QED BY <1>1, <1>2

LEMMA ConsumeKeeps ==
    ASSUME IndInv, NEW p \in Node, NEW q \in Node, Running(p), HasHead(q, p),
           Consume(p, q), UNCHANGED <<phase, origin, outbox, dead>>,
           \A r \in Node \ {p} : /\ snapshotId'[r] = snapshotId[r]
                                 /\ recording'[r] = recording[r]
    PROVE  HandlerInv' /\ NumberInv' /\ PlainInv'
<1> USE IndParts
<1>1. phase[p] = "running"
  BY DEF Running
<1>2. HandlerInv'
  <2>1. ASSUME NEW r \in Node, phase[r] # "running",
               <<origin[r], r>> \in Channel
        PROVE  wire'[<<origin[r], r>>] = wire[<<origin[r], r>>]
    BY <1>1, <2>1, ConsumeElsewhere
  <2> QED BY <1>1, <2>1, HandlerStays
<1>3. NumberInv'
  <2> SUFFICES ASSUME NEW f \in Channel, f[1] \notin dead
               PROVE  sendSeq'[f] = recvSeq'[f] + Len(wire'[f])
    BY DEF NumberInv
  <2>1. sendSeq[f] = recvSeq[f] + Len(wire[f]) /\ sendSeq'[f] = sendSeq[f]
    BY DEF NumberInv, Consume
  <2>2. CASE f = <<q, p>>
    <3>1. wire[f] # << >> /\ wire'[f] = Tail(wire[f])
          /\ recvSeq'[f] = recvSeq[f] + 1 /\ wire[f] \in Seq(Message)
          /\ recvSeq[f] \in Nat
      BY <2>2 DEF HasHead, Consume, ChannelsOK
    <3>2. Len(wire'[f]) = Len(wire[f]) - 1 /\ Len(wire[f]) \in Nat
      BY <3>1, HeadTailProperties, LenProperties
    <3> QED BY <2>1, <3>1, <3>2
  <2>3. CASE f # <<q, p>>
    BY <2>1, <2>3 DEF Consume, ChannelsOK
  <2> QED BY <2>2, <2>3
<1>4. PlainInv'
  BY DEF PlainInv
<1> QED BY <1>2, <1>3, <1>4

-----------------------------------------------------------------------------
(* One lemma per action.                                                   *)

LEMMA CutInit == Init => IndInv
<1> SUFFICES ASSUME Init PROVE IndInv
  OBVIOUS
<1>1. \A id \in SnapshotId, p \in Node : ~Begun(id, p)
  BY DEF Init, Begun, Key
<1>2. \A f \in Channel : wire[f] = << >> /\ outbox[f] = << >>
  BY DEF Init
<1>3. CutInv
  <2> SUFFICES ASSUME NEW id \in SnapshotId PROVE CutOf(id)
    BY DEF CutInv
  <2>1. ASSUME NEW f \in Channel PROVE MarkerInv(id, f) /\ MatchInv(id, f)
    <3>1. f[2] \in Node /\ ~Got(id, f)
      BY <1>1, ChannelPair DEF Got
    <3>2. \A i \in Nat : ~MarkerAt(id, f, i)
      BY <1>2 DEF MarkerAt
    <3> QED BY <3>1, <3>2 DEF MarkerInv, MatchInv
  <2>2. ASSUME NEW p \in Node PROVE StoreInv(id, p)
    <3>1. artifact[<<id, p>>] = NoArtifact /\ image[<<id, p>>] = NoImage
      BY DEF Init, Key
    <3> QED BY <3>1 DEF StoreInv, NoArtifact, NoImage
  <2> QED BY <2>1, <2>2 DEF CutOf
<1>4. HandlerInv
  BY DEF Init, HandlerInv
<1>5. BegunInv
  BY <1>1 DEF Init, BegunInv, Snapshotting
<1>6. NumberInv
  BY <1>2 DEF Init, NumberInv
<1>7. PlainInv
  BY <1>2 DEF PlainInv
<1> QED BY <1>3, <1>4, <1>5, <1>6, <1>7, InitTypes DEF IndInv, CutParts

(* Nothing but the applications' queues changes.                           *)
LEMMA CutSame ==
    ASSUME IndInv,
           UNCHANGED <<channels, controllers, stores, begins, started, aborted,
                       dead>>,
           PlainInv'
    PROVE  CutParts'
<1> USE IndParts DEF channels, controllers, stores
<1>1. CutInv'
  <2>1. \A id \in SnapshotId, p \in Node : Untouched(id, p)
    BY DEF Untouched
  <2>2. \A id \in SnapshotId, f \in Channel : Shift(id, f)
    BY SameShift
  <2> QED BY <2>1, <2>2, CutStays
<1>2. HandlerInv'
  BY HandlerStays
<1>3. BegunInv'
  BY DEF BegunInv, Begun, Snapshotting
<1>4. NumberInv'
  BY DEF NumberInv
<1> QED BY <1>1, <1>2, <1>3, <1>4 DEF CutParts

LEMMA PlainGrows ==
    ASSUME PlainInv, AppsOK, NEW f \in Channel, NEW m \in {Credit, Reply},
           outbox' = [outbox EXCEPT ![f] = Append(@, m)]
    PROVE  PlainInv'
<1>1. m \in Message /\ m.type # "marker"
  BY MessageTypes DEF Credit, Reply
<1> SUFFICES ASSUME NEW g \in Channel, NEW i \in DOMAIN outbox'[g]
             PROVE  outbox'[g][i].type # "marker"
  BY DEF PlainInv
<1>2. CASE g # f
  BY <1>2 DEF PlainInv, AppsOK
<1>3. CASE g = f
  <2> DEFINE s == outbox[f]
  <2>1. s \in Seq(Message) /\ outbox'[g] = Append(s, m)
    BY <1>3 DEF AppsOK
  <2>2. \A j \in DOMAIN s : s[j].type # "marker"
    BY DEF PlainInv
  <2> HIDE DEF s
  <2>3. /\ Append(s, m) \in Seq(Message) /\ Len(Append(s, m)) = Len(s) + 1
        /\ \A j \in 1 .. Len(s) : Append(s, m)[j] = s[j]
        /\ Append(s, m)[Len(s) + 1] = m
    BY <1>1, <2>1, AppendProperties
  <2>4. DOMAIN Append(s, m) = 1 .. Len(s) + 1 /\ DOMAIN s = 1 .. Len(s)
        /\ Len(s) \in Nat
    BY <2>1, <2>3, LenProperties
  <2>5. i \in 1 .. Len(s) \/ i = Len(s) + 1
    BY <2>1, <2>4
  <2> QED BY <1>1, <2>1, <2>2, <2>3, <2>4, <2>5
<1> QED BY <1>2, <1>3

LEMMA TransferCut ==
    ASSUME IndInv, NEW p \in Node, NEW q \in Node, Transfer(p, q)
    PROVE  CutParts'
<1>1. <<p, q>> \in Channel
      /\ outbox' = [outbox EXCEPT ![<<p, q>>] = Append(@, Credit)]
  BY DEF Transfer
<1>2. PlainInv'
  BY <1>1, IndParts, PlainGrows
<1> QED BY <1>2, CutSame DEF Transfer

LEMMA ReadCreditCut ==
    ASSUME IndInv, NEW p \in Node, NEW q \in Node, ReadCredit(p, q)
    PROVE  CutParts'
<1>1. outbox' = [outbox EXCEPT ![<<p, q>>] = Append(@, Reply)]
  BY DEF ReadCredit
<1>2. PlainInv'
  <2>1. CASE <<p, q>> \in Channel
    BY <1>1, <2>1, IndParts, PlainGrows
  <2>2. CASE <<p, q>> \notin Channel
    <3>1. outbox' = outbox
      BY <1>1, <2>2, IndParts DEF AppsOK
    <3> QED BY <3>1, IndParts DEF PlainInv
  <2> QED BY <2>1, <2>2
<1> QED BY <1>2, CutSame DEF ReadCredit, bookkeeping

(* The intercept socket is drained, and no controller changes.             *)
LEMMA DrainCut ==
    ASSUME IndInv, NEW p \in Node, Drain(p), started \subseteq started',
           UNCHANGED <<recvSeq, controllers, stores, begins, aborted, dead>>
    PROVE  CutParts'
<1> USE IndParts DEF controllers, stores
<1>1. CutInv'
  <2>1. \A id \in SnapshotId, r \in Node : Untouched(id, r)
    BY DEF Untouched
  <2>2. \A id \in SnapshotId, f \in Channel : Shift(id, f)
    BY DrainShift
  <2> QED BY <2>1, <2>2, CutStays
<1>2. PlainInv' /\ NumberInv'
      /\ \A f \in Channel : wire[f] # << >> => Head(wire'[f]) = Head(wire[f])
  BY DrainKeeps
<1>3. HandlerInv'
  BY <1>2, HandlerStays
<1>4. BegunInv'
  BY DEF BegunInv, Begun, Snapshotting
<1> QED BY <1>1, <1>2, <1>3, <1>4 DEF CutParts

LEMMA ForwardCut ==
    ASSUME IndInv, NEW p \in Node, Forward(p) PROVE CutParts'
BY DrainCut DEF Forward, bookkeeping

LEMMA StartIgnoredCut ==
    ASSUME IndInv, NEW p \in Node, NEW id \in SnapshotId, StartIgnored(p, id)
    PROVE  CutParts'
BY DrainCut DEF StartIgnored

(* A message is consumed that changes nothing in a snapshot.               *)
LEMMA ConsumeCut ==
    ASSUME IndInv, NEW p \in Node, NEW q \in Node, Running(p), HasHead(q, p),
           Consume(p, q),
           UNCHANGED <<outbox, snapshotId, phase, origin, recording,
                       recordedSend, recordedRecv, stores, bookkeeping>>
    PROVE  CutParts'
<1> USE IndParts DEF stores, bookkeeping
<1>1. CutInv'
  <2>1. \A id \in SnapshotId, r \in Node : Untouched(id, r)
    BY DEF Untouched
  <2>2. \A id \in SnapshotId, f \in Channel : Shift(id, f)
    BY ConsumeShift
  <2> QED BY <2>1, <2>2, CutStays
<1>2. HandlerInv' /\ NumberInv' /\ PlainInv'
  BY ConsumeKeeps
<1>3. BegunInv'
  BY DEF BegunInv, Begun, Snapshotting
<1> QED BY <1>1, <1>2, <1>3 DEF CutParts

LEMMA IgnoreMarkerCut ==
    ASSUME IndInv, NEW p \in Node, NEW q \in Node, IgnoreMarker(p, q)
    PROVE  CutParts'
BY ConsumeCut DEF IgnoreMarker, apps, controllers

LEMMA RecordCut ==
    ASSUME IndInv, NEW p \in Node, NEW q \in Node, Record(p, q)
    PROVE  CutParts'
BY ConsumeCut DEF Record, apps

LEMMA DeliverCut ==
    ASSUME IndInv, NEW p \in Node, NEW q \in Node, Deliver(p, q)
    PROVE  CutParts'
BY ConsumeCut DEF Deliver, controllers

(* Of a dead server's channels a prefix is left, which has the marker of a *)
(* handler that is blocked.                                                *)
LEMMA PrefixHead ==
    ASSUME NEW S, NEW s \in Seq(S), NEW k \in Int, 1 <= k, k <= Len(s)
    PROVE  Head(SubSeq(s, 1, k)) = Head(s)
<1>1. s # << >> /\ Len(s) \in Nat /\ \A i \in 1 .. k : s[i] \in S
  BY EmptySeq, LenProperties, ElementOfSeq
<1>2. /\ SubSeq(s, 1, k) \in Seq(S) /\ Len(SubSeq(s, 1, k)) = k
      /\ SubSeq(s, 1, k)[1] = s[1]
  BY <1>1, SubSeqProperties
<1>3. SubSeq(s, 1, k) # << >>
  BY <1>2, EmptySeq
<1> QED BY <1>1, <1>2, <1>3, HeadIsFirst

LEMMA DieCut ==
    ASSUME IndInv, NEW p \in Node, Die(p) PROVE CutParts'
<1> USE IndParts
<1>1. PICK keep \in [Node \ {p} -> UNION {Survives(p, q) : q \in Node \ {p}}] :
          /\ \A q \in Node \ {p} : keep[q] \in Survives(p, q)
          /\ wire' = [f \in Channel |->
                 IF f[1] = p THEN SubSeq(wire[f], 1, keep[f[2]]) ELSE wire[f]]
  BY DEF Die
<1>2. UNCHANGED <<sendSeq, recvSeq, outbox, snapshotId, phase, origin, recording,
                  recordedSend, recordedRecv, image, artifact, started,
                  aborted, begins>>
      /\ dead' = dead \cup {p}
  BY DEF Die, apps, controllers, stores
<1>3. ASSUME NEW f \in Channel, f[1] = p
      PROVE  /\ wire'[f] = SubSeq(wire[f], 1, keep[f[2]])
             /\ keep[f[2]] \in Int /\ keep[f[2]] <= Len(wire[f])
             /\ phase[f[2]] # "running" /\ origin[f[2]] = p => 1 <= keep[f[2]]
  <2>1. f[2] \in Node \ {p} /\ f = <<p, f[2]>> /\ wire[f] \in Seq(Message)
    BY <1>3, ChannelPair DEF ChannelsOK
  <2>2. keep[f[2]] \in Arrived(p, f[2]) .. Len(wire[f])
    BY <1>1, <2>1 DEF Survives
  <2>3. Arrived(p, f[2]) \in 0 .. 1 /\ Len(wire[f]) \in Nat
    BY <2>1, LenProperties DEF Arrived
  <2>4. wire'[f] = SubSeq(wire[f], 1, keep[f[2]])
    BY <1>1, <1>3
  <2> QED BY <2>2, <2>3, <2>4 DEF Arrived
<1>4. CutInv'
  <2>1. \A id \in SnapshotId, r \in Node : Untouched(id, r)
    BY <1>2 DEF Untouched
  <2>2. ASSUME NEW id \in SnapshotId, NEW f \in Channel PROVE Shift(id, f)
    <3>1. CASE f[1] = p
      BY <1>2, <1>3, <3>1, PrefixShift
    <3>2. CASE f[1] # p
      BY <1>1, <1>2, <3>2, SameShift
    <3> QED BY <3>1, <3>2
  <2> QED BY <1>2, <2>1, <2>2, CutStays
<1>5. HandlerInv'
  <2>1. ASSUME NEW r \in Node, phase[r] # "running",
               <<origin[r], r>> \in Channel, wire[<<origin[r], r>>] # << >>
        PROVE  Head(wire'[<<origin[r], r>>]) = Head(wire[<<origin[r], r>>])
    <3> DEFINE f == <<origin[r], r>>
    <3>1. f \in Channel /\ f[1] = origin[r] /\ f[2] = r
          /\ wire[f] \in Seq(Message)
      BY <2>1 DEF ChannelsOK
    <3>2. CASE f[1] = p
      BY <1>3, <2>1, <3>1, <3>2, PrefixHead
    <3>3. CASE f[1] # p
      BY <1>1, <3>1, <3>3
    <3> QED BY <3>2, <3>3
  <2> QED BY <1>2, <2>1, HandlerStays
<1>6. BegunInv'
  BY <1>2 DEF BegunInv, Begun, Snapshotting
<1>7. NumberInv'
  <2> SUFFICES ASSUME NEW f \in Channel, f[1] \notin dead \cup {p}
               PROVE  sendSeq[f] = recvSeq[f] + Len(wire'[f])
    BY <1>2 DEF NumberInv
  <2>1. wire'[f] = wire[f]
    BY <1>1
  <2> QED BY <2>1 DEF NumberInv
<1>8. PlainInv'
  BY <1>2 DEF PlainInv
<1> QED BY <1>4, <1>5, <1>6, <1>7, <1>8 DEF CutParts

(* While a controller is blocked its markers are not sent and, of those it *)
(* awaits, none is consumed.                                               *)
LEMMA BlockedEnds ==
    ASSUME NEW id, NEW p \in Node, phase'[p] # "running", snapshotId'[p] = id,
           Begun(id, p) => snapshotId[p] = id /\ phase[p] # "running",
           NEW f \in Channel
    PROVE  /\ f[1] = p => SenderKept(id, f)
           /\ f[2] = p => ReceiverKept(id, f)
BY DEF SenderKept, ReceiverKept, SendIs, Sent, Got

LEMMA ImageCut ==
    ASSUME IndInv, NEW p \in Node, phase[p] = "posted",
           phase' = [phase EXCEPT ![p] = "imaged"],
           image' = image \/ \E im \in Image :
               image' = [image EXCEPT ![<<snapshotId[p], p>>] = im],
           UNCHANGED <<channels, apps, snapshotId, origin, recording,
                       recordedSend, recordedRecv, artifact, started, aborted,
                       dead, begins>>
    PROVE  CutParts'
<1> USE IndParts DEF channels, apps
<1>1. Snapshotting(p) /\ snapshotId[p] \in SnapshotId /\ phase'[p] = "imaged"
      /\ \A r \in Node \ {p} : phase'[r] = phase[r]
  BY DEF BlockedInv, Blocked, Snapshotting, ControllersOK
<1>2. ASSUME NEW id \in SnapshotId, NEW r \in Node,
             <<id, r>> # <<snapshotId[p], p>>
      PROVE  Untouched(id, r)
  <2>1. image'[<<id, r>>] = image[<<id, r>>]
    BY <1>2 DEF Key, StoresOK
  <2> QED BY <1>1, <1>2, <2>1 DEF Untouched
<1>3. \A id \in SnapshotId, f \in Channel : Shift(id, f)
  BY SameShift
<1>4. CutInv'
  <2> SUFFICES ASSUME NEW id \in SnapshotId \ aborted PROVE CutOf(id)'
    BY DEF CutInv
  <2>1. CutOf(id)
    BY DEF CutInv
  <2>2. CASE id # snapshotId[p]
    BY <1>2, <1>3, <2>1, <2>2, UntouchedCut
  <2>3. CASE id = snapshotId[p]
    <3>1. \A f \in Channel : /\ f[1] = p => SenderKept(id, f)
                             /\ f[2] = p => ReceiverKept(id, f)
      BY <1>1, <2>3, BlockedEnds
    <3>2. StoreInv(id, p)'
      <4>1. Begun(id, p) /\ Begun(id, p)'
        BY <1>1, <2>3 DEF BegunInv, Begun
      <4>2. StoreInv(id, p)
        BY <2>1 DEF CutOf
      <4> QED BY <1>1, <2>3, <4>1, <4>2 DEF StoreInv
    <3> QED BY <1>2, <1>3, <2>1, <2>3, <3>1, <3>2, LocalCut
  <2> QED BY <2>2, <2>3
<1>5. HandlerInv'
  BY <1>1, HandlerStays
<1>6. BegunInv'
  BY DEF BegunInv, Begun, Snapshotting
<1>7. NumberInv' /\ PlainInv'
  BY DEF NumberInv, PlainInv
<1> QED BY <1>4, <1>5, <1>6, <1>7 DEF CutParts

LEMMA TakeImageCut ==
    ASSUME IndInv, NEW p \in Node, TakeImage(p) PROVE CutParts'
<1> DEFINE im == [taken |-> TRUE,
                  counter |-> counter[p],
                  unread |-> inbox[p],
                  unsent |-> [q \in Node |-> IF q = p THEN 0
                                             ELSE Credits(outbox[<<p, q>>])]]
<1>1. im \in Image
  <2>1. \A q \in Node : q # p => Credits(outbox[<<p, q>>]) \in Nat
    BY IndParts, ChannelPair, CreditsType DEF AppsOK
  <2> QED BY <2>1, IndParts DEF AppsOK, Image
<1>2. image' = [image EXCEPT ![<<snapshotId[p], p>>] = im]
  BY DEF TakeImage, Frozen
<1> HIDE DEF im
<1> QED BY <1>1, <1>2, ImageCut DEF TakeImage, bookkeeping

LEMMA CheckpointFailsCut ==
    ASSUME IndInv, NEW p \in Node, CheckpointFails(p) PROVE CutParts'
BY ImageCut DEF CheckpointFails, stores

LEMMA BeginCut ==
    ASSUME IndInv, NEW p \in Node, NEW id \in SnapshotId,
           NEW from \in Node \cup {Operator}, Begin(p, id, from),
           ~Snapshotting(p), id \in aborted \/ ~Begun(id, p),
           started \subseteq started', id \in started' \cup aborted,
           UNCHANGED <<aborted, dead>>,
           from # Operator => /\ <<from, p>> \in Channel /\ wire[<<from, p>>] # << >>
                              /\ Head(wire[<<from, p>>]) = Marker(id)
    PROVE  CutParts'
<1> USE IndParts
<1>1. /\ Drain(p) /\ UNCHANGED <<recvSeq, image, artifact>>
      /\ <<id, p>> \in Key
  BY DEF Begin, stores, Key
<1>2. /\ snapshotId'[p] = id /\ phase'[p] = "posted" /\ origin'[p] = from
      /\ recording'[p] = Node \ {p, from}
      /\ begins'[<<id, p>>] = begins[<<id, p>>] + 1 /\ begins[<<id, p>>] \in Nat
  BY <1>1 DEF Begin, ControllersOK, BookkeepingOK
<1>3. ASSUME NEW r \in Node \ {p}
      PROVE  /\ snapshotId'[r] = snapshotId[r] /\ phase'[r] = phase[r]
             /\ origin'[r] = origin[r] /\ recording'[r] = recording[r]
             /\ recordedSend'[r] = recordedSend[r]
             /\ recordedRecv'[r] = recordedRecv[r]
  BY DEF Begin, ControllersOK
<1>4. ASSUME NEW x \in SnapshotId, NEW r \in Node, <<x, r>> # <<id, p>>
      PROVE  begins'[<<x, r>>] = begins[<<x, r>>]
  BY <1>4 DEF Begin, BookkeepingOK, Key
<1>5. snapshotId[p] = NoId
  BY DEF Snapshotting
<1>6. ASSUME NEW x \in SnapshotId, NEW r \in Node, <<x, r>> # <<id, p>>
      PROVE  Untouched(x, r)
  <2>1. CASE r = p
    BY <1>1, <1>2, <1>4, <1>5, <1>6, <2>1, NoIdAssumption DEF Untouched
  <2>2. CASE r # p
    BY <1>1, <1>3, <1>4, <1>6, <2>2 DEF Untouched
  <2> QED BY <2>1, <2>2
<1>7. \A x \in SnapshotId, f \in Channel : Shift(x, f)
  BY <1>1, DrainShift
<1>8. CutInv'
  <2> SUFFICES ASSUME NEW x \in SnapshotId \ aborted PROVE CutOf(x)'
    BY DEF CutInv
  <2>1. CutOf(x)
    BY DEF CutInv
  <2>2. CASE x # id
    BY <1>6, <1>7, <2>1, <2>2, UntouchedCut
  <2>3. CASE x = id
    <3>1. ~Begun(x, p)
      BY <2>3
    <3>2. \A f \in Channel : /\ f[1] = p => SenderKept(x, f)
                             /\ f[2] = p => ReceiverKept(x, f)
      BY <1>2, <2>3, <3>1, BlockedEnds
    <3>3. StoreInv(x, p)'
      <4>1. StoreInv(x, p)
        BY <2>1 DEF CutOf
      <4> QED BY <1>1, <3>1, <4>1 DEF StoreInv
    <3> QED BY <1>6, <1>7, <2>1, <2>3, <3>2, <3>3, LocalCut
  <2> QED BY <2>2, <2>3
<1>9. PlainInv' /\ NumberInv'
      /\ \A f \in Channel : wire[f] # << >> => Head(wire'[f]) = Head(wire[f])
  BY <1>1, DrainKeeps
<1>10. HandlerInv'
  <2> SUFFICES ASSUME NEW r \in Node, phase'[r] # "running"
               PROVE  /\ recording'[r] = Node \ {r, origin'[r]}
                      /\ origin'[r] # Operator =>
                             Head(wire'[<<origin'[r], r>>]) = Marker(snapshotId'[r])
    BY DEF HandlerInv
  <2>1. CASE r = p
    BY <1>2, <1>9, <2>1
  <2>2. CASE r # p
    <3>1. phase[r] # "running"
      BY <1>3, <2>2
    <3>2. /\ recording[r] = Node \ {r, origin[r]}
          /\ origin[r] # Operator =>
                 Head(wire[<<origin[r], r>>]) = Marker(snapshotId[r])
      BY <3>1 DEF HandlerInv
    <3>3. origin[r] # Operator =>
              <<origin[r], r>> \in Channel /\ wire[<<origin[r], r>>] # << >>
      BY <3>1, ChannelPair DEF BlockedInv, Blocked
    <3> QED BY <1>3, <1>9, <2>2, <3>2, <3>3
  <2> QED BY <2>1, <2>2
<1>11. BegunInv'
  <2>1. ASSUME NEW x \in SnapshotId, NEW r \in Node
        PROVE  /\ Begun(x, r) => Begun(x, r)'
               /\ Begun(x, r)' => Begun(x, r) \/ x = id
    BY <1>2, <1>4 DEF Begun
  <2>2. ASSUME NEW r \in Node PROVE Snapshotting(r)' => Begun(snapshotId[r], r)'
    <3>1. CASE r = p
      BY <1>2, <3>1 DEF Begun
    <3>2. CASE r # p
      BY <1>3, <2>1, <3>2 DEF BegunInv, Snapshotting, ControllersOK
    <3> QED BY <3>1, <3>2
  <2> QED BY <2>1, <2>2 DEF BegunInv
<1> QED BY <1>8, <1>9, <1>10, <1>11 DEF CutParts

LEMMA StartCut ==
    ASSUME IndInv, NEW p \in Node, NEW id \in SnapshotId, Start(p, id)
    PROVE  CutParts'
<1>1. id \in aborted \/ ~Begun(id, p)
  BY IndParts DEF Start, BegunInv
<1>2. started' = started \cup {id}
  BY DEF Start
<1> QED BY <1>1, <1>2, BeginCut DEF Start

(* A marker that is consumed is at position one.                           *)
LEMMA ArrivingMarker ==
    ASSUME ChannelsOK, NEW p \in Node, NEW q \in Node, HasHead(q, p),
           Arriving(q, p).type = "marker"
    PROVE  /\ Arriving(q, p) = Marker(Arriving(q, p).id)
           /\ Arriving(q, p).id \in SnapshotId
           /\ <<q, p>> \in Channel /\ wire[<<q, p>>] # << >>
           /\ wire[<<q, p>>] \in Seq(Message)
           /\ MarkerAt(Arriving(q, p).id, <<q, p>>, 1)
<1>1. Arriving(q, p) = Marker(Arriving(q, p).id)
  BY ArrivingType DEF Message, Marker
<1>2. /\ <<q, p>> \in Channel /\ wire[<<q, p>>] # << >>
      /\ wire[<<q, p>>] \in Seq(Message)
  BY DEF HasHead, ChannelsOK
<1>3. Arriving(q, p) = wire[<<q, p>>][1] /\ 1 \in DOMAIN wire[<<q, p>>]
  BY <1>2, HeadIsFirst DEF Arriving
<1> QED BY <1>1, <1>2, <1>3, ArrivingType DEF MarkerAt

LEMMA ReceiveFirstMarkerCut ==
    ASSUME IndInv, NEW p \in Node, NEW q \in Node, ReceiveFirstMarker(p, q)
    PROVE  CutParts'
<1> USE IndParts
<1> DEFINE id == Arriving(q, p).id
<1>1. /\ HasHead(q, p) /\ Arriving(q, p) = Marker(id) /\ id \in SnapshotId
      /\ <<q, p>> \in Channel /\ wire[<<q, p>>] # << >>
      /\ MarkerAt(id, <<q, p>>, 1)
      /\ Begin(p, id, q) /\ ~Snapshotting(p)
  BY ArrivingMarker DEF ReceiveFirstMarker
<1>2. Head(wire[<<q, p>>]) = Marker(id)
  BY <1>1 DEF Arriving
<1> HIDE DEF id
<1>3. ASSUME id \notin aborted PROVE ~Begun(id, p) /\ id \in started
  <2>1. MarkerInv(id, <<q, p>>)
    BY <1>1, <1>3 DEF CutInv, CutOf
  <2>2. SendIs(id, <<q, p>>, recvSeq[<<q, p>>] + 1) /\ ~Got(id, <<q, p>>)
    BY <1>1, <2>1 DEF MarkerInv
  <2>3. Begun(id, q)
    BY <2>2 DEF SendIs, Sent
  <2>4. ~Begun(id, p)
    BY <1>1, <2>2, NoIdAssumption DEF Got, Snapshotting
  <2> QED BY <1>1, <1>3, <2>3, <2>4 DEF BegunInv
<1> QED BY <1>1, <1>2, <1>3, BeginCut DEF ReceiveFirstMarker

(* The end of a snapshot at p touches nobody else's, and stores at most    *)
(* this snapshot's artifact.                                               *)
LEMMA EndEffect ==
    ASSUME ControllersOK, StoresOK, NEW p \in Node,
           snapshotId[p] \in SnapshotId, NEW status, NEW send, NEW recv,
           NEW withheld, End(p, status, send, recv, withheld)
    PROVE  /\ snapshotId'[p] = NoId
           /\ \A r \in Node \ {p} :
                  /\ snapshotId'[r] = snapshotId[r]
                  /\ recording'[r] = recording[r]
                  /\ recordedSend'[r] = recordedSend[r]
                  /\ recordedRecv'[r] = recordedRecv[r]
           /\ \A k \in Key \ {<<snapshotId[p], p>>} : artifact'[k] = artifact[k]
           /\ \/ artifact'[<<snapshotId[p], p>>] = artifact[<<snapshotId[p], p>>]
              \/ /\ artifact'[<<snapshotId[p], p>>].status = status
                 /\ artifact'[<<snapshotId[p], p>>].send = send
                 /\ artifact'[<<snapshotId[p], p>>].recv = recv
<1> DEFINE art == [status |-> status, send |-> send, recv |-> recv,
                   channel |-> withheld]
           k0 == <<snapshotId[p], p>>
<1>1. Post(p, art) /\ FlushAndReset(p, withheld)
  BY DEF End
<1>2. /\ snapshotId'[p] = NoId
      /\ \A r \in Node \ {p} : /\ snapshotId'[r] = snapshotId[r]
                               /\ recording'[r] = recording[r]
                               /\ recordedSend'[r] = recordedSend[r]
                               /\ recordedRecv'[r] = recordedRecv[r]
  BY <1>1 DEF FlushAndReset, ForgetCut, ControllersOK
<1>3. k0 \in Key /\ art.status = status /\ art.send = send /\ art.recv = recv
  BY DEF Key
<1> HIDE DEF art
<1>4. artifact' = [artifact EXCEPT ![k0] = art] \/ artifact' = artifact
  BY <1>1 DEF Post
<1> HIDE DEF k0
<1>5. /\ \A k \in Key \ {k0} : artifact'[k] = artifact[k]
      /\ artifact'[k0] = artifact[k0] \/ artifact'[k0] = art
  BY <1>3, <1>4 DEF StoresOK
<1> QED BY <1>2, <1>3, <1>5 DEF k0

LEMMA TimeoutCut ==
    ASSUME IndInv, NEW p \in Node, Timeout(p) PROVE CutParts'
<1> USE IndParts
<1>1. /\ phase[p] = "running" /\ snapshotId[p] \in SnapshotId
      /\ aborted' = aborted \cup {snapshotId[p]}
      /\ UNCHANGED <<wire, sendSeq, recvSeq, outbox, phase, origin, image,
                     started, dead, begins>>
      /\ End(p, "aborted", recordedSend[p], recordedRecv[p], channelState[p])
  BY DEF Timeout, Running, Snapshotting, ControllersOK, channels
<1>2. /\ snapshotId'[p] = NoId
      /\ \A r \in Node \ {p} : /\ snapshotId'[r] = snapshotId[r]
                               /\ recording'[r] = recording[r]
                               /\ recordedSend'[r] = recordedSend[r]
                               /\ recordedRecv'[r] = recordedRecv[r]
      /\ \A k \in Key \ {<<snapshotId[p], p>>} : artifact'[k] = artifact[k]
  BY <1>1, EndEffect
<1>3. CutInv'
  <2>1. ASSUME NEW id \in SnapshotId \ aborted', NEW r \in Node
        PROVE  Untouched(id, r)
    <3>1. id # snapshotId[p] /\ <<id, r>> \in Key \ {<<snapshotId[p], p>>}
      BY <1>1 DEF Key
    <3>2. CASE r = p
      BY <1>1, <1>2, <3>1, <3>2, NoIdAssumption DEF Untouched
    <3>3. CASE r # p
      BY <1>1, <1>2, <3>1, <3>3 DEF Untouched
    <3> QED BY <3>2, <3>3
  <2>2. \A id \in SnapshotId, f \in Channel : Shift(id, f)
    BY <1>1, SameShift
  <2> QED BY <1>1, <2>1, <2>2, CutStays
<1>4. HandlerInv'
  BY <1>1, <1>2, HandlerStays
<1>5. BegunInv'
  <2>1. ASSUME NEW r \in Node, Snapshotting(r)'
        PROVE  snapshotId'[r] = snapshotId[r] /\ Snapshotting(r)
    BY <1>2, <2>1 DEF Snapshotting
  <2> QED BY <1>1, <2>1 DEF BegunInv, Begun
<1>6. NumberInv' /\ PlainInv'
  BY <1>1 DEF NumberInv, PlainInv
<1> QED BY <1>3, <1>4, <1>5, <1>6 DEF CutParts

(* The marker of f is consumed: the receiver's coordinate becomes the      *)
(* sender's, and no other marker of the snapshot is left.                  *)
LEMMA MarkerConsumed ==
    ASSUME NEW id, NEW f \in Channel, ChannelsOK, MarkerInv(id, f),
           MarkerAt(id, f, 1), SenderKept(id, f),
           wire'[f] = Tail(wire[f]), Got(id, f)',
           NEW v \in Nat, v = recvSeq[f] + 1, RecvIs(id, f, v)'
    PROVE  MarkerInv(id, f)' /\ MatchInv(id, f)'
<1>1. wire[f] \in Seq(Message)
  BY DEF ChannelsOK
<1>2. /\ SendIs(id, f, v)
      /\ \A j \in Nat : MarkerAt(id, f, j) => j = 1
  BY DEF MarkerInv
<1>3. MatchInv(id, f)'
  BY <1>1, <1>2 DEF MatchInv, SenderKept
<1>4. ASSUME NEW i \in Nat, MarkerAt(id, f, i)' PROVE FALSE
  <2> DEFINE w == wire[f]
  <2>1. i \in DOMAIN Tail(w) /\ Tail(w)[i] = Marker(id)
    BY <1>4 DEF MarkerAt
  <2>2. w \in Seq(Message) /\ w # << >>
    BY <1>1 DEF MarkerAt
  <2> HIDE DEF w
  <2>3. /\ Tail(w) \in Seq(Message) /\ Len(Tail(w)) = Len(w) - 1
        /\ \A j \in 1 .. Len(Tail(w)) : Tail(w)[j] = w[j + 1]
    BY <2>2, HeadTailProperties
  <2>4. DOMAIN Tail(w) = 1 .. Len(Tail(w)) /\ DOMAIN w = 1 .. Len(w)
        /\ Len(w) \in Nat
    BY <2>2, <2>3, LenProperties
  <2>5. i + 1 \in DOMAIN w /\ w[i + 1] = Marker(id) /\ i \in 1 .. Len(Tail(w))
    BY <2>1, <2>3, <2>4
  <2>6. i + 1 = 1
    BY <1>2, <2>5 DEF MarkerAt, w
  <2> QED BY <2>3, <2>4, <2>5, <2>6
<1> QED BY <1>3, <1>4 DEF MarkerInv

LEMMA ReceiveMarkerCut ==
    ASSUME IndInv, NEW p \in Node, NEW q \in Node, ReceiveMarker(p, q)
    PROVE  CutParts'
<1> USE IndParts
<1>0. PICK id \in SnapshotId : /\ id = snapshotId[p]
                               /\ Arriving(q, p) = Marker(id)
                               /\ HasHead(q, p) /\ MarkerAt(id, <<q, p>>, 1)
  <2>1. Arriving(q, p) = Marker(snapshotId[p]) /\ HasHead(q, p)
    BY DEF ReceiveMarker
  <2>2. /\ Arriving(q, p).type = "marker"
        /\ Arriving(q, p).id = snapshotId[p]
    BY <2>1 DEF Marker
  <2> QED BY <2>1, <2>2, ArrivingMarker
<1> DEFINE f0 == <<q, p>>
           recv == [recordedRecv[p] EXCEPT ![q] = recvSeq[<<q, p>>] + 1]
           Closes == /\ recording[p] # {q}
                     /\ recording' = [recording EXCEPT ![p] = @ \ {q}]
                     /\ recordedRecv' = [recordedRecv EXCEPT ![p] = recv]
                     /\ UNCHANGED <<snapshotId, channelState, recordedSend,
                                    inbox, artifact, failures>>
           Ends == /\ recording[p] = {q}
                   /\ End(p, "complete", recordedSend[p], recv, channelState[p])
<1>1. /\ Running(p) /\ phase[p] = "running"
      /\ q \in recording[p] /\ Consume(p, q)
      /\ Closes \/ Ends
      /\ UNCHANGED <<outbox, phase, origin, image, started, aborted, dead,
                     begins>>
  BY DEF ReceiveMarker, Running
<1>2. /\ f0 \in Channel /\ p # q
      /\ wire[f0] # << >> /\ wire'[f0] = Tail(wire[f0])
      /\ recvSeq[f0] \in Nat
  BY <1>0, <1>1 DEF HasHead, Channel, Consume, ChannelsOK
<1>3. ASSUME NEW r \in Node
      PROVE  recv[r] = IF r = q THEN recvSeq[f0] + 1 ELSE recordedRecv[p][r]
  BY DEF ControllersOK
<1> HIDE DEF recv
(* What is left alone elsewhere.                                           *)
<1>4. /\ \A r \in Node \ {p} : /\ snapshotId'[r] = snapshotId[r]
                               /\ recording'[r] = recording[r]
                               /\ recordedSend'[r] = recordedSend[r]
                               /\ recordedRecv'[r] = recordedRecv[r]
      /\ \A k \in Key \ {<<id, p>>} : artifact'[k] = artifact[k]
      /\ snapshotId'[p] \in {id, NoId}
  <2>1. CASE Closes
    BY <1>0, <1>1, <2>1 DEF ControllersOK
  <2>2. CASE Ends
    BY <1>0, <1>2, <2>2, EndEffect
  <2> QED BY <1>0, <1>1, <2>1, <2>2
<1>5. ASSUME NEW x \in SnapshotId, NEW r \in Node, <<x, r>> # <<id, p>>
      PROVE  Untouched(x, r)
  <2>1. <<x, r>> \in Key \ {<<id, p>>}
    BY <1>5 DEF Key
  <2>2. CASE r = p
    BY <1>0, <1>1, <1>4, <1>5, <2>1, <2>2, NoIdAssumption DEF Untouched
  <2>3. CASE r # p
    BY <1>0, <1>1, <1>4, <2>1, <2>3 DEF Untouched
  <2> QED BY <2>2, <2>3
<1>6. \A x \in SnapshotId, f \in Channel : Shift(x, f)
  BY <1>0, <1>1, ConsumeShift
<1>7. Begun(id, p) /\ Begun(id, p)'
  <2>1. Begun(id, p)
    BY <1>0, <1>2, NoIdAssumption DEF BegunInv, Snapshotting
  <2> QED BY <1>0, <1>1, <2>1 DEF Begun
<1>8. ASSUME id \notin aborted PROVE CutOf(id)'
  <2>1. CutOf(id) /\ StoreInv(id, p) /\ artifact[<<id, p>>].status = "none"
    BY <1>0, <1>2, <1>8 DEF CutInv, CutOf, StoreInv
  <2>2. ASSUME NEW f \in Channel, f[1] = p PROVE SenderKept(id, f)
    <3> SUFFICES ASSUME NEW v \in Nat, SendIs(id, f, v) PROVE SendIs(id, f, v)'
      BY DEF SenderKept
    <3>1. recordedSend[p][f[2]] = v
      BY <1>0, <2>2 DEF SendIs
    <3>2. CASE Closes
      BY <1>0, <1>1, <1>7, <2>1, <2>2, <3>1, <3>2 DEF SendIs, Sent
    <3>3. CASE Ends
      <4>1. /\ snapshotId'[p] = NoId
            /\ \/ artifact'[<<id, p>>] = artifact[<<id, p>>]
               \/ artifact'[<<id, p>>].send = recordedSend[p]
        BY <1>0, <1>2, <3>3, EndEffect
      <4> QED BY <1>0, <1>2, <1>7, <2>1, <2>2, <3>1, <4>1, NoIdAssumption
              DEF SendIs, Sent
    <3> QED BY <1>0, <1>1, <3>2, <3>3
  <2>3. ASSUME NEW f \in Channel, f[2] = p, f # f0 PROVE ReceiverKept(id, f)
    <3>1. f[1] \in Node /\ f[1] # q
      BY <2>3, ChannelPair
    <3>2. CASE Closes
      <4>1. f[1] \in recording'[p] <=> f[1] \in recording[p]
        BY <3>1, <3>2 DEF ControllersOK
      <4>2. recordedRecv'[p][f[1]] = recordedRecv[p][f[1]]
        BY <1>3, <3>1, <3>2 DEF ControllersOK
      <4> QED BY <1>0, <1>1, <1>7, <2>1, <2>3, <3>2, <4>1, <4>2
              DEF ReceiverKept, Got, RecvIs
    <3>3. CASE Ends
      <4>1. /\ snapshotId'[p] = NoId
            /\ \/ artifact'[<<id, p>>] = artifact[<<id, p>>]
               \/ artifact'[<<id, p>>].recv = recv
        BY <1>0, <1>2, <3>3, EndEffect
      <4>2. Got(id, f) /\ Got(id, f)'
        BY <1>0, <1>1, <1>2, <1>7, <2>3, <3>1, <3>3, <4>1, NoIdAssumption
           DEF Got
      <4> QED BY <1>0, <1>2, <1>3, <2>1, <2>3, <3>1, <4>1, <4>2, NoIdAssumption
              DEF ReceiverKept, RecvIs
    <3> QED BY <1>0, <1>1, <3>2, <3>3
  <2>4. Got(id, f0)'
    <3>1. CASE Closes
      BY <1>0, <1>1, <1>7, <3>1 DEF Got, ControllersOK
    <3>2. CASE Ends
      <4>1. snapshotId'[p] = NoId
        BY <1>0, <1>2, <3>2, EndEffect
      <4> QED BY <1>0, <1>2, <1>7, <4>1, NoIdAssumption DEF Got
    <3> QED BY <1>0, <1>1, <3>1, <3>2
  <2>5. ASSUME NEW v \in Nat, v = recvSeq[f0] + 1 PROVE RecvIs(id, f0, v)'
    <3>1. recv[q] = v
      BY <1>3, <2>5
    <3>2. CASE Closes
      BY <2>1, <3>1, <3>2 DEF RecvIs, ControllersOK
    <3>3. CASE Ends
      <4>1. /\ snapshotId'[p] = NoId
            /\ \/ artifact'[<<id, p>>] = artifact[<<id, p>>]
               \/ artifact'[<<id, p>>].recv = recv
        BY <1>0, <1>2, <3>3, EndEffect
      <4> QED BY <1>0, <1>2, <2>1, <3>1, <4>1, NoIdAssumption DEF RecvIs
    <3> QED BY <1>0, <1>1, <3>2, <3>3
  <2>6. ASSUME NEW f \in Channel PROVE MarkerInv(id, f)' /\ MatchInv(id, f)'
    <3>1. f[1] \in Node /\ f[2] \in Node /\ f[1] # f[2] /\ recvSeq[f] \in Nat
      BY ChannelPair DEF ChannelsOK
    <3>2. SenderKept(id, f)
      BY <1>0, <1>2, <1>5, <2>2, <3>1, UntouchedEnds
    <3>3. MarkerInv(id, f) /\ MatchInv(id, f)
      BY <2>1 DEF CutOf
    <3>4. CASE f = f0
      BY <1>0, <1>2, <2>4, <2>5, <3>2, <3>3, <3>4, MarkerConsumed
    <3>5. CASE f # f0
      <4>1. ReceiverKept(id, f)
        BY <1>0, <1>2, <1>5, <2>3, <3>1, <3>5, UntouchedEnds
      <4> QED BY <1>0, <1>2, <1>6, <3>1, <3>2, <3>3, <4>1, ChannelKept
    <3> QED BY <3>4, <3>5
  <2>7. ASSUME NEW r \in Node PROVE StoreInv(id, r)'
    <3>1. CASE r # p
      BY <1>0, <1>2, <1>5, <2>1, <3>1, UntouchedStores DEF CutOf
    <3>2. CASE r = p
      <4>1. CASE Closes
        BY <1>0, <1>1, <1>7, <2>1, <3>2, <4>1 DEF StoreInv
      <4>2. CASE Ends
        <5>1. /\ snapshotId'[p] = NoId
              /\ \/ artifact'[<<id, p>>] = artifact[<<id, p>>]
                 \/ artifact'[<<id, p>>].status = "complete"
          BY <1>0, <1>2, <4>2, EndEffect
        <5> QED BY <1>0, <1>2, <1>7, <2>1, <3>2, <5>1, NoIdAssumption
                DEF StoreInv
      <4> QED BY <1>0, <1>1, <4>1, <4>2
    <3> QED BY <3>1, <3>2
  <2> QED BY <2>6, <2>7 DEF CutOf
<1>9. CutInv'
  <2>1. ASSUME NEW x \in SnapshotId \ aborted, x # id PROVE CutOf(x)'
    BY <1>5, <1>6, <2>1, UntouchedCut DEF CutInv
  <2> QED BY <1>0, <1>1, <1>8, <2>1 DEF CutInv
<1>10. HandlerInv' /\ NumberInv' /\ PlainInv'
  BY <1>0, <1>1, <1>4, ConsumeKeeps
<1>11. BegunInv'
  <2>1. ASSUME NEW r \in Node, Snapshotting(r)'
        PROVE  snapshotId'[r] = snapshotId[r] /\ Snapshotting(r)
    BY <1>0, <1>4, <2>1 DEF Snapshotting
  <2> QED BY <1>1, <2>1 DEF BegunInv, Begun
<1> QED BY <1>9, <1>10, <1>11 DEF CutParts

(* One marker of id is sent on f, before whatever else is.                 *)
MarkerFirst(id, f) ==
    /\ recvSeq'[f] = recvSeq[f]
    /\ \E t \in Seq(Message) :
           /\ wire'[f] = wire[f] \o t /\ Len(t) \in Nat \ {0}
           /\ sendSeq'[f] = sendSeq[f] + Len(t)
           /\ t[1] = Marker(id)
           /\ \A i \in DOMAIN t : i # 1 => t[i].type # "marker"

LEMMA BroadcastOut ==
    ASSUME IndInv, NEW p \in Node, origin[p] # p, Broadcast(p),
           NEW id \in SnapshotId, id = snapshotId[p],
           NEW f \in Channel, f[1] = p
    PROVE  MarkerFirst(id, f)
<1> USE IndParts
<1> DEFINE m == Marker(id)
           rest == IF origin[p] = Operator THEN outbox[f] ELSE << >>
           t == <<m>> \o rest
<1>1. /\ m \in Message /\ wire[f] \in Seq(Message) /\ sendSeq[f] \in Nat
      /\ rest \in Seq(Message) /\ Len(rest) \in Nat
      /\ \A i \in DOMAIN rest : rest[i].type # "marker"
  BY MessageTypes, SeqTypes DEF ChannelsOK, AppsOK, PlainInv
<1>2. /\ wire'[f] = Append(wire[f], m) \o rest
      /\ sendSeq'[f] = sendSeq[f] + 1 + Len(rest)
      /\ recvSeq'[f] = recvSeq[f]
  <2>1. f # <<origin[p], p>>
    OBVIOUS
  <2> QED BY <2>1 DEF Broadcast
<1> HIDE DEF m, rest
<1>3. /\ <<m>> \in Seq(Message) /\ Len(<<m>>) = 1 /\ <<m>>[1] = m
  BY <1>1
<1>4. Append(wire[f], m) \o rest = wire[f] \o t
  <2>1. Append(wire[f], m) = wire[f] \o <<m>>
    BY <1>1, AppendIsConcat
  <2>2. (wire[f] \o <<m>>) \o rest = wire[f] \o (<<m>> \o rest)
    <3> DEFINE w == wire[f]  one == <<m>>
    <3>1. w \in Seq(Message) /\ one \in Seq(Message) /\ rest \in Seq(Message)
      BY <1>1, <1>3
    <3> HIDE DEF w, one
    <3>2. (w \o one) \o rest = w \o (one \o rest)
      BY <3>1, ConcatAssociative
    <3> QED BY <3>2 DEF w, one
  <2> QED BY <2>1, <2>2
<1>5. /\ t \in Seq(Message) /\ Len(t) = 1 + Len(rest)
      /\ \A i \in 1 .. 1 + Len(rest) :
             t[i] = IF i <= 1 THEN <<m>>[i] ELSE rest[i - 1]
  BY <1>1, <1>3, ConcatProperties
<1> HIDE DEF t
<1>6. t[1] = m /\ Len(t) \in Nat \ {0}
  BY <1>1, <1>3, <1>5
<1>7. ASSUME NEW i \in DOMAIN t, i # 1 PROVE t[i].type # "marker"
  <2>1. DOMAIN t = 1 .. 1 + Len(rest) /\ DOMAIN rest = 1 .. Len(rest)
    BY <1>1, <1>5, LenProperties
  <2>2. t[i] = rest[i - 1] /\ i - 1 \in DOMAIN rest
    BY <1>1, <1>5, <1>7, <2>1
  <2> QED BY <1>1, <2>2
<1>8. sendSeq'[f] = sendSeq[f] + Len(t)
  BY <1>1, <1>2, <1>5
<1> QED BY <1>2, <1>4, <1>5, <1>6, <1>7, <1>8 DEF m, MarkerFirst

(* No other snapshot's markers move, and where there was none of this      *)
(* snapshot's there is one, past everything sent before.                   *)
LEMMA MarkerAppended ==
    ASSUME NEW id \in SnapshotId, NEW f \in Channel, ChannelsOK,
           MarkerFirst(id, f)
    PROVE  /\ \A x \in SnapshotId \ {id} : Shift(x, f)
           /\ (\A i \in Nat : ~MarkerAt(id, f, i)) =>
                  \A i \in Nat : MarkerAt(id, f, i)' => i = Len(wire[f]) + 1
<1> PICK t \in Seq(Message) :
        /\ wire'[f] = wire[f] \o t /\ Len(t) \in Nat \ {0}
        /\ t[1] = Marker(id)
        /\ \A i \in DOMAIN t : i # 1 => t[i].type # "marker"
  BY DEF MarkerFirst
<1>0. recvSeq'[f] = recvSeq[f]
  BY DEF MarkerFirst
<1>1. ASSUME NEW x \in SnapshotId \ {id} PROVE Shift(x, f)
  <2>1. Marker(x) # Marker(id) /\ Marker(x).type = "marker"
    BY DEF Marker
  <2>2. \A i \in DOMAIN t : t[i] # Marker(x)
    BY <2>1
  <2> QED BY <1>0, <2>2, GrowShift
<1>2. ASSUME \A i \in Nat : ~MarkerAt(id, f, i),
             NEW i \in Nat, MarkerAt(id, f, i)'
      PROVE  i = Len(wire[f]) + 1
  <2> DEFINE w == wire[f]
  <2>1. w \in Seq(Message)
    BY DEF ChannelsOK
  <2>2. i \in DOMAIN (w \o t) /\ (w \o t)[i] = Marker(id)
    BY <1>2 DEF MarkerAt
  <2>3. \A j \in DOMAIN w : j \in Nat => w[j] # Marker(id)
    BY <1>2 DEF MarkerAt
  <2> HIDE DEF w
  <2>4. /\ w \o t \in Seq(Message) /\ Len(w \o t) = Len(w) + Len(t)
        /\ \A j \in 1 .. Len(w) + Len(t) :
               (w \o t)[j] = IF j <= Len(w) THEN w[j] ELSE t[j - Len(w)]
    BY <2>1, ConcatProperties
  <2>5. /\ DOMAIN (w \o t) = 1 .. Len(w) + Len(t) /\ DOMAIN w = 1 .. Len(w)
        /\ DOMAIN t = 1 .. Len(t) /\ Len(w) \in Nat
    BY <2>1, <2>4, LenProperties
  <2>6. i > Len(w)
    <3> SUFFICES ASSUME i <= Len(w) PROVE FALSE
      BY <2>5
    <3>1. i \in DOMAIN w /\ (w \o t)[i] = w[i]
      BY <2>2, <2>4, <2>5
    <3> QED BY <2>2, <2>3, <3>1
  <2>7. t[i - Len(w)] = Marker(id) /\ i - Len(w) \in DOMAIN t
    BY <2>2, <2>4, <2>5, <2>6
  <2>8. i - Len(w) = 1
    <3>1. Marker(id).type = "marker"
      BY DEF Marker
    <3> DEFINE k == i - Len(w)
    <3>2. t[k].type = "marker" /\ k \in DOMAIN t
      BY <2>7, <3>1
    <3> HIDE DEF k
    <3>3. k = 1
      BY <3>2
    <3> QED BY <3>3 DEF k
  <2>9. i = Len(w) + 1
    BY <2>5, <2>8
  <2> QED BY <2>9 DEF w
<1> QED BY <1>1, <1>2

LEMMA ResumeCut ==
    ASSUME IndInv, NEW p \in Node, Resume(p) PROVE CutParts'
<1> USE IndParts
<1>0. PICK id \in SnapshotId : id = snapshotId[p] /\ Begun(id, p)
  BY DEF Resume, BlockedInv, Blocked, Snapshotting, ControllersOK, BegunInv
<1> DEFINE back == <<origin[p], p>>
           Continues == /\ recording[p] # {}
                        /\ recordedSend' = [recordedSend EXCEPT ![p] = SendCut(p)]
                        /\ recordedRecv' = [recordedRecv EXCEPT ![p] = OriginCut(p)]
                        /\ UNCHANGED <<snapshotId, recording, channelState,
                                       inbox, artifact, failures>>
           Ends == /\ recording[p] = {}
                   /\ End(p, "complete", SendCut(p), OriginCut(p),
                          NothingRecorded)
<1>1. /\ Alive(p) /\ phase[p] = "imaged" /\ Broadcast(p)
      /\ phase' = [phase EXCEPT ![p] = "running"]
      /\ origin' = [origin EXCEPT ![p] = Operator]
      /\ Continues \/ Ends
      /\ UNCHANGED <<image, started, aborted, dead, begins>>
  BY DEF Resume
<1>2. /\ recording[p] = Node \ {p, origin[p]} /\ origin[p] # p
      /\ origin[p] # Operator =>
             /\ origin[p] \in Node \ {p} /\ back \in Channel
             /\ wire[back] # << >> /\ Head(wire[back]) = Marker(id)
  <2>1. phase[p] # "running"
    BY <1>1
  <2> QED BY <1>0, <2>1, OperatorAssumption, ChannelPair
          DEF HandlerInv, BlockedInv, Blocked
<1>3. /\ phase'[p] = "running"
      /\ \A r \in Node \ {p} : phase'[r] = phase[r] /\ origin'[r] = origin[r]
  BY <1>1 DEF ControllersOK
<1>4. /\ \A r \in Node \ {p} : /\ snapshotId'[r] = snapshotId[r]
                               /\ recording'[r] = recording[r]
                               /\ recordedSend'[r] = recordedSend[r]
                               /\ recordedRecv'[r] = recordedRecv[r]
      /\ \A k \in Key \ {<<id, p>>} : artifact'[k] = artifact[k]
      /\ snapshotId'[p] \in {id, NoId}
  <2>1. CASE Continues
    BY <1>0, <2>1 DEF ControllersOK
  <2>2. CASE Ends
    BY <1>0, <2>2, EndEffect
  <2> QED BY <1>1, <2>1, <2>2
<1>5. ASSUME NEW x \in SnapshotId, NEW r \in Node, <<x, r>> # <<id, p>>
      PROVE  Untouched(x, r)
  <2>1. <<x, r>> \in Key \ {<<id, p>>}
    BY <1>5 DEF Key
  <2>2. CASE r = p
    BY <1>0, <1>1, <1>4, <1>5, <2>1, <2>2, NoIdAssumption DEF Untouched
  <2>3. CASE r # p
    BY <1>1, <1>3, <1>4, <2>1, <2>3 DEF Untouched
  <2> QED BY <2>2, <2>3
(* What happens on the channels: out of p, back to p's origin, elsewhere.  *)
<1>6. ASSUME NEW f \in Channel, f[1] = p PROVE MarkerFirst(id, f)
  BY <1>0, <1>1, <1>2, <1>6, BroadcastOut
<1>7. ASSUME NEW f \in Channel, f[1] # p
      PROVE  /\ sendSeq'[f] = sendSeq[f]
             /\ f = back => /\ wire'[f] = Tail(wire[f])
                            /\ recvSeq'[f] = recvSeq[f] + 1
                            /\ wire[f] # << >>
             /\ f # back => wire'[f] = wire[f] /\ recvSeq'[f] = recvSeq[f]
  <2>1. f = back => wire[f] # << >>
    BY <1>2, OperatorAssumption, ChannelPair
  <2> QED BY <1>1, <1>7, <2>1 DEF Broadcast
<1>8. ASSUME NEW x \in SnapshotId, NEW f \in Channel, x # id \/ f[1] # p
      PROVE  Shift(x, f)
  <2>1. CASE f[1] = p
    BY <1>6, <1>8, <2>1, MarkerAppended
  <2>2. CASE f[1] # p
    BY <1>7, <2>2, TailShift, SameShift
  <2> QED BY <2>1, <2>2
<1>9. HandlerInv'
  <2>1. ASSUME NEW r \in Node, phase'[r] # "running"
        PROVE  r # p
    BY <1>3, <2>1
  <2>2. ASSUME NEW r \in Node, phase[r] # "running", r # p,
               <<origin[r], r>> \in Channel, wire[<<origin[r], r>>] # << >>
        PROVE  Head(wire'[<<origin[r], r>>]) = Head(wire[<<origin[r], r>>])
    <3> DEFINE f == <<origin[r], r>>
    <3>1. f \in Channel /\ f[2] = r /\ f # back /\ wire[f] \in Seq(Message)
      BY <2>2 DEF ChannelsOK
    <3>2. CASE f[1] = p
      <4> HIDE DEF f
      <4> QED BY <1>6, <2>2, <3>1, <3>2, HeadOfConcat DEF f, MarkerFirst
    <3>3. CASE f[1] # p
      BY <1>7, <3>1, <3>3
    <3> QED BY <3>2, <3>3
  <2> QED BY <1>3, <1>4, <2>1, <2>2, HandlerStays
<1>10. BegunInv'
  <2>1. ASSUME NEW r \in Node, Snapshotting(r)'
        PROVE  snapshotId'[r] = snapshotId[r] /\ Snapshotting(r)
    BY <1>0, <1>4, <2>1 DEF Snapshotting
  <2> QED BY <1>1, <2>1 DEF BegunInv, Begun
<1>11. PlainInv'
  <2>1. \A f \in Channel : outbox'[f] = << >> \/ outbox'[f] = outbox[f]
    BY <1>1 DEF Broadcast
  <2> QED BY <2>1 DEF PlainInv
<1>12. NumberInv'
  <2> SUFFICES ASSUME NEW f \in Channel, f[1] \notin dead
               PROVE  sendSeq'[f] = recvSeq'[f] + Len(wire'[f])
    BY <1>1 DEF NumberInv
  <2>1. /\ sendSeq[f] = recvSeq[f] + Len(wire[f])
        /\ wire[f] \in Seq(Message) /\ recvSeq[f] \in Nat /\ Len(wire[f]) \in Nat
    BY SeqTypes DEF NumberInv, ChannelsOK
  <2>2. CASE f[1] = p
    <3>1. PICK t \in Seq(Message) : /\ wire'[f] = wire[f] \o t
                                    /\ Len(t) \in Nat \ {0}
                                    /\ sendSeq'[f] = sendSeq[f] + Len(t)
      BY <1>6, <2>2 DEF MarkerFirst
    <3>2. Len(wire[f] \o t) = Len(wire[f]) + Len(t) /\ recvSeq'[f] = recvSeq[f]
      BY <1>6, <2>1, <2>2, ConcatProperties DEF MarkerFirst
    <3> DEFINE a == recvSeq[f]  m == Len(wire[f])  n == Len(t)
    <3>3. /\ a \in Nat /\ m \in Nat /\ n \in Nat
          /\ sendSeq'[f] = (a + m) + n /\ Len(wire'[f]) = m + n
          /\ recvSeq'[f] = a
      BY <2>1, <3>1, <3>2
    <3> HIDE DEF a, m, n
    <3> QED BY <3>3
  <2>3. CASE f = back /\ f[1] # p
    <3>1. Len(Tail(wire[f])) = Len(wire[f]) - 1
      BY <1>7, <2>1, <2>3, HeadTailProperties
    <3>2. /\ sendSeq'[f] = sendSeq[f] /\ wire'[f] = Tail(wire[f])
          /\ recvSeq'[f] = recvSeq[f] + 1
      BY <1>7, <2>3
    <3> DEFINE a == recvSeq[f]  m == Len(wire[f])
    <3>3. /\ a \in Nat /\ m \in Nat /\ sendSeq'[f] = a + m
          /\ Len(wire'[f]) = m - 1 /\ recvSeq'[f] = a + 1
      BY <2>1, <3>1, <3>2
    <3> HIDE DEF a, m
    <3> QED BY <3>3
  <2>4. CASE f # back /\ f[1] # p
    BY <1>7, <2>1, <2>4
  <2> QED BY <2>2, <2>3, <2>4
<1>13. ASSUME id \notin aborted PROVE CutOf(id)'
  <2>1. CutOf(id) /\ StoreInv(id, p) /\ artifact[<<id, p>>].status = "none"
    BY <1>0, <1>13 DEF CutInv, CutOf, StoreInv
  <2>2. Begun(id, p)' /\ ~Sent(id, p)
    BY <1>0, <1>1 DEF Begun, Sent
  <2>3. \/ /\ Continues /\ snapshotId'[p] = id /\ recording'[p] = recording[p]
           /\ recordedSend'[p] = SendCut(p) /\ recordedRecv'[p] = OriginCut(p)
           /\ artifact'[<<id, p>>].status = "none"
        \/ /\ recording[p] = {} /\ snapshotId'[p] = NoId
           /\ \/ artifact'[<<id, p>>].status = "none"
              \/ /\ artifact'[<<id, p>>].status = "complete"
                 /\ artifact'[<<id, p>>].send = SendCut(p)
                 /\ artifact'[<<id, p>>].recv = OriginCut(p)
    <3>1. CASE Continues
      BY <1>0, <2>1, <3>1 DEF ControllersOK
    <3>2. CASE Ends
      BY <1>0, <2>1, <3>2, EndEffect
    <3> QED BY <1>1, <3>1, <3>2
  <2>4. ASSUME NEW f \in Channel, f[1] = p
        PROVE  MarkerInv(id, f)' /\ MatchInv(id, f)'
    <3>1. /\ f[2] \in Node /\ f[2] # p /\ f = <<p, f[2]>>
          /\ recvSeq[f] \in Nat /\ Len(wire[f]) \in Nat
      BY <2>4, ChannelPair, SeqTypes DEF ChannelsOK
    <3>2. MarkerInv(id, f) /\ MatchInv(id, f)
      BY <2>1 DEF CutOf
    <3>3. ~Got(id, f) /\ \A i \in Nat : ~MarkerAt(id, f, i)
      BY <2>2, <2>4, <3>2 DEF MarkerInv, MatchInv, SendIs
    <3>4. ~Got(id, f)'
      BY <1>5, <3>1, <3>3, UntouchedEnds DEF ReceiverKept
    <3>5. \A i \in Nat : MarkerAt(id, f, i)' => i = Len(wire[f]) + 1
      BY <1>6, <2>4, <3>3, MarkerAppended
    <3>6. SendCut(p)[f[2]] = recvSeq[f] + Len(wire[f]) + 1
      BY <1>1, <2>4, <3>1 DEF SendCut, NumberInv, Alive
    <3>7. ASSUME NEW v \in Nat, v = recvSeq[f] + Len(wire[f]) + 1
          PROVE  SendIs(id, f, v)'
      BY <1>3, <2>2, <2>3, <2>4, <3>6, <3>7, NoIdAssumption DEF SendIs, Sent
    <3>8. ASSUME NEW i \in Nat, MarkerAt(id, f, i)'
          PROVE  SendIs(id, f, recvSeq[f] + i)'
      <4>1. i = Len(wire[f]) + 1 /\ recvSeq'[f] = recvSeq[f]
        BY <1>6, <2>4, <3>5, <3>8 DEF MarkerFirst
      <4>2. /\ recvSeq'[f] + i = recvSeq[f] + Len(wire[f]) + 1
            /\ recvSeq'[f] + i \in Nat
        BY <3>1, <4>1
      <4> QED BY <3>7, <4>2
    <3>9. \A i, j \in Nat : MarkerAt(id, f, i)' /\ MarkerAt(id, f, j)' => j = i
      BY <3>5
    <3> QED BY <3>4, <3>8, <3>9 DEF MarkerInv, MatchInv
  <2>5. ASSUME NEW f \in Channel, f[2] = p
        PROVE  MarkerInv(id, f)' /\ MatchInv(id, f)'
    <3>1. /\ f[1] \in Node /\ f[1] # p /\ f = <<f[1], p>> /\ f[2] # f[1]
          /\ recvSeq[f] \in Nat /\ wire[f] \in Seq(Message)
      BY <2>5, ChannelPair DEF ChannelsOK
    <3>2. MarkerInv(id, f) /\ MatchInv(id, f) /\ SenderKept(id, f)
      BY <1>5, <2>1, <3>1, UntouchedEnds DEF CutOf
    <3>3. CASE f[1] = origin[p]
      <4>1. /\ f = back /\ wire'[f] = Tail(wire[f]) /\ wire[f] # << >>
            /\ Head(wire[f]) = Marker(id)
        BY <1>2, <1>7, <3>1, <3>3, OperatorAssumption
      <4>2. MarkerAt(id, f, 1)
        BY <3>1, <4>1, HeadIsFirst DEF MarkerAt
      <4>3. Got(id, f)'
        BY <1>2, <1>3, <2>2, <2>3, <2>5, <3>3, NoIdAssumption DEF Got
      <4>4. OriginCut(p)[f[1]] = recvSeq[f] + 1
        BY <3>1, <3>3 DEF OriginCut
      <4>5. ASSUME NEW v \in Nat, v = recvSeq[f] + 1 PROVE RecvIs(id, f, v)'
        BY <2>3, <2>5, <4>4, <4>5, NoIdAssumption DEF RecvIs
      <4>6. recvSeq[f] + 1 \in Nat
        BY <3>1
      <4> QED BY <3>2, <4>1, <4>2, <4>3, <4>5, <4>6, MarkerConsumed
    <3>4. CASE f[1] # origin[p]
      <4>1. f[1] \in recording[p]
        BY <1>2, <3>1, <3>4
      <4>2. ~Got(id, f) /\ ~Got(id, f)'
        BY <1>0, <1>1, <2>3, <2>5, <4>1 DEF Got
      <4>3. ReceiverKept(id, f) /\ Shift(id, f)
        BY <1>8, <3>1, <4>2 DEF ReceiverKept
      <4> QED BY <3>1, <3>2, <4>3, ChannelKept
    <3> QED BY <3>3, <3>4
  <2>6. ASSUME NEW f \in Channel, f[1] # p, f[2] # p
        PROVE  MarkerInv(id, f)' /\ MatchInv(id, f)'
    <3>1. f[1] \in Node /\ f[2] \in Node /\ recvSeq[f] \in Nat
      BY ChannelPair DEF ChannelsOK
    <3>2. SenderKept(id, f) /\ ReceiverKept(id, f) /\ Shift(id, f)
      BY <1>5, <1>8, <2>6, <3>1, UntouchedEnds
    <3>3. MarkerInv(id, f) /\ MatchInv(id, f)
      BY <2>1 DEF CutOf
    <3> QED BY <3>1, <3>2, <3>3, ChannelKept
  <2>7. ASSUME NEW r \in Node PROVE StoreInv(id, r)'
    <3>1. CASE r # p
      BY <1>5, <2>1, <3>1, UntouchedStores DEF CutOf
    <3>2. CASE r = p
      BY <1>3, <2>2, <2>3, <3>2, NoIdAssumption DEF StoreInv
    <3> QED BY <3>1, <3>2
  <2> QED BY <2>4, <2>5, <2>6, <2>7 DEF CutOf
<1>14. CutInv'
  <2>1. ASSUME NEW x \in SnapshotId \ aborted, x # id PROVE CutOf(x)'
    BY <1>5, <1>8, <2>1, UntouchedCut DEF CutInv
  <2> QED BY <1>1, <1>13, <2>1 DEF CutInv
<1> QED BY <1>9, <1>10, <1>11, <1>12, <1>14 DEF CutParts

-----------------------------------------------------------------------------

LEMMA CutStep == IndInv /\ [Next]_vars => CutParts'
<1> SUFFICES ASSUME IndInv, [Next]_vars PROVE CutParts'
  OBVIOUS
<1>1. CASE UNCHANGED vars
  <2>1. PlainInv'
    BY <1>1, IndParts DEF PlainInv, vars, apps
  <2> QED BY <1>1, <2>1, CutSame DEF vars, bookkeeping
<1>2. CASE Environment
  BY <1>2, TransferCut, StartCut, StartIgnoredCut, DieCut DEF Environment
<1>3. ASSUME NEW p \in Node, Step(p) PROVE CutParts'
  <2>1. ASSUME NEW q \in Node, ReadCredit(p, q) \/ Receive(p, q)
        PROVE  CutParts'
    BY <2>1, ReadCreditCut, ReceiveFirstMarkerCut, ReceiveMarkerCut,
       IgnoreMarkerCut, RecordCut, DeliverCut DEF Receive
  <2>2. CASE Forward(p) \/ TakeImage(p) \/ CheckpointFails(p) \/ Resume(p)
             \/ Timeout(p)
    BY <2>2, ForwardCut, TakeImageCut, CheckpointFailsCut, ResumeCut, TimeoutCut
  <2> QED BY <1>3, <2>1, <2>2 DEF Step
<1> QED BY <1>1, <1>2, <1>3 DEF Next

LEMMA CutInvariance == Spec => []IndInv
<1>1. Init => IndInv
  BY CutInit
<1>2. IndInv /\ [Next]_vars => IndInv'
  BY StepTypes, CutStep DEF IndInv
<1> QED BY <1>1, <1>2, PTL DEF Spec

(* The two ends of every channel are restored to the same sequence number, *)
(* as long as nobody aborted the snapshot ("sender send_seq and receiver   *)
(* recv_seq match by construction", snapshot_handler.py:233), whatever     *)
(* snapshots overlap, servers die and POSTs fail.                          *)
THEOREM CutsMatch == Spec => []SeqMatch
<1>1. IndInv => SeqMatch
  <2> SUFFICES ASSUME IndInv, NEW id \in SnapshotId \ aborted, Complete(id),
                      NEW p \in Node, NEW q \in Node \ {p}
               PROVE  artifact[<<id, p>>].send[q] = artifact[<<id, q>>].recv[p]
    BY DEF SeqMatch, CutMatches
  <2> DEFINE f == <<p, q>>
  <2>1. f \in Channel /\ f[1] = p /\ f[2] = q
    BY ChannelPair
  <2>2. MatchInv(id, f) /\ StoreInv(id, q)
    BY <2>1, IndParts DEF CutInv, CutOf
  <2>3. /\ artifact[<<id, p>>].status = "complete"
        /\ artifact[<<id, q>>].status = "complete"
    BY DEF Complete
  <2> HIDE DEF f
  <2>4. Got(id, f)
    BY <2>1, <2>2, <2>3 DEF StoreInv, Got
  <2>5. PICK v \in Nat : SendIs(id, f, v) /\ RecvIs(id, f, v)
    BY <2>2, <2>4 DEF MatchInv
  <2> QED BY <2>1, <2>3, <2>5 DEF SendIs, RecvIs
<1> QED BY <1>1, CutInvariance, PTL

(* What a step stores it stores for the first time.                        *)
LEMMA StoresStep ==
    ASSUME IndInv, [Next]_vars, NEW k \in Key, k[1] \notin aborted
    PROVE  /\ image[k].taken => image'[k] = image[k]
           /\ artifact[k].status # "none" => artifact'[k] = artifact[k]
<1> USE IndParts
<1>1. k[1] \in SnapshotId \ aborted /\ k[2] \in Node /\ k = <<k[1], k[2]>>
  BY DEF Key
<1>2. StoreInv(k[1], k[2])
  BY <1>1 DEF CutInv, CutOf
<1>3. ASSUME NEW p \in Node, snapshotId[p] = k[1], p = k[2]
      PROVE  /\ artifact[k].status = "none"
             /\ phase[p] = "posted" => ~image[k].taken
  BY <1>1, <1>2, <1>3 DEF StoreInv
<1>4. ASSUME NEW p \in Node, NEW art, Post(p, art), artifact[k].status # "none"
      PROVE  artifact'[k] = artifact[k]
  <2>1. k # <<snapshotId[p], p>>
    BY <1>1, <1>3, <1>4
  <2> QED BY <1>4, <2>1 DEF Post, StoresOK
<1>5. ASSUME NEW p \in Node, TakeImage(p), image[k].taken
      PROVE  image'[k] = image[k]
  <2>1. k # <<snapshotId[p], p>>
    BY <1>1, <1>3, <1>5 DEF TakeImage
  <2> QED BY <1>5, <2>1 DEF TakeImage, StoresOK
<1>6. CASE UNCHANGED vars
  BY <1>6 DEF vars, stores
<1>7. CASE Environment
  BY <1>7 DEF Environment, Transfer, Start, StartIgnored, Begin, Die, stores
<1>8. ASSUME NEW p \in Node, Step(p)
      PROVE  /\ image[k].taken => image'[k] = image[k]
             /\ artifact[k].status # "none" => artifact'[k] = artifact[k]
  <2>1. CASE Forward(p) \/ CheckpointFails(p)
             \/ \E q \in Node : \/ ReadCredit(p, q) \/ ReceiveFirstMarker(p, q)
                                \/ IgnoreMarker(p, q) \/ Record(p, q)
                                \/ Deliver(p, q)
    BY <2>1 DEF Forward, CheckpointFails, ReadCredit, ReceiveFirstMarker,
                IgnoreMarker, Record, Deliver, Begin, stores
  <2>2. CASE TakeImage(p)
    BY <1>5, <2>2 DEF TakeImage
  <2>3. CASE Resume(p)
    BY <1>4, <2>3 DEF Resume, End
  <2>4. CASE Timeout(p)
    BY <1>4, <2>4 DEF Timeout, End
  <2>5. ASSUME NEW q \in Node, ReceiveMarker(p, q)
        PROVE  /\ image[k].taken => image'[k] = image[k]
               /\ artifact[k].status # "none" => artifact'[k] = artifact[k]
    BY <1>4, <2>5 DEF ReceiveMarker, End
  <2> QED BY <1>8, <2>1, <2>2, <2>3, <2>4, <2>5 DEF Step, Receive
<1> QED BY <1>6, <1>7, <1>8 DEF Next

(* A node checkpoints its application and writes its artifact once per     *)
(* snapshot, unless some node aborted it: no marker of a finished snapshot *)
(* is left over that process_message could take for a first one            *)
(* (snapshot_handler.py:82).                                               *)
THEOREM NothingStoredTwice == Spec => StoredOnce
<1>1. IndInv /\ [Next]_vars
      => [\A k \in Key : k[1] \notin aborted =>
             /\ image[k].taken => image'[k] = image[k]
             /\ artifact[k].status # "none" => artifact'[k] = artifact[k]]_vars
  BY StoresStep
<1> QED BY <1>1, CutInvariance, PTL DEF Spec, StoredOnce
=============================================================================
