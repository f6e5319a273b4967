------------------------- MODULE SnapshotCreditProofs -------------------------
(***************************************************************************)
(* The credits of the running system are conserved, for every finite set   *)
(* of servers, every set of snapshot ids and every bound.                  *)
(*                                                                         *)
(* Every step moves credits along one channel: from the outbox onto the    *)
(* wire, from the wire into the inbox or into the recorded messages, from  *)
(* there into the inbox.  What a channel holds in these four places is     *)
(* left alone by every step but the two of the applications, which move    *)
(* one credit between a counter and a channel.                             *)
(***************************************************************************)
EXTENDS SnapshotCutProofs, SumTheorems

CreditMessages == {m \in Message : m.type = "credit"}
CreditRecords == {e \in [seq : Nat, msg : Message] : e.msg.type = "credit"}

LEMMA CreditsCount ==
    /\ \A s \in Seq(Message) : Credits(s) = Count(s, CreditMessages)
    /\ \A r \in Recorded : CreditsIn(r) = Count(r, CreditRecords)
<1>1. ASSUME NEW s \in Seq(Message)
      PROVE  Credits(s) = Count(s, CreditMessages)
  <2>1. \A i \in DOMAIN s : s[i] \in Message
    BY LenProperties, ElementOfSeq
  <2>2. {i \in DOMAIN s : s[i].type = "credit"}
        = {i \in DOMAIN s : s[i] \in CreditMessages}
    BY <2>1 DEF CreditMessages
  <2> QED BY <2>2 DEF Credits, Count
<1>2. ASSUME NEW r \in Recorded
      PROVE  CreditsIn(r) = Count(r, CreditRecords)
  <2>1. \A i \in DOMAIN r : r[i] \in [seq : Nat, msg : Message]
    BY LenProperties, ElementOfSeq DEF Recorded
  <2>2. {i \in DOMAIN r : r[i].msg.type = "credit"}
        = {i \in DOMAIN r : r[i] \in CreditRecords}
    BY <2>1 DEF CreditRecords
  <2> QED BY <2>2 DEF CreditsIn, Count
<1> QED BY <1>1, <1>2

IsCredit(m) == IF m.type = "credit" THEN 1 ELSE 0

LEMMA CreditsAppend ==
    ASSUME NEW s \in Seq(Message), NEW m \in Message
    PROVE  Credits(Append(s, m)) = Credits(s) + IsCredit(m)
<1>1. Append(s, m) \in Seq(Message)
  BY SeqTypes
<1>2. Count(Append(s, m), CreditMessages)
      = Count(s, CreditMessages) + (IF m \in CreditMessages THEN 1 ELSE 0)
  BY CountAppend
<1>3. m \in CreditMessages <=> m.type = "credit"
  BY DEF CreditMessages
<1>4. (IF m \in CreditMessages THEN 1 ELSE 0) = IsCredit(m)
  BY <1>3 DEF IsCredit
<1> QED BY <1>1, <1>2, <1>4, CreditsCount

LEMMA CreditsConcat ==
    ASSUME NEW s \in Seq(Message), NEW t \in Seq(Message)
    PROVE  Credits(s \o t) = Credits(s) + Credits(t)
<1>1. s \o t \in Seq(Message)
  BY SeqTypes
<1>2. Count(s \o t, CreditMessages)
      = Count(s, CreditMessages) + Count(t, CreditMessages)
  BY CountConcat
<1> QED BY <1>1, <1>2, CreditsCount

LEMMA CreditsTail ==
    ASSUME NEW s \in Seq(Message), s # << >>
    PROVE  Credits(s) = IsCredit(Head(s)) + Credits(Tail(s))
<1>1. Tail(s) \in Seq(Message) /\ Head(s) \in Message
  BY SeqTypes
<1>2. Count(s, CreditMessages)
      = (IF Head(s) \in CreditMessages THEN 1 ELSE 0)
        + Count(Tail(s), CreditMessages)
  BY CountTail
<1>3. Head(s) \in CreditMessages <=> Head(s).type = "credit"
  BY <1>1 DEF CreditMessages
<1>4. (IF Head(s) \in CreditMessages THEN 1 ELSE 0) = IsCredit(Head(s))
  BY <1>3 DEF IsCredit
<1> QED BY <1>1, <1>2, <1>4, CreditsCount

LEMMA CreditsNone ==
    /\ Credits(<< >>) = 0 /\ CreditsIn(<< >>) = 0
    /\ \A q \in Node : CreditsIn(NothingRecorded[q]) = 0
    /\ IsCredit(Credit) = 1 /\ IsCredit(Reply) = 0
    /\ \A id : IsCredit(Marker(id)) = 0
<1>1. {i \in DOMAIN << >> : << >>[i].type = "credit"} = {}
      /\ {i \in DOMAIN << >> : << >>[i].msg.type = "credit"} = {}
  OBVIOUS
<1>2. Credits(<< >>) = 0 /\ CreditsIn(<< >>) = 0
  BY <1>1, FS_EmptySet DEF Credits, CreditsIn
<1> QED BY <1>2 DEF IsCredit, Credit, Reply, Marker, NothingRecorded

LEMMA CreditsInAppend ==
    ASSUME NEW r \in Recorded, NEW n \in Nat, NEW m \in Message
    PROVE  CreditsIn(Append(r, [seq |-> n, msg |-> m]))
           = CreditsIn(r) + IsCredit(m)
<1> DEFINE e == [seq |-> n, msg |-> m]
           R == [seq : Nat, msg : Message]
<1>1. e \in R /\ (e \in CreditRecords <=> m.type = "credit") /\ r \in Seq(R)
  BY DEF CreditRecords, Recorded
<1> HIDE DEF e, R
<1>2. Count(Append(r, e), CreditRecords)
      = Count(r, CreditRecords) + (IF e \in CreditRecords THEN 1 ELSE 0)
  BY <1>1, CountAppend
<1>3. Append(r, e) \in Recorded
  BY <1>1, SeqTypes DEF Recorded, R
<1>4. (IF e \in CreditRecords THEN 1 ELSE 0) = IsCredit(m)
  BY <1>1 DEF IsCredit
<1> QED BY <1>2, <1>3, <1>4, CreditsCount DEF e

-----------------------------------------------------------------------------
(* A server has no channel to itself, nothing is withheld outside a        *)
(* snapshot or while its handler is blocked, and an artifact that was not  *)
(* stored has nothing.                                                     *)

EmptyAt(p) ==
    /\ inbox[p][p] = 0 /\ channelState[p][p] = << >>
    /\ ~Snapshotting(p) \/ phase[p] # "running" =>
           channelState[p] = NothingRecorded

StoredAt(k) ==
    /\ image[k].unread[k[2]] = 0 /\ image[k].unsent[k[2]] = 0
    /\ artifact[k].channel[k[2]] = << >>
    /\ artifact[k].status = "none" => artifact[k].channel = NothingRecorded

FlowInv == (\A p \in Node : EmptyAt(p)) /\ (\A k \in Key : StoredAt(k))

LEMMA FlowInit == Init => FlowInv
<1> SUFFICES ASSUME Init PROVE FlowInv
  OBVIOUS
<1>1. \A p \in Node : EmptyAt(p)
  BY DEF Init, EmptyAt, NoneFrom, NothingRecorded
<1>2. ASSUME NEW k \in Key PROVE StoredAt(k)
  <2>1. k[2] \in Node /\ image[k] = NoImage /\ artifact[k] = NoArtifact
    BY DEF Init, Key
  <2> QED BY <2>1 DEF StoredAt, NoImage, NoArtifact, NoneFrom, NothingRecorded
<1> QED BY <1>1, <1>2 DEF FlowInv

(* The effect of a flush that delivers what p has withheld.                *)
FlushEffect(p) ==
    /\ snapshotId'[p] = NoId /\ channelState'[p] = NothingRecorded
    /\ \A q \in Node :
           inbox'[p][q] = inbox[p][q] + CreditsIn(channelState[p][q])
    /\ \A r \in Node \ {p} : /\ snapshotId'[r] = snapshotId[r]
                             /\ channelState'[r] = channelState[r]
                             /\ inbox'[r] = inbox[r]

LEMMA EndFlushes ==
    ASSUME TypeInv, NEW p \in Node, NEW status, NEW send, NEW recv,
           NEW withheld, withheld = channelState[p],
           End(p, status, send, recv, withheld)
    PROVE  FlushEffect(p)
<1>1. ControllersOK /\ AppsOK
  BY TypeParts DEF TypeInv
<1>2. FlushAndReset(p, withheld)
  BY DEF End
<1>3. /\ snapshotId'[p] = NoId /\ channelState'[p] = NothingRecorded
      /\ \A r \in Node \ {p} : /\ snapshotId'[r] = snapshotId[r]
                               /\ channelState'[r] = channelState[r]
                               /\ inbox'[r] = inbox[r]
  BY <1>1, <1>2 DEF FlushAndReset, ForgetCut, ControllersOK, AppsOK
<1>4. \A q \in Node :
          inbox'[p][q] = inbox[p][q] + CreditsIn(channelState[p][q])
  BY <1>1, <1>2 DEF FlushAndReset, ForgetCut, AppsOK
<1> QED BY <1>3, <1>4 DEF FlushEffect

(* At the end of a snapshot the artifact has what was withheld.            *)
StoresWithheld(p) ==
    \A k \in Key :
        \/ artifact'[k] = artifact[k]
        \/ /\ k = <<snapshotId[p], p>> /\ artifact'[k].status # "none"
           /\ artifact'[k].channel = channelState[p]

LEMMA EndStores ==
    ASSUME TypeInv, NEW p \in Node, NEW status, status # "none",
           NEW send, NEW recv, NEW withheld, withheld = channelState[p],
           End(p, status, send, recv, withheld)
    PROVE  StoresWithheld(p)
<1> DEFINE art == [status |-> status, send |-> send, recv |-> recv,
                   channel |-> withheld]
           k0 == <<snapshotId[p], p>>
<1>1. Post(p, art) /\ art.status # "none" /\ art.channel = channelState[p]
  BY DEF End
<1> HIDE DEF art
<1>2. artifact' = [artifact EXCEPT ![k0] = art] \/ artifact' = artifact
  BY <1>1 DEF Post
<1>3. DOMAIN artifact = Key
  BY TypeParts DEF TypeInv, StoresOK
<1> QED BY <1>1, <1>2, <1>3 DEF StoresWithheld

LEMMA FlushEmpties ==
    ASSUME TypeInv, FlowInv, NEW p \in Node, FlushEffect(p),
           \A r \in Node \ {p} : phase'[r] = phase[r]
    PROVE  \A r \in Node : EmptyAt(r)'
<1> SUFFICES ASSUME NEW r \in Node PROVE EmptyAt(r)'
  OBVIOUS
<1>1. EmptyAt(r)
  BY DEF FlowInv
<1>2. CASE r = p
  <2>1. CreditsIn(channelState[p][p]) = 0
    BY <1>1, <1>2, CreditsNone DEF EmptyAt
  <2> QED BY <1>1, <1>2, <2>1 DEF EmptyAt, FlushEffect, NothingRecorded
<1>3. CASE r # p
  BY <1>1, <1>3 DEF EmptyAt, FlushEffect, Snapshotting
<1> QED BY <1>2, <1>3

LEMMA StoresKept ==
    ASSUME FlowInv, NEW p \in Node, StoresWithheld(p), UNCHANGED image
    PROVE  \A k \in Key : StoredAt(k)'
<1> SUFFICES ASSUME NEW k \in Key PROVE StoredAt(k)'
  OBVIOUS
<1>1. StoredAt(k) /\ EmptyAt(p)
  BY DEF FlowInv
<1>2. CASE artifact'[k] = artifact[k]
  BY <1>1, <1>2 DEF StoredAt
<1>3. CASE /\ k = <<snapshotId[p], p>> /\ artifact'[k].status # "none"
           /\ artifact'[k].channel = channelState[p]
  <2>1. k[2] = p
    BY <1>3
  <2> QED BY <1>1, <1>3, <2>1 DEF StoredAt, EmptyAt
<1> QED BY <1>2, <1>3 DEF StoresWithheld

(* Nothing EmptyAt or StoredAt is about changes.                           *)
LEMMA FlowSame ==
    ASSUME FlowInv, UNCHANGED <<image, artifact>>,
           \A r \in Node :
               /\ inbox'[r][r] = inbox[r][r]
               /\ channelState'[r][r] = channelState[r][r]
               /\ ~Snapshotting(r)' \/ phase'[r] # "running" =>
                      /\ ~Snapshotting(r) \/ phase[r] # "running"
                      /\ channelState'[r] = channelState[r]
    PROVE  FlowInv'
BY DEF FlowInv, EmptyAt, StoredAt

-----------------------------------------------------------------------------
(* What a channel holds, on its way and at its receiver's door.            *)

Flight(f) == Credits(outbox[f]) + Credits(wire[f])
Door(f) == inbox[f[2]][f[1]] + CreditsIn(channelState[f[2]][f[1]])
Load(f) == Flight(f) + Door(f)

LoadsKept == \A f \in Channel : Load(f)' = Load(f)

LEMMA LoadTypes ==
    ASSUME TypeInv, NEW f \in Channel
    PROVE  /\ Flight(f) \in Nat /\ Door(f) \in Nat /\ Load(f) \in Nat
           /\ Credits(outbox[f]) \in Nat /\ Credits(wire[f]) \in Nat
           /\ inbox[f[2]][f[1]] \in Nat
           /\ CreditsIn(channelState[f[2]][f[1]]) \in Nat
           /\ outbox[f] \in Seq(Message) /\ wire[f] \in Seq(Message)
           /\ channelState[f[2]][f[1]] \in Recorded
<1>1. ChannelsOK /\ AppsOK /\ ControllersOK
  BY TypeParts DEF TypeInv
<1>2. f[1] \in Node /\ f[2] \in Node
  BY ChannelPair
<1>3. /\ outbox[f] \in Seq(Message) /\ wire[f] \in Seq(Message)
      /\ inbox[f[2]][f[1]] \in Nat
      /\ channelState[f[2]][f[1]] \in Recorded
  BY <1>1, <1>2 DEF ChannelsOK, AppsOK, ControllersOK
<1>4. /\ Credits(outbox[f]) \in Nat /\ Credits(wire[f]) \in Nat
      /\ CreditsIn(channelState[f[2]][f[1]]) \in Nat
  BY <1>3, CreditsType, CreditsInType
<1>5. Flight(f) \in Nat
  BY <1>4 DEF Flight
<1>6. Door(f) \in Nat
  BY <1>3, <1>4 DEF Door
<1>7. Load(f) \in Nat
  BY <1>5, <1>6 DEF Load
<1> QED BY <1>3, <1>4, <1>5, <1>6, <1>7

LEMMA DrainFlight ==
    ASSUME TypeInv, NEW p \in Node, Drain(p)
    PROVE  \A f \in Channel : Flight(f)' = Flight(f)
<1> SUFFICES ASSUME NEW f \in Channel PROVE Flight(f)' = Flight(f)
  OBVIOUS
<1>1. /\ outbox[f] \in Seq(Message) /\ wire[f] \in Seq(Message)
      /\ Credits(outbox[f]) \in Nat /\ Credits(wire[f]) \in Nat
  BY LoadTypes
<1>2. CASE f[1] = p
  <2>1. wire'[f] = wire[f] \o outbox[f] /\ outbox'[f] = << >>
    BY <1>2 DEF Drain
  <2>2. Credits(wire[f] \o outbox[f]) = Credits(wire[f]) + Credits(outbox[f])
    BY <1>1, CreditsConcat
  <2> QED BY <1>1, <2>1, <2>2, CreditsNone DEF Flight
<1>3. CASE f[1] # p
  BY <1>3 DEF Drain, Flight
<1> QED BY <1>2, <1>3

LEMMA ConsumeFlight ==
    ASSUME TypeInv, NEW p \in Node, NEW q \in Node, HasHead(q, p),
           Consume(p, q), UNCHANGED outbox, NEW f \in Channel
    PROVE  /\ f # <<q, p>> => Flight(f)' = Flight(f)
           /\ f = <<q, p>> =>
                  Flight(f)' = Flight(f) - IsCredit(Arriving(q, p))
<1>1. /\ wire[f] \in Seq(Message)
      /\ Credits(outbox[f]) \in Nat /\ Credits(wire[f]) \in Nat /\ ChannelsOK
  BY LoadTypes, TypeParts DEF TypeInv
<1>2. CASE f # <<q, p>>
  <2>1. wire'[f] = wire[f]
    BY <1>1, <1>2, ConsumeElsewhere
  <2> QED BY <1>2, <2>1 DEF Flight
<1>3. CASE f = <<q, p>>
  <2>1. /\ wire[f] # << >> /\ wire'[f] = Tail(wire[f])
        /\ Arriving(q, p) = Head(wire[f])
    BY <1>1, <1>3 DEF HasHead, Consume, ChannelsOK, Arriving
  <2>2. Tail(wire[f]) \in Seq(Message)
    BY <1>1, <2>1, SeqTypes
  <2>3. Credits(wire[f]) = IsCredit(Head(wire[f])) + Credits(Tail(wire[f]))
        /\ Credits(Tail(wire[f])) \in Nat
    BY <1>1, <2>1, <2>2, CreditsTail, CreditsType
  <2>4. IsCredit(Head(wire[f])) \in Nat
    BY DEF IsCredit
  <2>5. Flight(f)' = Credits(outbox[f]) + Credits(Tail(wire[f]))
    BY <2>1 DEF Flight
  <2> QED BY <1>1, <1>3, <2>1, <2>3, <2>4, <2>5 DEF Flight
<1> QED BY <1>2, <1>3

LEMMA FlushDoor ==
    ASSUME TypeInv, NEW p \in Node, FlushEffect(p)
    PROVE  \A f \in Channel : Door(f)' = Door(f)
<1> SUFFICES ASSUME NEW f \in Channel PROVE Door(f)' = Door(f)
  OBVIOUS
<1>1. /\ f[1] \in Node /\ f[2] \in Node
      /\ inbox[f[2]][f[1]] \in Nat
      /\ CreditsIn(channelState[f[2]][f[1]]) \in Nat
  BY LoadTypes, ChannelPair
<1>2. CASE f[2] = p
  <2>1. /\ channelState'[p][f[1]] = NothingRecorded[f[1]]
        /\ inbox'[p][f[1]] = inbox[p][f[1]] + CreditsIn(channelState[p][f[1]])
    BY <1>1, <1>2 DEF FlushEffect
  <2> QED BY <1>1, <1>2, <2>1, CreditsNone DEF Door
<1>3. CASE f[2] # p
  BY <1>1, <1>3 DEF Door, FlushEffect
<1> QED BY <1>2, <1>3

LEMMA SameDoor ==
    ASSUME UNCHANGED <<inbox, channelState>>
    PROVE  \A f \in Channel : Door(f)' = Door(f)
BY DEF Door

(* What a controller puts on the wire after the POST is what was pending,  *)
(* and markers; what it takes from it is a marker.                         *)
LEMMA BroadcastFlight ==
    ASSUME TypeInv, HandlerInv, NEW p \in Node, phase[p] # "running",
           Broadcast(p)
    PROVE  \A f \in Channel : Flight(f)' = Flight(f)
<1> SUFFICES ASSUME NEW f \in Channel PROVE Flight(f)' = Flight(f)
  OBVIOUS
<1> DEFINE from == origin[p]
           w == wire[f]
           o == outbox[f]
<1>1. /\ o \in Seq(Message) /\ w \in Seq(Message)
      /\ Credits(o) \in Nat /\ Credits(w) \in Nat /\ ControllersOK
  BY LoadTypes, TypeParts DEF TypeInv
<1>2. PICK m : m = Marker(snapshotId[p])
  OBVIOUS
<1>3. /\ snapshotId[p] \in SnapshotId /\ m \in Message /\ IsCredit(m) = 0
  <2>1. Blocked(p)
    BY DEF TypeInv, BlockedInv
  <2>2. snapshotId[p] \in SnapshotId
    BY <1>1, <2>1 DEF Blocked, Snapshotting, ControllersOK
  <2> QED BY <1>2, <2>2, MessageTypes, CreditsNone
<1>4. Append(w, m) \in Seq(Message) /\ Credits(Append(w, m)) = Credits(w)
  <2>1. Append(w, m) \in Seq(Message)
    BY <1>1, <1>3, SeqTypes
  <2>2. Credits(Append(w, m)) = Credits(w) + IsCredit(m)
    BY <1>1, <1>3, CreditsAppend
  <2> QED BY <1>1, <1>3, <2>1, <2>2
<1>5. CASE f[1] = p /\ from = Operator
  <2>1. wire'[f] = Append(w, m) \o o /\ outbox'[f] = << >>
    BY <1>2, <1>5 DEF Broadcast
  <2>2. Credits(Append(w, m) \o o) = Credits(Append(w, m)) + Credits(o)
    BY <1>1, <1>4, CreditsConcat
  <2> QED BY <1>1, <1>4, <2>1, <2>2, CreditsNone DEF Flight
<1>6. CASE f[1] = p /\ from # Operator
  <2>1. wire'[f] = Append(w, m) \o << >> /\ outbox'[f] = o
    BY <1>2, <1>6 DEF Broadcast
  <2>2. Append(w, m) \o << >> = Append(w, m)
    BY <1>4, ConcatEmptySeq
  <2> QED BY <1>1, <1>4, <2>1, <2>2 DEF Flight
<1>7. CASE f[1] # p /\ f = <<from, p>>
  <2>1. from # Operator /\ w # << >> /\ Head(w) = m
    <3>1. from \in Node
      BY <1>7, ChannelPair
    <3>2. from # Operator
      BY <3>1, OperatorAssumption
    <3> QED BY <1>2, <1>7, <3>2 DEF TypeInv, BlockedInv, Blocked, HandlerInv
  <2>2. wire'[f] = Tail(w) /\ outbox'[f] = o
    BY <1>7 DEF Broadcast
  <2>3. Credits(w) = IsCredit(m) + Credits(Tail(w)) /\ Credits(Tail(w)) \in Nat
    BY <1>1, <2>1, SeqTypes, CreditsTail, CreditsType
  <2> QED BY <1>1, <1>3, <2>2, <2>3 DEF Flight
<1>8. CASE f[1] # p /\ f # <<from, p>>
  BY <1>8 DEF Broadcast, Flight
<1> QED BY <1>5, <1>6, <1>7, <1>8

-----------------------------------------------------------------------------
(* One lemma per action.                                                   *)

(* One channel's load changes, and one counter the other way.              *)
Moves(p, f, d) ==
    /\ counter' = [counter EXCEPT ![p] = @ - d]
    /\ Load(f)' = Load(f) + d
    /\ \A g \in Channel \ {f} : Load(g)' = Load(g)

LEMMA OutboxGrows ==
    ASSUME TypeInv, NEW f \in Channel, NEW m \in Message,
           outbox' = [outbox EXCEPT ![f] = Append(@, m)]
    PROVE  /\ Credits(outbox[f])' = Credits(outbox[f]) + IsCredit(m)
           /\ \A g \in Channel \ {f} : outbox'[g] = outbox[g]
<1>1. outbox \in [Channel -> Seq(Message)]
  BY TypeParts DEF TypeInv, AppsOK
<1>2. outbox'[f] = Append(outbox[f], m)
  BY <1>1
<1>3. \A g \in Channel \ {f} : outbox'[g] = outbox[g]
  BY <1>1
<1>4. Credits(Append(outbox[f], m)) = Credits(outbox[f]) + IsCredit(m)
  BY <1>1, CreditsAppend
<1> QED BY <1>2, <1>3, <1>4

LEMMA TransferFlow ==
    ASSUME IndInv, FlowInv, NEW p \in Node, NEW q \in Node, Transfer(p, q)
    PROVE  FlowInv' /\ Moves(p, <<p, q>>, 1)
<1> USE IndParts
<1>1. FlowInv'
  BY FlowSame DEF Transfer, controllers, stores, Snapshotting
<1> DEFINE f == <<p, q>>
<1>2. /\ f \in Channel /\ counter' = [counter EXCEPT ![p] = @ - 1]
      /\ outbox' = [outbox EXCEPT ![f] = Append(@, Credit)]
      /\ UNCHANGED <<wire, inbox, channelState>>
  BY DEF Transfer, channels, controllers
<1> HIDE DEF f
<1>3. /\ Credits(outbox[f])' = Credits(outbox[f]) + 1
      /\ \A g \in Channel \ {f} : outbox'[g] = outbox[g]
  BY <1>2, OutboxGrows, MessageTypes, CreditsNone
<1>4. /\ Flight(f)' = Flight(f) + 1
      /\ \A g \in Channel \ {f} : Flight(g)' = Flight(g)
  BY <1>2, <1>3, LoadTypes DEF Flight
<1>5. Load(f)' = Load(f) + 1
  BY <1>2, <1>4, SameDoor, LoadTypes DEF Load
<1>6. \A g \in Channel \ {f} : Load(g)' = Load(g)
  BY <1>2, <1>4, SameDoor DEF Load
<1> QED BY <1>1, <1>2, <1>5, <1>6 DEF Moves, f

LEMMA ReadCreditFlow ==
    ASSUME IndInv, FlowInv, NEW p \in Node, NEW q \in Node, ReadCredit(p, q)
    PROVE  FlowInv' /\ <<q, p>> \in Channel /\ Moves(p, <<q, p>>, -1)
<1> USE IndParts
<1> DEFINE f == <<q, p>>
           b == <<p, q>>
<1>1. inbox[p][q] > 0 /\ inbox[p][p] = 0 /\ inbox[p][q] \in Nat
  BY DEF ReadCredit, FlowInv, EmptyAt, AppsOK
<1>2. p # q /\ f \in Channel /\ b \in Channel /\ f # b
  BY <1>1, ChannelPair
<1>3. /\ inbox' = [inbox EXCEPT ![p][q] = @ - 1]
      /\ counter' = [counter EXCEPT ![p] = @ - (-1)]
      /\ outbox' = [outbox EXCEPT ![b] = Append(@, Reply)]
      /\ UNCHANGED <<wire, snapshotId, phase, channelState, image, artifact>>
  <2>1. counter[p] + 1 = counter[p] - (-1)
    BY DEF AppsOK
  <2> QED BY <2>1 DEF ReadCredit, channels, controllers, stores
<1>4. FlowInv'
  <2>1. \A r \in Node : inbox'[r][r] = inbox[r][r]
    BY <1>2, <1>3 DEF AppsOK
  <2> QED BY <1>3, <2>1, FlowSame DEF Snapshotting
<1>5. \A g \in Channel : Flight(g)' = Flight(g)
  <2> HIDE DEF b
  <2>1. /\ Credits(outbox[b])' = Credits(outbox[b]) + 0
        /\ \A g \in Channel \ {b} : outbox'[g] = outbox[g]
    BY <1>2, <1>3, OutboxGrows, MessageTypes, CreditsNone
  <2>2. Credits(outbox[b])' = Credits(outbox[b])
    BY <1>2, <2>1, LoadTypes
  <2> QED BY <1>3, <2>1, <2>2 DEF Flight
<1>6. Door(f)' = Door(f) - 1
  <2>1. inbox'[p][q] = inbox[p][q] - 1
    BY <1>3 DEF AppsOK
  <2>2. CreditsIn(channelState[p][q]) \in Nat
    BY <1>2, LoadTypes
  <2> QED BY <1>1, <1>3, <2>1, <2>2 DEF Door
<1>7. ASSUME NEW g \in Channel \ {f} PROVE Door(g)' = Door(g)
  <2>1. g[1] \in Node /\ g[2] \in Node /\ g = <<g[1], g[2]>>
    BY ChannelPair
  <2>2. inbox'[g[2]][g[1]] = inbox[g[2]][g[1]]
    BY <1>3, <2>1 DEF AppsOK
  <2> QED BY <1>3, <2>2 DEF Door
<1> HIDE DEF f
<1>8. Load(f)' = Load(f) + (-1)
  BY <1>2, <1>5, <1>6, LoadTypes DEF Load
<1>9. \A g \in Channel \ {f} : Load(g)' = Load(g)
  BY <1>5, <1>7 DEF Load
<1> QED BY <1>2, <1>3, <1>4, <1>8, <1>9 DEF Moves, f

LEMMA DrainFlow ==
    ASSUME IndInv, FlowInv, NEW p \in Node, Drain(p),
           UNCHANGED <<inbox, controllers, stores>>
    PROVE  FlowInv' /\ LoadsKept
<1> USE IndParts
<1>1. FlowInv'
  BY FlowSame DEF controllers, stores, Snapshotting
<1>2. LoadsKept
  BY DrainFlight, SameDoor DEF LoadsKept, Load, controllers
<1> QED BY <1>1, <1>2

LEMMA BeginFlow ==
    ASSUME IndInv, FlowInv, NEW p \in Node, NEW id \in SnapshotId, NEW from,
           Begin(p, id, from), ~Snapshotting(p)
    PROVE  FlowInv' /\ LoadsKept /\ UNCHANGED <<inbox, channelState, counter>>
<1> USE IndParts
<1>1. /\ Drain(p) /\ UNCHANGED <<inbox, counter, image, artifact>>
      /\ channelState' = [channelState EXCEPT ![p] = NothingRecorded]
  BY DEF Begin, stores
<1>2. channelState' = channelState
  BY <1>1 DEF FlowInv, EmptyAt, ControllersOK
<1>3. FlowInv'
  <2>1. \A r \in Node \ {p} : snapshotId'[r] = snapshotId[r] /\ phase'[r] = phase[r]
    BY DEF Begin, ControllersOK
  <2> QED BY <1>1, <1>2, <2>1, FlowSame DEF Snapshotting
<1>4. LoadsKept
  BY <1>1, <1>2, DrainFlight, SameDoor DEF LoadsKept, Load
<1> QED BY <1>1, <1>2, <1>3, <1>4

LEMMA ConsumeMarkerFlight ==
    ASSUME TypeInv, NEW p \in Node, NEW q \in Node, HasHead(q, p),
           Consume(p, q), UNCHANGED outbox, Arriving(q, p).type = "marker"
    PROVE  \A f \in Channel : Flight(f)' = Flight(f)
<1> SUFFICES ASSUME NEW f \in Channel PROVE Flight(f)' = Flight(f)
  OBVIOUS
<1>1. IsCredit(Arriving(q, p)) = 0
  BY DEF IsCredit
<1> QED BY <1>1, ConsumeFlight, LoadTypes

LEMMA IgnoreMarkerFlow ==
    ASSUME IndInv, FlowInv, NEW p \in Node, NEW q \in Node, IgnoreMarker(p, q)
    PROVE  FlowInv' /\ LoadsKept
<1> USE IndParts
<1>1. /\ HasHead(q, p) /\ Consume(p, q) /\ Arriving(q, p).type = "marker"
      /\ UNCHANGED <<outbox, inbox, controllers, stores>>
  BY DEF IgnoreMarker, apps
<1>2. FlowInv'
  BY <1>1, FlowSame DEF controllers, stores, Snapshotting
<1>3. LoadsKept
  BY <1>1, ConsumeMarkerFlight, SameDoor DEF LoadsKept, Load, controllers
<1> QED BY <1>2, <1>3

LEMMA RecordFlow ==
    ASSUME IndInv, FlowInv, NEW p \in Node, NEW q \in Node, Record(p, q)
    PROVE  FlowInv' /\ LoadsKept
<1> USE IndParts
<1> DEFINE f == <<q, p>>
           e == [seq |-> recvSeq[<<q, p>>], msg |-> Arriving(q, p)]
<1>1. /\ HasHead(q, p) /\ Consume(p, q) /\ Snapshotting(p) /\ phase[p] = "running"
      /\ channelState' = [channelState EXCEPT ![p][q] = Append(@, e)]
      /\ UNCHANGED <<outbox, inbox, snapshotId, phase, image, artifact>>
  BY DEF Record, Running, apps, stores
<1>2. f \in Channel /\ p # q /\ f[1] = q /\ f[2] = p
  BY <1>1, ChannelPair DEF HasHead
<1> HIDE DEF e
<1>3. /\ channelState'[p][q] = Append(channelState[p][q], e)
      /\ \A r \in Node, s \in Node :
             ~(r = p /\ s = q) => channelState'[r][s] = channelState[r][s]
      /\ \A r \in Node \ {p} : channelState'[r] = channelState[r]
  BY <1>1 DEF ControllersOK
<1>4. FlowInv'
  BY <1>1, <1>2, <1>3, FlowSame DEF Snapshotting
<1>5. CreditsIn(channelState'[p][q])
      = CreditsIn(channelState[p][q]) + IsCredit(Arriving(q, p))
  <2>1. recvSeq[<<q, p>>] \in Nat /\ Arriving(q, p) \in Message
        /\ channelState[p][q] \in Recorded
    BY <1>1, <1>2, ArrivingType DEF ChannelsOK, ControllersOK
  <2> QED BY <1>3, <2>1, CreditsInAppend DEF e
<1> HIDE DEF f
<1>6. Door(f)' = Door(f) + IsCredit(Arriving(q, p))
  <2>1. Door(f) = inbox[p][q] + CreditsIn(channelState[p][q])
    BY <1>2 DEF Door
  <2>2. Door(f)' = inbox[p][q] + CreditsIn(channelState'[p][q])
    BY <1>1, <1>2 DEF Door
  <2>3. /\ inbox[p][q] \in Nat /\ CreditsIn(channelState[p][q]) \in Nat
    BY <1>2, LoadTypes
  <2>4. IsCredit(Arriving(q, p)) \in Nat
    BY DEF IsCredit
  <2> QED BY <1>5, <2>1, <2>2, <2>3, <2>4
<1>7. \A g \in Channel : g # f => Door(g)' = Door(g)
  <2> SUFFICES ASSUME NEW g \in Channel, g # f PROVE Door(g)' = Door(g)
    OBVIOUS
  <2>1. /\ g[1] \in Node /\ g[2] \in Node /\ g = <<g[1], g[2]>>
    BY ChannelPair
  <2>2. channelState'[g[2]][g[1]] = channelState[g[2]][g[1]]
    BY <1>3, <2>1 DEF f
  <2> QED BY <1>1, <2>2 DEF Door
<1>8. ASSUME NEW g \in Channel PROVE Load(g)' = Load(g)
  <2>1. /\ g # f => Flight(g)' = Flight(g)
        /\ g = f => Flight(g)' = Flight(g) - IsCredit(Arriving(q, p))
    BY <1>1, ConsumeFlight DEF f
  <2>2. IsCredit(Arriving(q, p)) \in Nat
    BY DEF IsCredit
  <2>3. CASE g # f
    BY <1>7, <2>1, <2>3 DEF Load
  <2>4. CASE g = f
    BY <1>2, <1>6, <2>1, <2>2, <2>4, LoadTypes DEF Load
  <2> QED BY <2>3, <2>4
<1> QED BY <1>4, <1>8 DEF LoadsKept

LEMMA DeliverFlow ==
    ASSUME IndInv, FlowInv, NEW p \in Node, NEW q \in Node, Deliver(p, q)
    PROVE  FlowInv' /\ LoadsKept
<1> USE IndParts
<1> DEFINE f == <<q, p>>
           c == IsCredit(Arriving(q, p))
<1>1. /\ HasHead(q, p) /\ Consume(p, q)
      /\ inbox' = [inbox EXCEPT ![p][q] = @ + c]
      /\ UNCHANGED <<outbox, snapshotId, phase, channelState, image, artifact>>
  BY DEF Deliver, IsCredit, controllers, stores
<1>2. f \in Channel /\ p # q /\ f[1] = q /\ f[2] = p /\ c \in Nat
  BY <1>1, ChannelPair DEF HasHead, IsCredit
<1> HIDE DEF c
<1>3. /\ inbox'[p][q] = inbox[p][q] + c
      /\ \A r \in Node, s \in Node :
             ~(r = p /\ s = q) => inbox'[r][s] = inbox[r][s]
  BY <1>1 DEF AppsOK
<1>4. FlowInv'
  BY <1>1, <1>2, <1>3, FlowSame DEF Snapshotting
<1> HIDE DEF f
<1>5. Door(f)' = Door(f) + c
  <2>1. Door(f) = inbox[p][q] + CreditsIn(channelState[p][q])
    BY <1>2 DEF Door
  <2>2. Door(f)' = inbox'[p][q] + CreditsIn(channelState[p][q])
    BY <1>1, <1>2 DEF Door
  <2>3. /\ inbox[p][q] \in Nat /\ CreditsIn(channelState[p][q]) \in Nat
    BY <1>2, LoadTypes
  <2> QED BY <1>2, <1>3, <2>1, <2>2, <2>3
<1>6. \A g \in Channel : g # f => Door(g)' = Door(g)
  <2> SUFFICES ASSUME NEW g \in Channel, g # f PROVE Door(g)' = Door(g)
    OBVIOUS
  <2>1. g[1] \in Node /\ g[2] \in Node /\ g = <<g[1], g[2]>>
    BY ChannelPair
  <2>2. inbox'[g[2]][g[1]] = inbox[g[2]][g[1]]
    BY <1>3, <2>1 DEF f
  <2> QED BY <1>1, <2>2 DEF Door
<1>7. ASSUME NEW g \in Channel PROVE Load(g)' = Load(g)
  <2>1. /\ g # f => Flight(g)' = Flight(g)
        /\ g = f => Flight(g)' = Flight(g) - c
    BY <1>1, ConsumeFlight DEF f, c
  <2>2. CASE g # f
    BY <1>6, <2>1, <2>2 DEF Load
  <2>3. CASE g = f
    BY <1>2, <1>5, <2>1, <2>3, LoadTypes DEF Load
  <2> QED BY <2>2, <2>3
<1> QED BY <1>4, <1>7 DEF LoadsKept

(* The snapshot of p ends with what it has withheld.                       *)
LEMMA EndFlow ==
    ASSUME IndInv, FlowInv, NEW p \in Node, NEW status, status # "none",
           NEW send, NEW recv, NEW withheld, withheld = channelState[p],
           End(p, status, send, recv, withheld),
           \A r \in Node \ {p} : phase'[r] = phase[r], UNCHANGED image
    PROVE  /\ FlowInv' /\ FlushEffect(p) /\ StoresWithheld(p)
           /\ \A f \in Channel : Door(f)' = Door(f)
<1> USE IndParts
<1>1. FlushEffect(p) /\ StoresWithheld(p)
  BY EndFlushes, EndStores
<1>2. FlowInv'
  BY <1>1, FlushEmpties, StoresKept DEF FlowInv
<1> QED BY <1>1, <1>2, FlushDoor

LEMMA TimeoutFlow ==
    ASSUME IndInv, FlowInv, NEW p \in Node, Timeout(p)
    PROVE  FlowInv' /\ LoadsKept
<1>1. /\ End(p, "aborted", recordedSend[p], recordedRecv[p], channelState[p])
      /\ UNCHANGED <<wire, outbox, phase, image>>
  BY DEF Timeout, channels
<1>2. FlowInv' /\ \A f \in Channel : Door(f)' = Door(f)
  BY <1>1, EndFlow
<1> QED BY <1>1, <1>2 DEF LoadsKept, Load, Flight

LEMMA ReceiveMarkerFlow ==
    ASSUME IndInv, FlowInv, NEW p \in Node, NEW q \in Node, ReceiveMarker(p, q)
    PROVE  FlowInv' /\ LoadsKept
<1> USE IndParts
<1>1. /\ HasHead(q, p) /\ Consume(p, q) /\ Arriving(q, p).type = "marker"
      /\ UNCHANGED <<outbox, phase, image>>
  BY DEF ReceiveMarker, Marker
<1>2. \A f \in Channel : Flight(f)' = Flight(f)
  BY <1>1, ConsumeMarkerFlight
<1>3. CASE UNCHANGED <<snapshotId, channelState, inbox, artifact>>
  BY <1>1, <1>2, <1>3, FlowSame, SameDoor
     DEF LoadsKept, Load, Snapshotting
<1>4. CASE \E recv : End(p, "complete", recordedSend[p], recv, channelState[p])
  BY <1>1, <1>2, <1>4, EndFlow DEF LoadsKept, Load
<1> QED BY <1>3, <1>4 DEF ReceiveMarker

LEMMA ResumeFlow ==
    ASSUME IndInv, FlowInv, NEW p \in Node, Resume(p)
    PROVE  FlowInv' /\ LoadsKept
<1> USE IndParts
<1>1. /\ phase[p] = "imaged" /\ Broadcast(p) /\ UNCHANGED image
      /\ channelState[p] = NothingRecorded
      /\ \A r \in Node \ {p} : phase'[r] = phase[r]
  BY DEF Resume, FlowInv, EmptyAt, ControllersOK
<1>2. \A f \in Channel : Flight(f)' = Flight(f)
  BY <1>1, BroadcastFlight
<1>3. CASE UNCHANGED <<snapshotId, channelState, inbox, artifact>>
  <2>1. FlowInv'
    BY <1>1, <1>3, FlowSame DEF Snapshotting
  <2> QED BY <1>2, <1>3, <2>1, SameDoor DEF LoadsKept, Load
<1>4. CASE End(p, "complete", SendCut(p), OriginCut(p), NothingRecorded)
  BY <1>1, <1>2, <1>4, EndFlow DEF LoadsKept, Load
<1> QED BY <1>3, <1>4 DEF Resume

LEMMA ImageFlow ==
    ASSUME IndInv, FlowInv, NEW p \in Node, TakeImage(p) \/ CheckpointFails(p)
    PROVE  FlowInv' /\ LoadsKept
<1> USE IndParts
<1>1. /\ UNCHANGED <<wire, apps, snapshotId, channelState, artifact>>
      /\ phase[p] = "posted" /\ \A r \in Node \ {p} : phase'[r] = phase[r]
  BY DEF TakeImage, CheckpointFails, channels, stores, ControllersOK
<1>2. LoadsKept
  BY <1>1 DEF LoadsKept, Load, Flight, Door, apps
<1>3. \A r \in Node : EmptyAt(r)'
  BY <1>1 DEF FlowInv, EmptyAt, Snapshotting, apps
<1>4. ASSUME NEW k \in Key PROVE StoredAt(k)'
  <2>1. CASE image'[k] = image[k]
    BY <1>1, <2>1 DEF FlowInv, StoredAt
  <2>2. CASE /\ k[2] = p /\ image'[k].unread = inbox[p]
             /\ image'[k].unsent[p] = 0
    BY <1>1, <2>2 DEF FlowInv, StoredAt, EmptyAt
  <2>3. CASE TakeImage(p)
    BY <2>1, <2>2, <2>3 DEF TakeImage, Frozen, StoresOK
  <2>4. CASE CheckpointFails(p)
    BY <2>1, <2>4 DEF CheckpointFails, stores
  <2> QED BY <2>3, <2>4
<1> QED BY <1>2, <1>3, <1>4 DEF FlowInv

LEMMA DieFlow ==
    ASSUME FlowInv, NEW p \in Node, Die(p)
    PROVE  FlowInv' /\ p \in dead'
BY FlowSame DEF Die, apps, controllers, stores, Snapshotting

-----------------------------------------------------------------------------
(* Every step keeps the credits there are, as long as no server dies.      *)

Settled == LoadsKept /\ UNCHANGED counter

Shifted == \E p \in Node, f \in Channel, d \in {-1, 1} : Moves(p, f, d)

LEMMA ReceiveFlow ==
    ASSUME IndInv, FlowInv, NEW p \in Node, NEW q \in Node, Receive(p, q)
    PROVE  FlowInv' /\ Settled
<1> USE IndParts
<1>1. CASE ReceiveFirstMarker(p, q)
  <2>1. Arriving(q, p).id \in SnapshotId
    BY <1>1, ArrivingMarker DEF ReceiveFirstMarker
  <2> QED BY <1>1, <2>1, BeginFlow DEF ReceiveFirstMarker, Settled
<1>2. CASE ReceiveMarker(p, q)
  BY <1>2, ReceiveMarkerFlow DEF ReceiveMarker, Settled
<1>3. CASE IgnoreMarker(p, q)
  BY <1>3, IgnoreMarkerFlow DEF IgnoreMarker, apps, Settled
<1>4. CASE Record(p, q)
  BY <1>4, RecordFlow DEF Record, apps, Settled
<1>5. CASE Deliver(p, q)
  BY <1>5, DeliverFlow DEF Deliver, Settled
<1> QED BY <1>1, <1>2, <1>3, <1>4, <1>5 DEF Receive

LEMMA HandlerFlow ==
    ASSUME IndInv, FlowInv, NEW p \in Node,
           \/ Forward(p) \/ TakeImage(p) \/ CheckpointFails(p)
           \/ Resume(p) \/ Timeout(p)
    PROVE  FlowInv' /\ Settled
<1>1. CASE Forward(p)
  BY <1>1, DrainFlow DEF Forward, Settled
<1>2. CASE TakeImage(p) \/ CheckpointFails(p)
  BY <1>2, ImageFlow DEF TakeImage, CheckpointFails, apps, Settled
<1>3. CASE Resume(p)
  BY <1>3, ResumeFlow DEF Resume, Settled
<1>4. CASE Timeout(p)
  BY <1>4, TimeoutFlow DEF Timeout, Settled
<1> QED BY <1>1, <1>2, <1>3, <1>4

LEMMA FlowStep ==
    ASSUME IndInv, FlowInv, [Next]_vars
    PROVE  FlowInv' /\ (Settled \/ Shifted \/ dead' # {})
<1>1. CASE UNCHANGED vars
  <2>1. UNCHANGED <<wire, counter, inbox, outbox, snapshotId, phase,
                    channelState, image, artifact>>
    BY <1>1 DEF vars, channels, apps, controllers, stores
  <2>2. FlowInv'
    BY <2>1, FlowSame DEF Snapshotting
  <2>3. Settled
    BY <2>1 DEF Settled, LoadsKept, Load, Flight, Door
  <2> QED BY <2>2, <2>3
<1>2. ASSUME NEW p \in Node, NEW q \in Node, Transfer(p, q)
      PROVE  FlowInv' /\ Shifted
  <2>1. <<p, q>> \in Channel
    BY <1>2 DEF Transfer
  <2> QED BY <1>2, <2>1, TransferFlow DEF Shifted
<1>3. ASSUME NEW p \in Node, NEW id \in SnapshotId,
             Start(p, id) \/ StartIgnored(p, id)
      PROVE  FlowInv' /\ Settled
  <2>1. CASE Start(p, id)
    BY <2>1, BeginFlow DEF Start, Settled
  <2>2. CASE StartIgnored(p, id)
    BY <2>2, DrainFlow DEF StartIgnored, Settled
  <2> QED BY <1>3, <2>1, <2>2
<1>4. ASSUME NEW p \in Node, Die(p) PROVE FlowInv' /\ dead' # {}
  BY <1>4, DieFlow
<1>5. ASSUME NEW p \in Node, Step(p) PROVE FlowInv' /\ (Settled \/ Shifted)
  <2>1. ASSUME NEW q \in Node, ReadCredit(p, q) PROVE FlowInv' /\ Shifted
    BY <2>1, ReadCreditFlow DEF Shifted
  <2> QED BY <1>5, <2>1, ReceiveFlow, HandlerFlow DEF Step
<1> QED BY <1>1, <1>2, <1>3, <1>4, <1>5 DEF Next, Environment

LEMMA BooksGrow ==
    ASSUME [Next]_vars
    PROVE  dead \subseteq dead' /\ aborted \subseteq aborted'
<1>1. ASSUME NEW p \in Node, NEW q \in Node, ReadCredit(p, q) \/ Receive(p, q)
      PROVE  UNCHANGED <<dead, aborted>>
  BY <1>1 DEF ReadCredit, Receive, ReceiveFirstMarker, ReceiveMarker,
              IgnoreMarker, Record, Deliver, bookkeeping
<1>2. ASSUME NEW p \in Node,
             Forward(p) \/ TakeImage(p) \/ CheckpointFails(p) \/ Resume(p)
             \/ Timeout(p)
      PROVE  UNCHANGED dead /\ aborted \subseteq aborted'
  BY <1>2 DEF Forward, TakeImage, CheckpointFails, Resume, Timeout, bookkeeping
<1>3. ASSUME Environment
      PROVE  dead \subseteq dead' /\ UNCHANGED aborted
  BY <1>3 DEF Environment, Transfer, Start, StartIgnored, Die
<1>4. CASE UNCHANGED vars
  BY <1>4 DEF vars, bookkeeping
<1> QED BY <1>1, <1>2, <1>3, <1>4 DEF Next, Step

LEMMA Finite ==
    /\ IsFiniteSet(Node) /\ IsFiniteSet(Channel)
    /\ Cardinality(Node) \in Nat
<1>1. IsFiniteSet(Node \X Node)
  BY NodeAssumption, FS_Product
<1>2. IsFiniteSet(Channel)
  BY <1>1, FS_Subset DEF Channel
<1> QED BY <1>2, NodeAssumption, FS_CardinalityType

Loads == [f \in Channel |-> Load(f)]

LiveInv == dead = {} => SumFunction(counter) + SumFunction(Loads) = Total

LEMMA SumTypes ==
    ASSUME TypeInv
    PROVE  /\ counter \in [Node -> Int] /\ Loads \in [Channel -> Int]
           /\ SumFunction(counter) \in Int /\ SumFunction(Loads) \in Int
<1>1. counter \in [Node -> Int]
  BY TypeParts DEF TypeInv, AppsOK
<1>2. Loads \in [Channel -> Int]
  BY LoadTypes DEF Loads
<1>3. SumFunction(counter) \in Int
  BY <1>1, Finite, SumType
<1>4. SumFunction(Loads) \in Int
  BY <1>2, Finite, SumType
<1> QED BY <1>1, <1>2, <1>3, <1>4

LEMMA LiveInit == Init => LiveInv
<1> SUFFICES ASSUME Init PROVE SumFunction(counter) + SumFunction(Loads) = Total
  BY DEF LiveInv
<1>1. SumFunction(counter) = Cardinality(Node) * InitCounter
  BY Finite, InitCounterAssumption, SumConstant DEF Init
<1>2. ASSUME NEW f \in Channel PROVE Load(f) = 0
  <2>1. f[1] \in Node /\ f[2] \in Node
    BY ChannelPair
  <2>2. /\ outbox[f] = << >> /\ wire[f] = << >> /\ inbox[f[2]][f[1]] = 0
        /\ channelState[f[2]][f[1]] = << >>
    BY <2>1 DEF Init, NoneFrom, NothingRecorded
  <2>3. Flight(f) = 0 /\ Door(f) = 0
    BY <2>2, CreditsNone DEF Flight, Door
  <2> QED BY <2>3 DEF Load
<1>3. SumFunction(Loads) = 0
  <2>1. Loads \in [Channel -> Int] /\ \A f \in Channel : Loads[f] = 0
    BY <1>2 DEF Loads
  <2> QED BY <2>1, Finite, SumZero
<1> QED BY <1>1, <1>3, Finite, InitCounterAssumption DEF Total

(* A credit that leaves a counter enters a channel, and the reverse.       *)
LEMMA LiveShift ==
    ASSUME TypeInv, TypeInv', NEW p \in Node, NEW f \in Channel,
           NEW d \in {-1, 1}, Moves(p, f, d)
    PROVE  SumFunction(counter') + SumFunction(Loads')
           = SumFunction(counter) + SumFunction(Loads)
<1>1. /\ counter \in [Node -> Int] /\ Loads \in [Channel -> Int]
      /\ SumFunction(counter) \in Int /\ SumFunction(Loads) \in Int
  BY SumTypes
<1>2. counter' \in [Node -> Int]
  BY DEF TypeInv, TypeOK
<1>3. PICK l : l = Loads'
  OBVIOUS
<1>4. /\ l \in [Channel -> Int] /\ l[f] = Loads[f] + d
      /\ \A g \in Channel \ {f} : l[g] = Loads[g]
  <2>1. ASSUME NEW g \in Channel PROVE Load(g)' \in Int
    <3>1. CASE g = f
      BY <3>1, LoadTypes DEF Moves
    <3>2. CASE g # f
      BY <3>2, LoadTypes DEF Moves
    <3> QED BY <3>1, <3>2
  <2>2. l = [g \in Channel |-> Load(g)']
    BY <1>3 DEF Loads
  <2> QED BY <2>1, <2>2 DEF Moves, Loads
<1>5. SumFunction(l) = SumFunction(Loads) - Loads[f] + l[f]
  <2> HIDE DEF Loads
  <2> QED BY <1>1, <1>4, Finite, SumUpdate
<1>6. PICK c : c = counter'
  OBVIOUS
<1>7. /\ c \in [Node -> Int] /\ c[p] = counter[p] - d
      /\ \A r \in Node \ {p} : c[r] = counter[r]
  BY <1>1, <1>2, <1>6 DEF Moves
<1>8. SumFunction(c) = SumFunction(counter) - counter[p] + c[p]
  BY <1>1, <1>7, Finite, SumUpdate
<1>9. Loads[f] \in Int /\ counter[p] \in Int
  BY <1>1
<1>10. SumFunction(c) + SumFunction(l) = SumFunction(counter) + SumFunction(Loads)
  <2> DEFINE a == SumFunction(counter)
             b == SumFunction(Loads)
             x == Loads[f]
             y == counter[p]
  <2>1. /\ a \in Int /\ b \in Int /\ x \in Int /\ y \in Int /\ d \in Int
        /\ SumFunction(l) = b - x + (x + d) /\ SumFunction(c) = a - y + (y - d)
    BY <1>1, <1>4, <1>5, <1>7, <1>8, <1>9
  <2> HIDE DEF a, b, x, y
  <2>2. SumFunction(c) + SumFunction(l) = a + b
    BY <2>1
  <2> QED BY <2>2 DEF a, b
<1> QED BY <1>3, <1>6, <1>10

LEMMA LiveStep ==
    ASSUME IndInv, IndInv', FlowInv, LiveInv, [Next]_vars
    PROVE  LiveInv'
<1>1. TypeInv /\ TypeInv' /\ dead \subseteq dead'
  <2>1. dead \subseteq dead'
    BY BooksGrow
  <2> QED BY <2>1 DEF IndInv
<1> SUFFICES ASSUME dead' = {}
             PROVE  (SumFunction(counter) + SumFunction(Loads))' = Total'
  BY DEF LiveInv
<1>2. SumFunction(counter) + SumFunction(Loads) = Total
  BY <1>1 DEF LiveInv
<1>3. CASE Settled
  <2>1. Loads' = Loads
    BY <1>3 DEF Settled, LoadsKept, Loads
  <2> QED BY <1>2, <1>3, <2>1 DEF Settled, Total
<1>4. CASE Shifted
  BY <1>1, <1>2, <1>4, LiveShift DEF Shifted, Total
<1> QED BY <1>3, <1>4, FlowStep

-----------------------------------------------------------------------------
(* A sum over the channels is a sum over the servers of the sums over their*)
(* channels.                                                               *)

LEMMA ByReceiver ==
    ASSUME NEW door, door \in [Node -> [Node -> Int]],
           \A p \in Node : door[p][p] = 0,
           NEW v, v = [f \in Channel |-> door[f[2]][f[1]]]
    PROVE  SumFunction(v) = SumFunction([p \in Node |-> SumFunction(door[p])])
<1>1. PICK to, from : to = [f \in Channel |-> f[2]] /\ from = [f \in Channel |-> f[1]]
  OBVIOUS
<1>2. /\ v \in [Channel -> Int]
      /\ to \in [Channel -> Node] /\ from \in [Channel -> Node]
      /\ \A f, g \in Channel : to[f] = to[g] /\ from[f] = from[g] => f = g
  BY <1>1, ChannelPair
<1>3. ASSUME NEW p \in Node, NEW q \in Node,
             \A f \in Channel : ~(to[f] = p /\ from[f] = q)
      PROVE  door[p][q] = 0
  <2>1. CASE p = q
    BY <2>1
  <2>2. CASE p # q
    <3>1. <<q, p>> \in Channel
      BY <2>2, ChannelPair
    <3> QED BY <1>1, <1>3, <3>1
  <2> QED BY <2>1, <2>2
<1>4. \A f \in Channel : door[to[f]][from[f]] = v[f]
  BY <1>1
<1>5. IsTable(Channel, v, to, from, Node, Node, door)
  BY <1>3, <1>4 DEF IsTable
<1>6. PICK C : C = Channel
  OBVIOUS
<1>7. SumFunction(v) = SumFunction([p \in Node |-> SumFunction(door[p])])
  <2>1. /\ IsFiniteSet(C) /\ IsFiniteSet(Node) /\ v \in [C -> Int]
        /\ to \in [C -> Node] /\ from \in [C -> Node]
        /\ IsTable(C, v, to, from, Node, Node, door)
    BY <1>2, <1>5, <1>6, Finite
  <2>2. \A k, l \in C : to[k] = to[l] /\ from[k] = from[l] => k = l
    BY <1>2, <1>6
  <2> QED BY ONLY <2>1, <2>2, SumOfRows
<1> QED BY <1>7

LEMMA BySender ==
    ASSUME NEW door, door \in [Node -> [Node -> Int]],
           \A p \in Node : door[p][p] = 0,
           NEW v, v = [f \in Channel |-> door[f[1]][f[2]]]
    PROVE  SumFunction(v) = SumFunction([p \in Node |-> SumFunction(door[p])])
<1>1. PICK to, from : to = [f \in Channel |-> f[1]] /\ from = [f \in Channel |-> f[2]]
  OBVIOUS
<1>2. /\ v \in [Channel -> Int]
      /\ to \in [Channel -> Node] /\ from \in [Channel -> Node]
      /\ \A f, g \in Channel : to[f] = to[g] /\ from[f] = from[g] => f = g
  BY <1>1, ChannelPair
<1>3. ASSUME NEW p \in Node, NEW q \in Node,
             \A f \in Channel : ~(to[f] = p /\ from[f] = q)
      PROVE  door[p][q] = 0
  <2>1. CASE p = q
    BY <2>1
  <2>2. CASE p # q
    <3>1. <<p, q>> \in Channel
      BY <2>2, ChannelPair
    <3> QED BY <1>1, <1>3, <3>1
  <2> QED BY <2>1, <2>2
<1>4. \A f \in Channel : door[to[f]][from[f]] = v[f]
  BY <1>1
<1>5. IsTable(Channel, v, to, from, Node, Node, door)
  BY <1>3, <1>4 DEF IsTable
<1>6. PICK C : C = Channel
  OBVIOUS
<1>7. SumFunction(v) = SumFunction([p \in Node |-> SumFunction(door[p])])
  <2>1. /\ IsFiniteSet(C) /\ IsFiniteSet(Node) /\ v \in [C -> Int]
        /\ to \in [C -> Node] /\ from \in [C -> Node]
        /\ IsTable(C, v, to, from, Node, Node, door)
    BY <1>2, <1>5, <1>6, Finite
  <2>2. \A k, l \in C : to[k] = to[l] /\ from[k] = from[l] => k = l
    BY <1>2, <1>6
  <2> QED BY ONLY <2>1, <2>2, SumOfRows
<1> QED BY <1>7

LEMMA DoorsSum ==
    ASSUME TypeInv, FlowInv
    PROVE  SumFunction([f \in Channel |-> Door(f)])
           = SumFunction([p \in Node |-> SumFunction(inbox[p]) + WithheldCredits(p)])
<1> DEFINE c(p, q) == CreditsIn(channelState[p][q])
<1>1. /\ inbox \in [Node -> [Node -> Nat]]
      /\ \A p, q \in Node : c(p, q) \in Nat
  BY TypeParts, CreditsInType DEF TypeInv, AppsOK, ControllersOK
<1> HIDE DEF c
<1>2. PICK held : held = [p \in Node |-> [q \in Node |-> c(p, q)]]
  OBVIOUS
<1>3. PICK door : door = [p \in Node |-> [q \in Node |-> inbox[p][q] + c(p, q)]]
  OBVIOUS
<1>4. /\ inbox \in [Node -> [Node -> Int]] /\ held \in [Node -> [Node -> Int]]
      /\ door \in [Node -> [Node -> Int]]
      /\ \A p, q \in Node : door[p][q] = inbox[p][q] + held[p][q]
  BY <1>1, <1>2, <1>3
<1>5. ASSUME NEW p \in Node PROVE door[p][p] = 0
  <2>1. inbox[p][p] = 0 /\ channelState[p][p] = << >>
    BY DEF FlowInv, EmptyAt
  <2>2. c(p, p) = 0
    BY <2>1, CreditsNone DEF c
  <2> QED BY <1>3, <2>1, <2>2
<1>6. [f \in Channel |-> Door(f)] = [f \in Channel |-> door[f[2]][f[1]]]
  BY <1>3, ChannelPair DEF Door, c
<1>7. SumFunction([f \in Channel |-> door[f[2]][f[1]]])
      = SumFunction([p \in Node |-> SumFunction(door[p])])
  BY <1>4, <1>5, ByReceiver
<1>8. ASSUME NEW p \in Node
      PROVE  SumFunction(door[p]) = SumFunction(inbox[p]) + WithheldCredits(p)
  <2>1. SumFunction(door[p]) = SumFunction(inbox[p]) + SumFunction(held[p])
    <3>1. PICK u, v, w : u = inbox[p] /\ v = held[p] /\ w = door[p]
      OBVIOUS
    <3>2. /\ u \in [Node -> Int] /\ v \in [Node -> Int] /\ w \in [Node -> Int]
          /\ \A q \in Node : w[q] = u[q] + v[q]
      BY <1>4, <3>1
    <3>3. SumFunction(w) = SumFunction(u) + SumFunction(v)
      BY <3>2, NodeAssumption, SumAdd
    <3> QED BY <3>1, <3>3
  <2>2. held[p] = [q \in Node |-> CreditsIn(channelState[p][q])]
    BY <1>2 DEF c
  <2> QED BY <2>1, <2>2 DEF WithheldCredits
<1> QED BY <1>6, <1>7, <1>8

LEMMA LiveSplits ==
    ASSUME TypeInv, FlowInv, LiveInv
    PROVE  LiveConservation
<1> SUFFICES ASSUME dead = {}
             PROVE  SumFunction(counter)
                    + SumFunction([f \in Channel |-> Credits(outbox[f]) + Credits(wire[f])])
                    + SumFunction([p \in Node |-> SumFunction(inbox[p]) + WithheldCredits(p)])
                    = Total
  BY DEF LiveConservation, MeshCredit
<1>1. PICK a, b : /\ a = [f \in Channel |-> Flight(f)]
                  /\ b = [f \in Channel |-> Door(f)]
  OBVIOUS
<1>2. /\ a \in [Channel -> Int] /\ b \in [Channel -> Int]
      /\ \A f \in Channel : Loads[f] = a[f] + b[f]
  BY <1>1, LoadTypes DEF Loads, Load
<1>3. Loads \in [Channel -> Int] /\ SumFunction(counter) \in Int
  BY SumTypes
<1>4. SumFunction(Loads) = SumFunction(a) + SumFunction(b)
  <2> HIDE DEF Loads
  <2> QED BY <1>2, <1>3, Finite, SumAdd
<1>5. SumFunction(a) \in Int /\ SumFunction(b) \in Int
  BY <1>2, Finite, SumType
<1>6. a = [f \in Channel |-> Credits(outbox[f]) + Credits(wire[f])]
  BY <1>1 DEF Flight
<1>7. SumFunction(b)
      = SumFunction([p \in Node |-> SumFunction(inbox[p]) + WithheldCredits(p)])
  BY <1>1, DoorsSum
<1>8. SumFunction(counter) + SumFunction(a) + SumFunction(b) = Total
  <2>1. SumFunction(counter) + SumFunction(Loads) = Total
    BY DEF LiveInv
  <2> QED BY <1>3, <1>4, <1>5, <2>1
<1> QED BY <1>6, <1>7, <1>8

FlowIndInv == IndInv /\ FlowInv

LEMMA FlowInvariance == Spec => []FlowIndInv
<1>1. Init => FlowIndInv
  BY CutInit, FlowInit DEF FlowIndInv
<1>2. FlowIndInv /\ [Next]_vars => FlowIndInv'
  BY StepTypes, CutStep, FlowStep DEF FlowIndInv, IndInv
<1> QED BY <1>1, <1>2, PTL DEF Spec

(* No credit is lost or made twice in the running system: what recording   *)
(* withholds is delivered once when the snapshot ends, completed or        *)
(* aborted (_flush_and_reset, snapshot_handler.py:426), for every finite   *)
(* set of servers, as long as none has died.                               *)
THEOREM CreditsConserved == Spec => []LiveConservation
<1>1. Init => LiveInv
  BY LiveInit
<1>2. FlowIndInv /\ FlowIndInv' /\ LiveInv /\ [Next]_vars => LiveInv'
  BY LiveStep DEF FlowIndInv
<1>3. FlowIndInv /\ LiveInv => LiveConservation
  BY LiveSplits, IndParts DEF FlowIndInv
<1> QED BY <1>1, <1>2, <1>3, FlowInvariance, PTL DEF Spec
=============================================================================
