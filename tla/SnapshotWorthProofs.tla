-------------------------- MODULE SnapshotWorthProofs --------------------------
(***************************************************************************)
(* What a complete snapshot holds, and what it misses, is all the credit   *)
(* there is, for every finite set of servers, every set of snapshot ids    *)
(* and every bound, whatever snapshots overlap, servers die and POSTs fail.*)
(*                                                                         *)
(* The argument gives a snapshot a worth at every moment, the credit it    *)
(* would hold if it were completed now: of a server whose image is taken   *)
(* what the image has, of any other what its application has, and of a     *)
(* channel what the sender sent before its image and the receiver did not  *)
(* get before its own, which is what is ahead of the snapshot's marker on  *)
(* the wire and what was recorded.  In the beginning it is all the credit  *)
(* there is, and no step changes it.                                       *)
(***************************************************************************)
EXTENDS SnapshotCreditProofs

-----------------------------------------------------------------------------
(* The credits ahead of a marker.                                          *)

Ahead(id, s) == CountBefore(s, CreditMessages, Marker(id))
Has(id, s) == \E i \in DOMAIN s : s[i] = Marker(id)

LEMMA AheadType ==
    ASSUME NEW id, NEW s \in Seq(Message) PROVE Ahead(id, s) \in Nat
BY BeforeType DEF Ahead

LEMMA AheadAbsent ==
    ASSUME NEW id, NEW s \in Seq(Message), ~Has(id, s)
    PROVE  Ahead(id, s) = Credits(s)
<1>1. CountBefore(s, CreditMessages, Marker(id)) = Count(s, CreditMessages)
  BY BeforeAbsent DEF Has
<1> QED BY <1>1, CreditsCount DEF Ahead

LEMMA AheadGrows ==
    ASSUME NEW id, NEW s \in Seq(Message), NEW t \in Seq(Message), Has(id, s)
    PROVE  Ahead(id, s \o t) = Ahead(id, s)
BY BeforeGrows DEF Ahead, Has

LEMMA AheadMark ==
    ASSUME NEW id, NEW s \in Seq(Message), NEW t \in Seq(Message), ~Has(id, s),
           t # << >>, t[1] = Marker(id)
    PROVE  Ahead(id, s \o t) = Credits(s)
<1>1. CountBefore(s \o t, CreditMessages, Marker(id)) = Count(s, CreditMessages)
  BY BeforeMark DEF Has
<1> QED BY <1>1, CreditsCount DEF Ahead

LEMMA AheadTail ==
    ASSUME NEW id, NEW s \in Seq(Message), s # << >>, Head(s) # Marker(id)
    PROVE  Ahead(id, s) = IsCredit(Head(s)) + Ahead(id, Tail(s))
<1>1. CountBefore(s, CreditMessages, Marker(id))
      = (IF Head(s) \in CreditMessages THEN 1 ELSE 0)
        + CountBefore(Tail(s), CreditMessages, Marker(id))
  BY BeforeTail
<1>2. Head(s) \in Message
  BY SeqTypes
<1>3. (IF Head(s) \in CreditMessages THEN 1 ELSE 0) = IsCredit(Head(s))
  BY <1>2 DEF CreditMessages, IsCredit
<1> QED BY <1>1, <1>3 DEF Ahead

LEMMA AheadHead ==
    ASSUME NEW id, NEW s \in Seq(Message), s # << >>, Head(s) = Marker(id)
    PROVE  Ahead(id, s) = 0
BY BeforeHead DEF Ahead

LEMMA AheadPrefix ==
    ASSUME NEW id, NEW s \in Seq(Message), NEW k \in Int, k <= Len(s),
           Has(id, SubSeq(s, 1, k))
    PROVE  Ahead(id, SubSeq(s, 1, k)) = Ahead(id, s)
<1>1. PICK u : u = SubSeq(s, 1, k)
  OBVIOUS
<1>2. /\ u \in Seq(Message) /\ Len(u) <= Len(s)
      /\ \A i \in 1 .. Len(u) : u[i] = s[i]
  <2>1. CASE 1 <= k
    <3>1. /\ 1 \in Int /\ \A i \in 1 .. k : s[i] \in Message
          /\ Len(s) \in Nat
      BY <2>1, LenProperties, ElementOfSeq
    <3>2. /\ SubSeq(s, 1, k) \in Seq(Message)
          /\ Len(SubSeq(s, 1, k)) = k
          /\ \A i \in 1 .. k : SubSeq(s, 1, k)[i] = s[i]
      BY <2>1, <3>1, SubSeqProperties
    <3> QED BY <1>1, <3>2
  <2>2. CASE k < 1
    <3>1. u = << >> /\ Len(s) \in Nat
      BY <1>1, <2>2, LenProperties
    <3> QED BY <3>1
  <2> QED BY <2>1, <2>2
<1>3. \E i \in DOMAIN u : u[i] = Marker(id)
  BY <1>1 DEF Has
<1>4. CountBefore(s, CreditMessages, Marker(id))
      = CountBefore(u, CreditMessages, Marker(id))
  BY <1>2, <1>3, BeforePrefix
<1> QED BY <1>1, <1>4 DEF Ahead

-----------------------------------------------------------------------------
(* The worth of a snapshot.                                                *)

Taken(id, p) == image[<<id, p>>].taken

Value(id, p) == IF Taken(id, p) THEN image[<<id, p>>].counter ELSE counter[p]

(* Sent before the image of the sender and not yet on the wire.            *)
Unsent(id, f) == IF Taken(id, f[1]) THEN image[<<id, f[1]>>].unsent[f[2]]
                                    ELSE Credits(outbox[f])

(* On the wire ahead of the marker.                                        *)
Transit(id, f) == IF Got(id, f) THEN 0 ELSE Ahead(id, wire[f])

(* Recorded.                                                               *)
Kept(id, f) ==
    CreditsIn(IF snapshotId[f[2]] = id THEN channelState[f[2]][f[1]]
              ELSE artifact[<<id, f[2]>>].channel[f[1]])

(* Delivered to the receiver and not read before its image: what another   *)
(* snapshot withholds from it counts as delivered.                         *)
Unread(id, f) ==
    IF Taken(id, f[2]) THEN image[<<id, f[2]>>].unread[f[1]]
    ELSE inbox[f[2]][f[1]]
         + IF snapshotId[f[2]] = id THEN 0
           ELSE CreditsIn(channelState[f[2]][f[1]])

Out(id, f) == Unsent(id, f) + Transit(id, f)
In(id, f) == Kept(id, f) + Unread(id, f)
Held(id, f) == Out(id, f) + In(id, f)

(* The worth can still be completed: nobody's image or artifact failed, no *)
(* marker was lost with a server, none was ignored.                        *)
FitNode(id, p) ==
    /\ p \in dead => Sent(id, p)
    /\ Begun(id, p) /\ (snapshotId[p] = id => phase[p] # "posted") =>
           Taken(id, p)
    /\ Begun(id, p) /\ snapshotId[p] # id =>
           artifact[<<id, p>>].status = "complete"

FitChannel(id, f) == Sent(id, f[1]) => Got(id, f) \/ Has(id, wire[f])

Fit(id) == /\ \A p \in Node : FitNode(id, p)
           /\ \A f \in Channel : FitChannel(id, f)

Worth(id) == SumFunction([p \in Node |-> Value(id, p)])
             + SumFunction([f \in Channel |-> Held(id, f)])

WorthInv == \A id \in SnapshotId \ aborted : Fit(id) => Worth(id) = Total

LEMMA HeldTypes ==
    ASSUME TypeInv, NEW id \in SnapshotId
    PROVE  /\ \A p \in Node : Value(id, p) \in Int
           /\ \A f \in Channel :
                  /\ Unsent(id, f) \in Nat /\ Transit(id, f) \in Nat
                  /\ Kept(id, f) \in Nat /\ Unread(id, f) \in Nat
                  /\ Out(id, f) \in Nat /\ In(id, f) \in Nat
                  /\ Held(id, f) \in Nat
<1>1. ChannelsOK /\ AppsOK /\ ControllersOK /\ StoresOK
  BY TypeParts DEF TypeInv
<1>2. ASSUME NEW p \in Node
      PROVE  /\ image[<<id, p>>].counter \in Int
             /\ image[<<id, p>>].unread \in [Node -> Nat]
             /\ image[<<id, p>>].unsent \in [Node -> Nat]
             /\ artifact[<<id, p>>].channel \in [Node -> Recorded]
  <2>1. <<id, p>> \in Key
    BY DEF Key
  <2>2. image[<<id, p>>] \in Image /\ artifact[<<id, p>>] \in Artifact
    BY <1>1, <2>1 DEF StoresOK
  <2> QED BY <2>2 DEF Image, Artifact
<1>3. ASSUME NEW p \in Node PROVE Value(id, p) \in Int
  BY <1>1, <1>2 DEF Value, AppsOK
<1>4. ASSUME NEW f \in Channel
      PROVE  /\ Unsent(id, f) \in Nat /\ Transit(id, f) \in Nat
             /\ Kept(id, f) \in Nat /\ Unread(id, f) \in Nat
  <2>1. f[1] \in Node /\ f[2] \in Node
    BY ChannelPair
  <2>2. /\ Credits(outbox[f]) \in Nat /\ wire[f] \in Seq(Message)
        /\ inbox[f[2]][f[1]] \in Nat
        /\ CreditsIn(channelState[f[2]][f[1]]) \in Nat
    BY LoadTypes
  <2>3. Unsent(id, f) \in Nat
    BY <1>2, <2>1, <2>2 DEF Unsent
  <2>4. Transit(id, f) \in Nat
    BY <2>2, AheadType DEF Transit
  <2>5. CreditsIn(artifact[<<id, f[2]>>].channel[f[1]]) \in Nat
    BY <1>2, <2>1, CreditsInType
  <2>6. Kept(id, f) \in Nat
    BY <2>2, <2>5 DEF Kept
  <2>7. Unread(id, f) \in Nat
    <3>1. CASE Taken(id, f[2])
      BY <1>2, <2>1, <3>1 DEF Unread
    <3>2. CASE ~Taken(id, f[2])
      <4> DEFINE a == inbox[f[2]][f[1]]
                 b == CreditsIn(channelState[f[2]][f[1]])
      <4>1. a \in Nat /\ b \in Nat
        BY <2>2
      <4>2. Unread(id, f) = a + IF snapshotId[f[2]] = id THEN 0 ELSE b
        BY <3>2 DEF Unread
      <4> HIDE DEF a, b
      <4> QED BY <4>1, <4>2
    <3> QED BY <3>1, <3>2
  <2> QED BY <2>3, <2>4, <2>6, <2>7
<1>5. ASSUME NEW f \in Channel
      PROVE  Out(id, f) \in Nat /\ In(id, f) \in Nat /\ Held(id, f) \in Nat
  BY <1>4 DEF Out, In, Held
<1> QED BY <1>3, <1>4, <1>5

-----------------------------------------------------------------------------
(* A step at p leaves the others alone.                                    *)

NodeSame(id, r) ==
    /\ image'[<<id, r>>] = image[<<id, r>>]
    /\ artifact'[<<id, r>>] = artifact[<<id, r>>]
    /\ begins'[<<id, r>>] = begins[<<id, r>>]
    /\ counter'[r] = counter[r] /\ inbox'[r] = inbox[r]
    /\ channelState'[r] = channelState[r]
    /\ snapshotId'[r] = snapshotId[r] /\ phase'[r] = phase[r]
    /\ recording'[r] = recording[r]

Elsewhere(p) ==
    /\ \A id \in SnapshotId, r \in Node \ {p} : NodeSame(id, r)
    /\ \A f \in Channel : f[1] # p => outbox'[f] = outbox[f]
    /\ \A f \in Channel : f[1] # p /\ f[2] # p => wire'[f] = wire[f]
    /\ dead \subseteq dead'

Steady(id) == /\ \A p \in Node : Value(id, p)' = Value(id, p)
              /\ \A f \in Channel : Held(id, f)' = Held(id, f)

(* What leaves the wire is what the receiver gets.                         *)
Passes(id, f) ==
    \E c \in Nat : /\ Transit(id, f)' = Transit(id, f) - c
                   /\ In(id, f)' = In(id, f) + c

LEMMA SameNode ==
    ASSUME NEW id, NEW r \in Node, NodeSame(id, r)
    PROVE  /\ Value(id, r)' = Value(id, r) /\ Taken(id, r)' = Taken(id, r)
           /\ Sent(id, r)' <=> Sent(id, r)
           /\ dead \subseteq dead' /\ FitNode(id, r)' => FitNode(id, r)
           /\ \A f \in Channel : f[2] = r => /\ Got(id, f)' <=> Got(id, f)
                                             /\ In(id, f)' = In(id, f)
           /\ \A f \in Channel : f[1] = r /\ outbox'[f] = outbox[f] =>
                  Unsent(id, f)' = Unsent(id, f)
<1>1. Taken(id, r)' = Taken(id, r) /\ Value(id, r)' = Value(id, r)
  BY DEF NodeSame, Taken, Value
<1>2. Sent(id, r)' <=> Sent(id, r)
  BY DEF NodeSame, Sent, Begun
<1>3. dead \subseteq dead' /\ FitNode(id, r)' => FitNode(id, r)
  BY <1>1, <1>2 DEF NodeSame, FitNode, Begun
<1>4. ASSUME NEW f \in Channel, f[2] = r
      PROVE  (Got(id, f)' <=> Got(id, f)) /\ In(id, f)' = In(id, f)
  <2>1. Got(id, f)' <=> Got(id, f)
    BY <1>4 DEF NodeSame, Got, Begun
  <2>2. Kept(id, f)' = Kept(id, f) /\ Unread(id, f)' = Unread(id, f)
    BY <1>1, <1>4 DEF NodeSame, Kept, Unread
  <2> QED BY <2>1, <2>2 DEF In
<1>5. ASSUME NEW f \in Channel, f[1] = r, outbox'[f] = outbox[f]
      PROVE  Unsent(id, f)' = Unsent(id, f)
  BY <1>1, <1>5 DEF NodeSame, Unsent
<1> QED BY <1>1, <1>2, <1>3, <1>4, <1>5

(* It is enough to look at p and its channels.                             *)
LEMMA SteadyAt ==
    ASSUME TypeInv, NEW p \in Node, Elsewhere(p), NEW id \in SnapshotId,
           Value(id, p)' = Value(id, p),
           \A f \in Channel : f[1] = p => Out(id, f)' = Out(id, f),
           \A f \in Channel : f[2] = p => Passes(id, f)
    PROVE  Steady(id)
<1>1. ASSUME NEW r \in Node PROVE Value(id, r)' = Value(id, r)
  BY SameNode DEF Elsewhere
<1>2. ASSUME NEW f \in Channel PROVE Held(id, f)' = Held(id, f)
  <2>1. f[1] \in Node /\ f[2] \in Node /\ f[1] # f[2]
    BY ChannelPair
  <2>2. CASE f[1] = p
    <3>1. In(id, f)' = In(id, f)
      BY <2>1, <2>2, SameNode DEF Elsewhere
    <3> QED BY <2>2, <3>1 DEF Held
  <2>3. CASE f[2] = p
    <3>1. Unsent(id, f)' = Unsent(id, f)
      BY <2>1, <2>3, SameNode DEF Elsewhere
    <3>2. PICK c \in Nat : /\ Transit(id, f)' = Transit(id, f) - c
                           /\ In(id, f)' = In(id, f) + c
      BY <2>3 DEF Passes
    <3> DEFINE u == Unsent(id, f)  t == Transit(id, f)  i == In(id, f)
    <3>3. u \in Nat /\ t \in Nat /\ i \in Nat
      BY HeldTypes
    <3>4. Held(id, f) = (u + t) + i /\ Held(id, f)' = (u + (t - c)) + (i + c)
      BY <3>1, <3>2 DEF Held, Out
    <3> HIDE DEF u, t, i
    <3> QED BY <3>3, <3>4
  <2>4. CASE f[1] # p /\ f[2] # p
    <3>1. /\ Unsent(id, f)' = Unsent(id, f) /\ In(id, f)' = In(id, f)
          /\ Got(id, f)' <=> Got(id, f)
      BY <2>1, <2>4, SameNode DEF Elsewhere
    <3>2. Transit(id, f)' = Transit(id, f)
      BY <2>4, <3>1 DEF Transit, Elsewhere
    <3> QED BY <3>1, <3>2 DEF Held, Out
  <2> QED BY <2>2, <2>3, <2>4
<1> QED BY <1>1, <1>2 DEF Steady

LEMMA FitAt ==
    ASSUME NEW p \in Node, Elsewhere(p), NEW id \in SnapshotId, Fit(id)',
           FitNode(id, p)' => FitNode(id, p),
           \A f \in Channel : f[1] = p \/ f[2] = p =>
               (FitChannel(id, f)' => FitChannel(id, f))
    PROVE  Fit(id)
<1>1. ASSUME NEW r \in Node PROVE FitNode(id, r)
  <2>1. FitNode(id, r)'
    BY DEF Fit
  <2> QED BY <2>1, SameNode DEF Elsewhere
<1>2. ASSUME NEW f \in Channel PROVE FitChannel(id, f)
  <2>1. FitChannel(id, f)' /\ f[1] \in Node /\ f[2] \in Node
    BY ChannelPair DEF Fit
  <2>2. CASE f[1] # p /\ f[2] # p
    <3>1. (Sent(id, f[1])' <=> Sent(id, f[1])) /\ (Got(id, f)' <=> Got(id, f))
          /\ wire'[f] = wire[f]
      BY <2>1, <2>2, SameNode DEF Elsewhere
    <3> QED BY <2>1, <3>1 DEF FitChannel
  <2> QED BY <2>1, <2>2
<1> QED BY <1>1, <1>2 DEF Fit

-----------------------------------------------------------------------------
(* Where a snapshot nobody aborted is.                                     *)

LEMMA HasAt ==
    ASSUME ChannelsOK, NEW id, NEW f \in Channel
    PROVE  Has(id, wire[f]) <=> \E i \in Nat : MarkerAt(id, f, i)
<1>1. DOMAIN wire[f] \subseteq Nat
  BY LenProperties DEF ChannelsOK
<1> QED BY <1>1 DEF Has, MarkerAt

LEMMA Places ==
    ASSUME IndInv, NEW id \in SnapshotId \ aborted
    PROVE  /\ \A p \in Node : ~Begun(id, p) =>
                  /\ ~Taken(id, p) /\ snapshotId[p] # id
                  /\ artifact[<<id, p>>].status = "none"
           /\ \A p \in Node : snapshotId[p] = id =>
                  /\ Begun(id, p) /\ artifact[<<id, p>>].status = "none"
                  /\ phase[p] = "posted" => ~Taken(id, p)
           /\ \A f \in Channel : ~Sent(id, f[1]) =>
                  ~Got(id, f) /\ ~Has(id, wire[f])
           /\ \A f \in Channel : Has(id, wire[f]) => ~Got(id, f)
<1> USE IndParts
<1>1. CutOf(id) /\ id # NoId
  BY NoIdAssumption DEF CutInv
<1>2. ASSUME NEW p \in Node
      PROVE  /\ snapshotId[p] = id => Begun(id, p)
             /\ StoreInv(id, p)
  BY <1>1 DEF BegunInv, Snapshotting, CutOf
<1>3. ASSUME NEW f \in Channel
      PROVE  /\ ~Sent(id, f[1]) => ~Got(id, f) /\ ~Has(id, wire[f])
             /\ Has(id, wire[f]) => ~Got(id, f)
  <2>1. MarkerInv(id, f) /\ MatchInv(id, f)
    BY <1>1 DEF CutOf
  <2> QED BY <2>1, HasAt DEF MarkerInv, MatchInv, SendIs
<1> QED BY <1>2, <1>3 DEF StoreInv, Taken

(* Of a server whose handler is not blocked the image is taken if it has   *)
(* begun the snapshot.                                                     *)
LEMMA FitRunning ==
    ASSUME IndInv, NEW id \in SnapshotId \ aborted, NEW p \in Node,
           FitNode(id, p), phase[p] = "running"
    PROVE  /\ Begun(id, p) <=> Taken(id, p)
           /\ Begun(id, p) <=> Sent(id, p)
BY Places DEF FitNode, Sent

LEMMA HasConcat ==
    ASSUME NEW id, NEW s \in Seq(Message), NEW t \in Seq(Message),
           ~Has(id, s), ~Has(id, t)
    PROVE  ~Has(id, s \o t)
<1>1. /\ \A i \in 1 .. Len(s) : s[i] # Marker(id)
      /\ \A i \in 1 .. Len(t) : t[i] # Marker(id)
      /\ Len(s) \in Nat /\ Len(t) \in Nat
  BY LenProperties DEF Has
<1>2. /\ DOMAIN (s \o t) = 1 .. Len(s) + Len(t)
      /\ \A i \in 1 .. Len(s) + Len(t) :
             (s \o t)[i] = IF i <= Len(s) THEN s[i] ELSE t[i - Len(s)]
  BY ConcatProperties, LenProperties
<1>3. ASSUME NEW i \in 1 .. Len(s) + Len(t) PROVE (s \o t)[i] # Marker(id)
  <2>1. CASE i <= Len(s)
    BY <1>1, <1>2, <2>1
  <2>2. CASE i > Len(s)
    <3>1. i - Len(s) \in 1 .. Len(t)
      BY <1>1, <2>2
    <3> QED BY <1>1, <1>2, <2>2, <3>1
  <2> QED BY <1>1, <2>1, <2>2
<1> QED BY <1>2, <1>3 DEF Has

LEMMA NoneHas == \A id : ~Has(id, << >>)
BY DEF Has

(* A message is handed over.                                               *)
LEMMA HasTail ==
    ASSUME NEW id, NEW s \in Seq(Message), s # << >>
    PROVE  /\ Has(id, Tail(s)) => Has(id, s)
           /\ Has(id, s) => Has(id, Tail(s)) \/ Head(s) = Marker(id)
<1>1. /\ Len(Tail(s)) = Len(s) - 1 /\ Len(s) \in Nat /\ Head(s) = s[1]
      /\ \A i \in 1 .. Len(Tail(s)) : Tail(s)[i] = s[i + 1]
  BY HeadTailProperties, HeadIsFirst, LenProperties
<1>2. /\ DOMAIN s = 1 .. Len(s) /\ DOMAIN Tail(s) = 1 .. Len(Tail(s))
  BY HeadTailProperties, LenProperties
<1>3. ASSUME NEW i \in DOMAIN Tail(s), Tail(s)[i] = Marker(id) PROVE Has(id, s)
  <2>1. i + 1 \in DOMAIN s /\ s[i + 1] = Marker(id)
    BY <1>1, <1>2, <1>3
  <2> QED BY <2>1 DEF Has
<1>4. ASSUME NEW i \in DOMAIN s, s[i] = Marker(id)
      PROVE  Has(id, Tail(s)) \/ Head(s) = Marker(id)
  <2>1. CASE i = 1
    BY <1>1, <1>4, <2>1
  <2>2. CASE i # 1
    <3>1. i - 1 \in DOMAIN Tail(s) /\ (i - 1) + 1 = i
      BY <1>1, <1>2, <2>2
    <3>2. Tail(s)[i - 1] = Marker(id)
      BY <1>1, <1>2, <1>4, <3>1
    <3> QED BY <3>1, <3>2 DEF Has
  <2> QED BY <2>1, <2>2
<1> QED BY <1>3, <1>4 DEF Has

LEMMA PassesSame ==
    ASSUME TypeInv, NEW id \in SnapshotId, NEW f \in Channel,
           Transit(id, f)' = Transit(id, f), In(id, f)' = In(id, f)
    PROVE  Passes(id, f)
<1>1. /\ Transit(id, f)' = Transit(id, f) - 0 /\ In(id, f)' = In(id, f) + 0
      /\ 0 \in Nat
  BY HeldTypes
<1> QED BY <1>1 DEF Passes

LEMMA DrainHas ==
    ASSUME IndInv, NEW p \in Node, Drain(p), NEW id, NEW f \in Channel,
           Has(id, wire'[f])
    PROVE  Has(id, wire[f])
<1> USE IndParts
<1>1. CASE f[1] = p
  <2>1. PICK w, o : w = wire[f] /\ o = outbox[f]
    OBVIOUS
  <2>2. /\ wire'[f] = w \o o /\ w \in Seq(Message) /\ o \in Seq(Message)
        /\ ~Has(id, o)
    <3>1. ~Has(id, o)
      BY <2>1 DEF PlainInv, Has, Marker
    <3> QED BY <1>1, <2>1, <3>1, LoadTypes DEF Drain
  <2> QED BY <2>1, <2>2, HasConcat
<1>2. CASE f[1] # p
  BY <1>2 DEF Drain
<1> QED BY <1>1, <1>2

(* What p has pending is in its image, or goes on the wire before any      *)
(* marker.                                                                 *)
LEMMA DrainOut ==
    ASSUME IndInv, NEW id \in SnapshotId \ aborted, NEW p \in Node,
           phase[p] = "running", FitNode(id, p), Drain(p), UNCHANGED image,
           NEW f \in Channel, f[1] = p, FitChannel(id, f),
           Got(id, f)' <=> Got(id, f)
    PROVE  Out(id, f)' = Out(id, f)
<1> USE IndParts
<1>1. PICK w, o : w = wire[f] /\ o = outbox[f]
  OBVIOUS
<1>2. /\ w \in Seq(Message) /\ o \in Seq(Message)
      /\ Credits(w) \in Nat /\ Credits(o) \in Nat
  BY <1>1, LoadTypes
<1>3. wire'[f] = w \o o /\ outbox'[f] = << >> /\ Taken(id, p)' = Taken(id, p)
  BY <1>1 DEF Drain, Taken
<1>4. (Begun(id, p) <=> Taken(id, p)) /\ (Begun(id, p) <=> Sent(id, p))
  BY FitRunning
<1>5. CASE Taken(id, p)
  <2>1. Unsent(id, f)' = Unsent(id, f)
    BY <1>3, <1>5 DEF Unsent, Taken
  <2>2. Has(id, w) => Ahead(id, w \o o) = Ahead(id, w)
    BY <1>2, AheadGrows
  <2>3. Got(id, f) \/ Has(id, w)
    BY <1>1, <1>4, <1>5 DEF FitChannel
  <2>4. Transit(id, f)' = Transit(id, f)
    BY <1>1, <1>3, <2>2, <2>3 DEF Transit
  <2> QED BY <2>1, <2>4 DEF Out
<1>6. CASE ~Taken(id, p)
  <2>1. ~Got(id, f) /\ ~Has(id, w)
    BY <1>1, <1>4, <1>6, Places
  <2>2. ~Has(id, w \o o)
    BY <1>1, <1>3, <2>1, DrainHas
  <2>3. /\ Ahead(id, w) = Credits(w) /\ w \o o \in Seq(Message)
        /\ Ahead(id, w \o o) = Credits(w \o o)
    BY <1>2, <2>1, <2>2, AheadAbsent, SeqTypes
  <2>4. Credits(w \o o) = Credits(w) + Credits(o)
    BY <1>2, CreditsConcat
  <2>5. Out(id, f) = Credits(o) + Credits(w)
    BY <1>1, <1>6, <2>1, <2>3 DEF Out, Unsent, Transit
  <2>6. Out(id, f)' = Credits(<< >>) + Credits(w \o o)
    BY <1>3, <1>6, <2>1, <2>3 DEF Out, Unsent, Transit
  <2> QED BY <1>2, <2>4, <2>5, <2>6, CreditsNone
<1> QED BY <1>5, <1>6

-----------------------------------------------------------------------------
(* One lemma per action: a snapshot that is fit after a step was fit before*)
(* it and has the same worth.                                              *)

LEMMA DrainWorth ==
    ASSUME IndInv, NEW p \in Node, phase[p] = "running", Drain(p),
           UNCHANGED <<inbox, counter, controllers, stores, begins, dead>>,
           NEW id \in SnapshotId \ aborted, Fit(id)'
    PROVE  Fit(id) /\ Steady(id)
<1> USE IndParts
<1>1. \A r \in Node : NodeSame(id, r)
  BY DEF NodeSame, controllers, stores
<1>2. Elsewhere(p)
  BY DEF Elsewhere, Drain, NodeSame, controllers, stores
<1>3. ASSUME NEW f \in Channel
      PROVE  /\ Got(id, f)' <=> Got(id, f)
             /\ Sent(id, f[1])' <=> Sent(id, f[1])
             /\ In(id, f)' = In(id, f)
  BY <1>1, ChannelPair, SameNode
<1>4. Fit(id)
  <2>1. FitNode(id, p)' => FitNode(id, p)
    BY <1>1, SameNode
  <2>2. \A f \in Channel : FitChannel(id, f)' => FitChannel(id, f)
    BY <1>3, DrainHas DEF FitChannel
  <2> QED BY <1>2, <2>1, <2>2, FitAt
<1>5. ASSUME NEW f \in Channel, f[1] = p PROVE Out(id, f)' = Out(id, f)
  BY <1>3, <1>4, <1>5, DrainOut DEF Fit, stores
<1>6. ASSUME NEW f \in Channel, f[2] = p PROVE Passes(id, f)
  <2>1. wire'[f] = wire[f]
    BY <1>6, ChannelPair DEF Drain
  <2>2. Transit(id, f)' = Transit(id, f)
    BY <1>3, <2>1 DEF Transit
  <2> QED BY <1>3, <2>2, PassesSame
<1>7. Value(id, p)' = Value(id, p)
  BY <1>1, SameNode
<1> QED BY <1>2, <1>4, <1>5, <1>6, <1>7, SteadyAt

LEMMA BeginWorth ==
    ASSUME IndInv, FlowInv, NEW p \in Node, NEW first \in SnapshotId, NEW from,
           Begin(p, first, from), phase[p] = "running", ~Snapshotting(p),
           first \notin aborted => ~Begun(first, p), UNCHANGED dead,
           NEW id \in SnapshotId \ aborted, Fit(id)'
    PROVE  Fit(id) /\ Steady(id)
<1> USE IndParts
<1>1. /\ Drain(p) /\ UNCHANGED <<inbox, counter, image, artifact, channelState>>
      /\ channelState[p] = NothingRecorded
  BY BeginFlow DEF Begin, stores, FlowInv, EmptyAt
<1>2. /\ snapshotId[p] = NoId /\ snapshotId'[p] = first /\ phase'[p] = "posted"
      /\ \A r \in Node \ {p} : /\ snapshotId'[r] = snapshotId[r]
                               /\ phase'[r] = phase[r]
                               /\ recording'[r] = recording[r]
      /\ \A k \in Key \ {<<first, p>>} : begins'[k] = begins[k]
  BY DEF Begin, Snapshotting, ControllersOK, BookkeepingOK
<1>3. Elsewhere(p)
  <2>1. ASSUME NEW x \in SnapshotId, NEW r \in Node \ {p} PROVE NodeSame(x, r)
    <3>1. <<x, r>> \in Key \ {<<first, p>>}
      BY DEF Key
    <3> QED BY <1>1, <1>2, <3>1 DEF NodeSame
  <2> QED BY <1>1, <2>1 DEF Elsewhere, Drain
<1>4. ASSUME NEW f \in Channel
      PROVE  /\ Got(id, f)' <=> Got(id, f)
             /\ In(id, f)' = In(id, f)
  <2>1. f[1] \in Node /\ f[2] \in Node
    BY ChannelPair
  <2>2. CASE f[2] # p
    BY <1>3, <2>1, <2>2, SameNode DEF Elsewhere
  <2>3. CASE f[2] = p /\ id # first
    <3>1. begins'[<<id, p>>] = begins[<<id, p>>]
      BY <1>2, <2>3 DEF Key
    <3>2. snapshotId[p] # id /\ snapshotId'[p] # id
      BY <1>2, <2>3, NoIdAssumption
    <3>3. Got(id, f)' <=> Got(id, f)
      BY <2>3, <3>1, <3>2 DEF Got, Begun
    <3>4. Kept(id, f)' = Kept(id, f) /\ Unread(id, f)' = Unread(id, f)
      BY <1>1, <2>3, <3>2 DEF Kept, Unread, Taken
    <3> QED BY <3>3, <3>4 DEF In
  <2>4. CASE f[2] = p /\ id = first
    <3>1. /\ ~Begun(id, p) /\ artifact[<<id, p>>].status = "none"
          /\ ~Taken(id, p) /\ snapshotId[p] # id
      BY <2>4, Places
    <3>2. ~Got(id, f) /\ ~Got(id, f)'
      BY <1>2, <2>4, <3>1 DEF Got
    <3>3. artifact[<<id, p>>].channel = NothingRecorded
      BY <3>1 DEF FlowInv, StoredAt, Key
    <3>4. Kept(id, f)' = Kept(id, f)
      <4>1. Kept(id, f) = CreditsIn(NothingRecorded[f[1]])
        BY <2>4, <3>1, <3>3 DEF Kept
      <4>2. Kept(id, f)' = CreditsIn(NothingRecorded[f[1]])
        BY <1>1, <1>2, <2>4 DEF Kept
      <4> QED BY <4>1, <4>2
    <3>5. Unread(id, f)' = Unread(id, f)
      <4>1. CreditsIn(channelState[p][f[1]]) = 0 /\ inbox[p][f[1]] \in Nat
        BY <1>1, <2>1, CreditsNone DEF AppsOK
      <4>2. Unread(id, f) = inbox[p][f[1]] + CreditsIn(channelState[p][f[1]])
        BY <2>4, <3>1 DEF Unread
      <4>3. Unread(id, f)' = inbox[p][f[1]] + 0
        BY <1>1, <1>2, <2>4, <3>1 DEF Unread, Taken
      <4> QED BY <4>1, <4>2, <4>3
    <3> QED BY <3>2, <3>4, <3>5 DEF In
  <2> QED BY <2>2, <2>3, <2>4
<1>5. FitNode(id, p)' => FitNode(id, p)
  <2>1. CASE id = first
    <3>1. ~Begun(id, p) /\ ~Sent(id, p)'
      BY <1>2, <2>1 DEF Sent
    <3> QED BY <3>1 DEF FitNode
  <2>2. CASE id # first
    <3>1. begins'[<<id, p>>] = begins[<<id, p>>]
      BY <1>2, <2>2 DEF Key
    <3> QED BY <1>1, <1>2, <2>2, <3>1, NoIdAssumption DEF FitNode, Sent, Begun, Taken
  <2> QED BY <2>1, <2>2
<1>6. Sent(id, p) => Sent(id, p)'
  <2>1. CASE id = first
    BY <2>1 DEF Sent
  <2>2. CASE id # first
    <3>1. begins'[<<id, p>>] = begins[<<id, p>>]
      BY <1>2, <2>2 DEF Key
    <3> QED BY <1>2, <2>2, <3>1 DEF Sent, Begun
  <2> QED BY <2>1, <2>2
<1>7. Fit(id)
  <2>1. ASSUME NEW f \in Channel, FitChannel(id, f)' PROVE FitChannel(id, f)
    <3>1. Sent(id, f[1]) => Sent(id, f[1])'
      BY <1>3, <1>6, ChannelPair, SameNode DEF Elsewhere
    <3> QED BY <1>1, <1>4, <2>1, <3>1, DrainHas DEF FitChannel
  <2> QED BY <1>3, <1>5, <2>1, FitAt
<1>8. ASSUME NEW f \in Channel, f[1] = p PROVE Out(id, f)' = Out(id, f)
  BY <1>1, <1>4, <1>7, <1>8, DrainOut DEF Fit
<1>9. ASSUME NEW f \in Channel, f[2] = p PROVE Passes(id, f)
  <2>1. wire'[f] = wire[f]
    BY <1>1, <1>9, ChannelPair DEF Drain
  <2>2. Transit(id, f)' = Transit(id, f)
    BY <1>4, <2>1 DEF Transit
  <2> QED BY <1>4, <2>2, PassesSame
<1>10. Value(id, p)' = Value(id, p)
  BY <1>1 DEF Value, Taken
<1> QED BY <1>3, <1>7, <1>8, <1>9, <1>10, SteadyAt

(* The image has the counter, what is unread and what is unsent; if the    *)
(* checkpoint failed the snapshot is not fit.                              *)
LEMMA ImageWorth ==
    ASSUME IndInv, NEW p \in Node, TakeImage(p) \/ CheckpointFails(p),
           NEW id \in SnapshotId \ aborted, Fit(id)'
    PROVE  Fit(id) /\ Steady(id)
<1> USE IndParts
<1>1. /\ UNCHANGED <<wire, counter, inbox, outbox, snapshotId, recording,
                     channelState, artifact, begins, dead>>
      /\ phase[p] = "posted" /\ phase'[p] = "imaged" /\ p \notin dead
      /\ \A r \in Node \ {p} : phase'[r] = phase[r]
  BY DEF TakeImage, CheckpointFails, channels, apps, stores, bookkeeping,
         ControllersOK, Alive
<1>2. \A k \in Key \ {<<snapshotId[p], p>>} : image'[k] = image[k]
  BY DEF TakeImage, CheckpointFails, stores, StoresOK
<1>3. Elsewhere(p)
  <2>1. ASSUME NEW x \in SnapshotId, NEW r \in Node \ {p} PROVE NodeSame(x, r)
    <3>1. <<x, r>> \in Key \ {<<snapshotId[p], p>>}
      BY DEF Key
    <3> QED BY <1>1, <1>2, <3>1 DEF NodeSame
  <2> QED BY <1>1, <2>1 DEF Elsewhere
<1>4. ASSUME NEW f \in Channel
      PROVE  (Got(id, f)' <=> Got(id, f)) /\ Transit(id, f)' = Transit(id, f)
  <2>1. Got(id, f)' <=> Got(id, f)
    BY <1>1, ChannelPair DEF Got, Begun
  <2> QED BY <1>1, <2>1 DEF Transit
<1>5. Sent(id, p)' <=> Sent(id, p)
  BY <1>1 DEF Sent, Begun
<1>6. CASE snapshotId[p] # id
  <2>1. image'[<<id, p>>] = image[<<id, p>>]
    BY <1>2, <1>6 DEF Key
  <2>2. Fit(id)
    <3>1. FitNode(id, p)' => FitNode(id, p)
      BY <1>1, <1>5, <1>6, <2>1 DEF FitNode, Begun, Taken
    <3>2. ASSUME NEW f \in Channel, FitChannel(id, f)' PROVE FitChannel(id, f)
      <4>1. Sent(id, f[1])' <=> Sent(id, f[1])
        BY <1>3, <1>5, ChannelPair, SameNode DEF Elsewhere
      <4> QED BY <1>1, <1>4, <3>2, <4>1 DEF FitChannel
    <3> QED BY <1>3, <3>1, <3>2, FitAt
  <2>3. ASSUME NEW f \in Channel, f[1] = p PROVE Out(id, f)' = Out(id, f)
    BY <1>1, <1>4, <2>1, <2>3 DEF Out, Unsent, Taken
  <2>4. ASSUME NEW f \in Channel, f[2] = p PROVE Passes(id, f)
    <3>1. Kept(id, f)' = Kept(id, f) /\ Unread(id, f)' = Unread(id, f)
      BY <1>1, <2>1, <2>4 DEF Kept, Unread, Taken
    <3> QED BY <1>4, <3>1, PassesSame DEF In
  <2>5. Value(id, p)' = Value(id, p)
    BY <1>1, <2>1 DEF Value, Taken
  <2> QED BY <1>3, <2>2, <2>3, <2>4, <2>5, SteadyAt
<1>7. CASE snapshotId[p] = id
  <2>1. Begun(id, p) /\ ~Taken(id, p) /\ FitNode(id, p)'
    BY <1>1, <1>7, Places DEF Fit
  <2>2. Taken(id, p)'
    BY <1>1, <2>1 DEF FitNode, Begun
  <2>3. TakeImage(p)
    <3>1. CASE CheckpointFails(p)
      BY <2>1, <2>2, <3>1 DEF CheckpointFails, stores, Taken
    <3> QED BY <3>1
  <2>4. image'[<<id, p>>] =
            [taken |-> TRUE, counter |-> counter[p], unread |-> inbox[p],
             unsent |-> [q \in Node |-> IF q = p THEN 0
                                        ELSE Credits(outbox[<<p, q>>])]]
    BY <1>7, <2>3 DEF TakeImage, Frozen, StoresOK, Key
  <2>5. Fit(id)
    <3>1. FitNode(id, p)
      BY <1>1, <1>7 DEF FitNode
    <3>2. ASSUME NEW f \in Channel, FitChannel(id, f)' PROVE FitChannel(id, f)
      <4>1. Sent(id, f[1])' <=> Sent(id, f[1])
        BY <1>3, <1>5, ChannelPair, SameNode DEF Elsewhere
      <4> QED BY <1>1, <1>4, <3>2, <4>1 DEF FitChannel
    <3> QED BY <1>3, <3>1, <3>2, FitAt
  <2>6. ASSUME NEW f \in Channel, f[1] = p PROVE Out(id, f)' = Out(id, f)
    <3>1. f[2] \in Node /\ f[2] # p /\ f = <<p, f[2]>>
      BY <2>6, ChannelPair
    <3>2. Unsent(id, f)' = Credits(outbox[f])
      BY <2>4, <2>6, <3>1 DEF Unsent, Taken
    <3>3. Unsent(id, f) = Credits(outbox[f])
      BY <2>1, <2>6 DEF Unsent
    <3> QED BY <1>4, <3>2, <3>3 DEF Out
  <2>7. ASSUME NEW f \in Channel, f[2] = p PROVE Passes(id, f)
    <3>1. f[1] \in Node /\ inbox[p][f[1]] \in Nat
      BY ChannelPair DEF AppsOK
    <3>2. Unread(id, f)' = inbox[p][f[1]]
      BY <2>4, <2>7 DEF Unread, Taken
    <3>3. Unread(id, f) = inbox[p][f[1]]
      BY <1>7, <2>1, <2>7, <3>1 DEF Unread
    <3>4. Kept(id, f)' = Kept(id, f)
      BY <1>1 DEF Kept
    <3> QED BY <1>4, <3>2, <3>3, <3>4, PassesSame DEF In
  <2>8. Value(id, p)' = Value(id, p)
    BY <2>1, <2>4 DEF Value, Taken
  <2> QED BY <1>3, <2>5, <2>6, <2>7, <2>8, SteadyAt
<1> QED BY <1>6, <1>7

-----------------------------------------------------------------------------
(* The end of a snapshot at p.                                             *)

LEMMA EndElsewhere ==
    ASSUME IndInv, FlowInv, NEW p \in Node, NEW status, status # "none",
           NEW send, NEW recv, NEW withheld, withheld = channelState[p],
           End(p, status, send, recv, withheld), snapshotId[p] \in SnapshotId,
           \A r \in Node \ {p} : phase'[r] = phase[r],
           UNCHANGED <<image, counter, begins>>
    PROVE  /\ \A x \in SnapshotId, r \in Node \ {p} : NodeSame(x, r)
           /\ \A x \in SnapshotId : x # snapshotId[p] =>
                  artifact'[<<x, p>>] = artifact[<<x, p>>]
           /\ FlushEffect(p) /\ StoresWithheld(p)
<1> USE IndParts
<1>1. FlushEffect(p) /\ StoresWithheld(p)
  BY EndFlow
<1>2. /\ \A r \in Node \ {p} : recording'[r] = recording[r]
      /\ \A k \in Key \ {<<snapshotId[p], p>>} : artifact'[k] = artifact[k]
  BY EndEffect
<1>3. ASSUME NEW x \in SnapshotId, NEW r \in Node \ {p} PROVE NodeSame(x, r)
  <2>1. <<x, r>> \in Key \ {<<snapshotId[p], p>>}
    BY DEF Key
  <2> QED BY <1>1, <1>2, <2>1 DEF NodeSame, FlushEffect
<1>4. ASSUME NEW x \in SnapshotId, x # snapshotId[p]
      PROVE  artifact'[<<x, p>>] = artifact[<<x, p>>]
  <2>1. <<x, p>> \in Key \ {<<snapshotId[p], p>>}
    BY <1>4 DEF Key
  <2> QED BY <1>2, <2>1
<1> QED BY <1>1, <1>3, <1>4

(* In another snapshot what was withheld has counted as delivered, and now *)
(* it is.                                                                  *)
LEMMA FlushOther ==
    ASSUME IndInv, NEW p \in Node, FlushEffect(p), UNCHANGED image,
           NEW id \in SnapshotId, id # snapshotId[p],
           artifact'[<<id, p>>] = artifact[<<id, p>>],
           begins'[<<id, p>>] = begins[<<id, p>>],
           UNCHANGED <<counter, dead>>
    PROVE  /\ \A f \in Channel : f[2] = p =>
                  In(id, f)' = In(id, f) /\ (Got(id, f)' <=> Got(id, f))
           /\ Value(id, p)' = Value(id, p)
           /\ FitNode(id, p)' => FitNode(id, p)
           /\ Sent(id, p)' <=> Sent(id, p)
<1> USE IndParts
<1>1. snapshotId'[p] = NoId /\ snapshotId'[p] # id
  BY NoIdAssumption DEF FlushEffect
<1>2. ASSUME NEW f \in Channel, f[2] = p
      PROVE  In(id, f)' = In(id, f) /\ (Got(id, f)' <=> Got(id, f))
  <2>1. Got(id, f)' <=> Got(id, f)
    BY <1>1, <1>2 DEF Got, Begun
  <2>2. Kept(id, f)' = Kept(id, f)
    BY <1>1, <1>2 DEF Kept
  <2>3. Unread(id, f)' = Unread(id, f)
    <3>1. CASE Taken(id, p)
      BY <1>2, <3>1 DEF Unread, Taken
    <3>2. CASE ~Taken(id, p)
      <4>1. Unread(id, f) = Door(f) /\ Unread(id, f)' = Door(f)'
        BY <1>1, <1>2, <3>2 DEF Unread, Door, Taken
      <4> QED BY <4>1, FlushDoor
    <3> QED BY <3>1, <3>2
  <2> QED BY <2>1, <2>2, <2>3 DEF In
<1>3. Value(id, p)' = Value(id, p)
  BY DEF Value, Taken
<1>4. Sent(id, p)' <=> Sent(id, p)
  BY <1>1 DEF Sent, Begun
<1>5. FitNode(id, p)' => FitNode(id, p)
  BY <1>1, <1>4 DEF FitNode, Begun, Taken
<1> QED BY <1>2, <1>3, <1>4, <1>5

(* In its own snapshot the artifact has it.                                *)
LEMMA FlushOwn ==
    ASSUME IndInv, NEW p \in Node, FlushEffect(p), StoresWithheld(p),
           UNCHANGED <<image, begins>>, NEW id \in SnapshotId \ aborted,
           id = snapshotId[p], FitNode(id, p)'
    PROVE  /\ \A f \in Channel : f[2] = p =>
                  In(id, f)' = In(id, f) /\ Got(id, f)'
           /\ Taken(id, p) /\ Begun(id, p) /\ Sent(id, p)'
<1> USE IndParts
<1>1. snapshotId'[p] = NoId /\ snapshotId'[p] # id
  BY NoIdAssumption DEF FlushEffect
<1>2. Begun(id, p) /\ Begun(id, p)' /\ artifact[<<id, p>>].status = "none"
  BY Places DEF Begun
<1>3. Taken(id, p)' /\ Taken(id, p) /\ artifact'[<<id, p>>].status = "complete"
  BY <1>1, <1>2 DEF FitNode, Taken
<1>4. artifact'[<<id, p>>].channel = channelState[p]
  BY <1>2, <1>3 DEF StoresWithheld, Key
<1>5. ASSUME NEW f \in Channel, f[2] = p
      PROVE  In(id, f)' = In(id, f) /\ Got(id, f)'
  <2>1. Got(id, f)'
    BY <1>1, <1>2, <1>5 DEF Got
  <2>2. Kept(id, f)' = Kept(id, f)
    BY <1>1, <1>4, <1>5 DEF Kept
  <2>3. Unread(id, f)' = Unread(id, f)
    BY <1>3, <1>5 DEF Unread, Taken
  <2> QED BY <2>1, <2>2, <2>3 DEF In
<1>6. Sent(id, p)'
  BY <1>1, <1>2 DEF Sent
<1> QED BY <1>2, <1>3, <1>5, <1>6

LEMMA TimeoutWorth ==
    ASSUME IndInv, FlowInv, NEW p \in Node, Timeout(p),
           NEW id \in SnapshotId \ aborted', Fit(id)'
    PROVE  Fit(id) /\ Steady(id)
<1> USE IndParts
<1>1. /\ snapshotId[p] \in SnapshotId /\ id # snapshotId[p]
      /\ UNCHANGED <<wire, outbox, image, counter, begins, phase, dead>>
      /\ End(p, "aborted", recordedSend[p], recordedRecv[p], channelState[p])
  BY DEF Timeout, Snapshotting, ControllersOK, channels
<1>2. /\ \A x \in SnapshotId, r \in Node \ {p} : NodeSame(x, r)
      /\ artifact'[<<id, p>>] = artifact[<<id, p>>]
      /\ FlushEffect(p)
  BY <1>1, EndElsewhere
<1>3. Elsewhere(p)
  BY <1>1, <1>2 DEF Elsewhere
<1>4. /\ \A f \in Channel : f[2] = p =>
             In(id, f)' = In(id, f) /\ (Got(id, f)' <=> Got(id, f))
      /\ Value(id, p)' = Value(id, p)
      /\ FitNode(id, p)' => FitNode(id, p)
      /\ Sent(id, p)' <=> Sent(id, p)
  BY <1>1, <1>2, FlushOther
<1>5. ASSUME NEW f \in Channel
      PROVE  /\ Got(id, f)' <=> Got(id, f)
             /\ Sent(id, f[1])' <=> Sent(id, f[1])
             /\ Transit(id, f)' = Transit(id, f)
  <2>1. Got(id, f)' <=> Got(id, f)
    BY <1>2, <1>4, ChannelPair, SameNode
  <2>2. Sent(id, f[1])' <=> Sent(id, f[1])
    BY <1>2, <1>4, ChannelPair, SameNode
  <2> QED BY <1>1, <2>1, <2>2 DEF Transit
<1>6. Fit(id)
  <2>1. \A f \in Channel : FitChannel(id, f)' => FitChannel(id, f)
    BY <1>1, <1>5 DEF FitChannel
  <2> QED BY <1>3, <1>4, <2>1, FitAt
<1>7. ASSUME NEW f \in Channel, f[1] = p PROVE Out(id, f)' = Out(id, f)
  BY <1>1, <1>5 DEF Out, Unsent, Taken
<1>8. ASSUME NEW f \in Channel, f[2] = p PROVE Passes(id, f)
  BY <1>4, <1>5, <1>8, PassesSame
<1> QED BY <1>3, <1>4, <1>6, <1>7, <1>8, SteadyAt

-----------------------------------------------------------------------------
(* A message is handed over.                                               *)

LEMMA ConsumeAhead ==
    ASSUME IndInv, NEW p \in Node, NEW q \in Node, HasHead(q, p),
           Consume(p, q), NEW id
    PROVE  LET f == <<q, p>>
           IN  /\ f \in Channel /\ wire[f] # << >> /\ wire[f] \in Seq(Message)
               /\ Arriving(q, p) # Marker(id) =>
                      /\ Has(id, wire'[f]) <=> Has(id, wire[f])
                      /\ Ahead(id, wire[f])
                         = IsCredit(Arriving(q, p)) + Ahead(id, wire'[f])
                      /\ Ahead(id, wire'[f]) \in Nat
               /\ Arriving(q, p) = Marker(id) =>
                      Has(id, wire[f]) /\ Ahead(id, wire[f]) = 0
               /\ \A g \in Channel : g # f => wire'[g] = wire[g]
               /\ \A g \in Channel : Has(id, wire'[g]) => Has(id, wire[g])
<1> USE IndParts
<1>1. PICK f : f = <<q, p>>
  OBVIOUS
<1>2. PICK w, m : w = wire[f] /\ m = Arriving(q, p)
  OBVIOUS
<1>3. /\ f \in Channel /\ w # << >> /\ w \in Seq(Message)
      /\ wire'[f] = Tail(w) /\ m = Head(w) /\ Tail(w) \in Seq(Message)
  BY <1>1, <1>2, SeqTypes DEF HasHead, Consume, ChannelsOK, Arriving
<1>4. \A g \in Channel : g # f => wire'[g] = wire[g]
  BY <1>1, ConsumeElsewhere
<1>5. ASSUME m # Marker(id)
      PROVE  /\ Has(id, wire'[f]) <=> Has(id, wire[f])
             /\ Ahead(id, wire[f]) = IsCredit(m) + Ahead(id, wire'[f])
             /\ Ahead(id, wire'[f]) \in Nat
  BY <1>2, <1>3, <1>5, HasTail, AheadTail, AheadType
<1>6. ASSUME m = Marker(id)
      PROVE  Has(id, wire[f]) /\ Ahead(id, wire[f]) = 0
  <2>1. w[1] = Marker(id) /\ 1 \in DOMAIN w
    BY <1>3, <1>6, HeadIsFirst
  <2> QED BY <1>2, <1>3, <1>6, <2>1, AheadHead DEF Has
<1>7. \A g \in Channel : Has(id, wire'[g]) => Has(id, wire[g])
  BY <1>2, <1>3, <1>4, HasTail
<1> QED BY <1>1, <1>2, <1>3, <1>4, <1>5, <1>6, <1>7

(* Only the channel from q and what p holds of it change.                  *)
Quiet(p, q) ==
    /\ UNCHANGED <<counter, outbox, snapshotId, phase, recording, image,
                   artifact, begins, dead>>
    /\ \A r \in Node \ {p} : /\ inbox'[r] = inbox[r]
                             /\ channelState'[r] = channelState[r]
    /\ \A s \in Node \ {q} : /\ inbox'[p][s] = inbox[p][s]
                             /\ channelState'[p][s] = channelState[p][s]

LEMMA QuietWorth ==
    ASSUME IndInv, NEW p \in Node, NEW q \in Node, HasHead(q, p),
           Consume(p, q), Quiet(p, q), NEW id \in SnapshotId \ aborted,
           Fit(id)', NEW f0, f0 = <<q, p>>
    PROVE  /\ Fit(id) /\ Elsewhere(p) /\ f0 \in Channel
           /\ \A f \in Channel : Got(id, f)' <=> Got(id, f)
           /\ \A r \in Node : /\ Taken(id, r)' <=> Taken(id, r)
                              /\ Sent(id, r)' <=> Sent(id, r)
           /\ Arriving(q, p) # Marker(id)
              /\ In(id, f0)' = In(id, f0) + (IF Got(id, f0) THEN 0
                                             ELSE IsCredit(Arriving(q, p))) =>
                  Steady(id)
<1> USE IndParts
<1>1. /\ f0 \in Channel /\ wire[f0] \in Seq(Message)
      /\ Arriving(q, p) # Marker(id) =>
             /\ Ahead(id, wire[f0])
                = IsCredit(Arriving(q, p)) + Ahead(id, wire'[f0])
             /\ Ahead(id, wire'[f0]) \in Nat
      /\ \A g \in Channel : g # f0 => wire'[g] = wire[g]
      /\ \A g \in Channel : Has(id, wire'[g]) => Has(id, wire[g])
  BY ConsumeAhead
<1>2. Elsewhere(p)
  <2>1. \A f \in Channel : f[2] # p => f # f0
    OBVIOUS
  <2> QED BY <1>1, <2>1 DEF Elsewhere, NodeSame, Quiet
<1>3. /\ \A f \in Channel : Got(id, f)' <=> Got(id, f)
      /\ \A r \in Node : /\ Taken(id, r)' <=> Taken(id, r)
                         /\ Sent(id, r)' <=> Sent(id, r)
  BY DEF Quiet, Got, Taken, Sent, Begun
<1>4. Fit(id)
  <2>1. FitNode(id, p)' => FitNode(id, p)
    BY DEF Quiet, FitNode, Sent, Begun, Taken
  <2>2. ASSUME NEW f \in Channel, FitChannel(id, f)' PROVE FitChannel(id, f)
    BY <1>1, <1>3, <2>2, ChannelPair DEF FitChannel
  <2> QED BY <1>2, <2>1, <2>2, FitAt
<1>5. ASSUME Arriving(q, p) # Marker(id),
             In(id, f0)' = In(id, f0) + (IF Got(id, f0) THEN 0
                                         ELSE IsCredit(Arriving(q, p)))
      PROVE  Steady(id)
  <2>1. Value(id, p)' = Value(id, p)
    BY DEF Value, Taken, Quiet
  <2>2. ASSUME NEW f \in Channel, f[1] = p PROVE Out(id, f)' = Out(id, f)
    <3>1. f # f0 /\ f[2] \in Node
      BY <2>2, ChannelPair
    <3>2. Transit(id, f)' = Transit(id, f)
      BY <1>1, <1>3, <3>1 DEF Transit
    <3>3. Unsent(id, f)' = Unsent(id, f)
      BY DEF Unsent, Taken, Quiet
    <3> QED BY <3>2, <3>3 DEF Out
  <2>3. ASSUME NEW f \in Channel, f[2] = p, f # f0 PROVE Passes(id, f)
    <3>1. f[1] \in Node \ {q}
      BY <2>3, ChannelPair
    <3>2. Transit(id, f)' = Transit(id, f)
      BY <1>1, <1>3, <2>3 DEF Transit
    <3>3. Kept(id, f)' = Kept(id, f) /\ Unread(id, f)' = Unread(id, f)
      BY <2>3, <3>1 DEF Kept, Unread, Taken, Quiet
    <3> QED BY <3>2, <3>3, PassesSame DEF In
  <2>4. Passes(id, f0)
    <3>1. IsCredit(Arriving(q, p)) \in Nat
      BY DEF IsCredit
    <3>2. CASE Got(id, f0)
      <4>1. Transit(id, f0)' = Transit(id, f0) /\ In(id, f0) \in Nat
        BY <1>1, <1>3, <3>2, HeldTypes DEF Transit
      <4>2. In(id, f0)' = In(id, f0)
        BY <1>5, <3>2, <4>1
      <4> QED BY <1>1, <4>1, <4>2, PassesSame
    <3>3. CASE ~Got(id, f0)
      <4> PICK c, a, b : /\ c = IsCredit(Arriving(q, p))
                         /\ a = Ahead(id, wire[f0]) /\ b = Ahead(id, wire'[f0])
        OBVIOUS
      <4>1. Transit(id, f0) = a /\ Transit(id, f0)' = b
        BY <1>1, <1>3, <3>3 DEF Transit
      <4>2. a = c + b /\ b \in Nat /\ c \in Nat
        BY <1>1, <1>5, <3>1
      <4>3. b = a - c
        BY <4>2
      <4>4. In(id, f0)' = In(id, f0) + c
        BY <1>5, <3>3
      <4> QED BY <4>1, <4>2, <4>3, <4>4 DEF Passes
    <3> QED BY <3>2, <3>3
  <2> QED BY <1>2, <2>1, <2>2, <2>3, <2>4, SteadyAt
<1> QED BY <1>1, <1>2, <1>3, <1>4, <1>5

(* What is ignored is the marker of another snapshot, or of one that       *)
(* cannot be completed any more.                                           *)
LEMMA IgnoreMarkerWorth ==
    ASSUME IndInv, IndInv', NEW p \in Node, NEW q \in Node,
           IgnoreMarker(p, q), NEW id \in SnapshotId \ aborted, Fit(id)'
    PROVE  Fit(id) /\ Steady(id)
<1> USE IndParts
<1> PICK f0 : f0 = <<q, p>>
  OBVIOUS
<1>1. /\ HasHead(q, p) /\ Consume(p, q) /\ Quiet(p, q)
      /\ Arriving(q, p).type = "marker" /\ UNCHANGED <<inbox, channelState>>
      /\ Arriving(q, p).id # snapshotId[p] \/ q \notin recording[p]
      /\ aborted' = aborted
  BY DEF IgnoreMarker, Quiet, apps, controllers, stores, bookkeeping
<1>2. IsCredit(Arriving(q, p)) = 0
  BY <1>1 DEF IsCredit
<1>3. /\ Fit(id) /\ f0 \in Channel
      /\ \A f \in Channel : Got(id, f)' <=> Got(id, f)
      /\ \A r \in Node : /\ Taken(id, r)' <=> Taken(id, r)
                         /\ Sent(id, r)' <=> Sent(id, r)
      /\ Arriving(q, p) # Marker(id)
         /\ In(id, f0)' = In(id, f0) + (IF Got(id, f0) THEN 0
                                        ELSE IsCredit(Arriving(q, p))) =>
             Steady(id)
  BY <1>1, QuietWorth
<1>4. In(id, f0)' = In(id, f0) /\ In(id, f0) \in Nat
  <2>1. Kept(id, f0)' = Kept(id, f0) /\ Unread(id, f0)' = Unread(id, f0)
    BY <1>1 DEF Kept, Unread, Taken, Quiet
  <2> QED BY <1>3, <2>1, HeldTypes DEF In
<1>5. Arriving(q, p) # Marker(id)
  <2> SUFFICES ASSUME Arriving(q, p) = Marker(id) PROVE FALSE
    OBVIOUS
  <2>1. MarkerAt(id, f0, 1)
    BY <1>1, ArrivingMarker DEF Marker
  <2>2. MarkerInv(id, f0) /\ f0[1] = q /\ f0[2] = p
    BY <1>3 DEF CutInv, CutOf
  <2>3. SendIs(id, f0, recvSeq[f0] + 1) /\ ~Got(id, f0)
    BY <2>1, <2>2 DEF MarkerInv
  <2>4. Sent(id, q)' /\ ~Got(id, f0)'
    BY <1>3, <2>2, <2>3 DEF SendIs
  <2>5. Has(id, wire'[f0])
    BY <1>3, <2>2, <2>4 DEF Fit, FitChannel
  <2>6. PICK i \in DOMAIN wire'[f0] : wire'[f0][i] = Marker(id)
    BY <2>5 DEF Has
  <2> PICK w : w = wire[f0]
    OBVIOUS
  <2>7. w \in Seq(Message) /\ w # << >> /\ wire'[f0] = Tail(w)
    BY <1>1, <1>3 DEF HasHead, Consume, ChannelsOK
  <2>8. /\ Tail(w) \in Seq(Message) /\ Len(Tail(w)) = Len(w) - 1
        /\ \A j \in 1 .. Len(Tail(w)) : Tail(w)[j] = w[j + 1]
    BY <2>7, HeadTailProperties
  <2>9. /\ DOMAIN Tail(w) = 1 .. Len(Tail(w)) /\ DOMAIN w = 1 .. Len(w)
        /\ Len(w) \in Nat
    BY <2>7, <2>8, LenProperties
  <2>10. i + 1 \in DOMAIN w /\ w[i + 1] = Marker(id) /\ i \in Nat /\ i # 0
    BY <2>6, <2>7, <2>8, <2>9
  <2>11. MarkerAt(id, f0, i + 1) /\ i + 1 \in Nat
    BY <2>10 DEF MarkerAt
  <2>12. i + 1 = 1
    BY <2>1, <2>2, <2>11 DEF MarkerInv
  <2> QED BY <2>10, <2>12
<1> QED BY <1>2, <1>3, <1>4, <1>5

(* What is recorded for a snapshot counts in it as recorded, and in any    *)
(* other as delivered.                                                     *)
LEMMA RecordWorth ==
    ASSUME IndInv, NEW p \in Node, NEW q \in Node, Record(p, q),
           NEW id \in SnapshotId \ aborted, Fit(id)'
    PROVE  Fit(id) /\ Steady(id)
<1> USE IndParts
<1> PICK f0 : f0 = <<q, p>>
  OBVIOUS
<1>1. /\ HasHead(q, p) /\ Consume(p, q) /\ phase[p] = "running"
      /\ Arriving(q, p).type # "marker" /\ Snapshotting(p)
      /\ q \in recording[p]
      /\ channelState' = [channelState EXCEPT ![p][q] =
             Append(@, [seq |-> recvSeq[f0], msg |-> Arriving(q, p)])]
      /\ UNCHANGED <<counter, inbox, outbox, snapshotId, phase, recording,
                     image, artifact, begins, dead>>
  BY DEF Record, Running, apps, stores, bookkeeping
<1>2. Quiet(p, q)
  BY <1>1 DEF Quiet, ControllersOK
<1>3. Arriving(q, p) # Marker(id) /\ Arriving(q, p) \in Message
  BY <1>1, ArrivingType DEF Marker
<1>4. /\ Fit(id) /\ f0 \in Channel /\ f0[1] = q /\ f0[2] = p
      /\ \A f \in Channel : Got(id, f)' <=> Got(id, f)
      /\ \A r \in Node : /\ Taken(id, r)' <=> Taken(id, r)
                         /\ Sent(id, r)' <=> Sent(id, r)
      /\ Arriving(q, p) # Marker(id)
         /\ In(id, f0)' = In(id, f0) + (IF Got(id, f0) THEN 0
                                        ELSE IsCredit(Arriving(q, p))) =>
             Steady(id)
  BY <1>1, <1>2, QuietWorth
<1> PICK c, r : c = IsCredit(Arriving(q, p)) /\ r = channelState[p][q]
  OBVIOUS
<1>5. /\ r \in Recorded /\ CreditsIn(r) \in Nat /\ c \in Nat
      /\ channelState'[p][q]
         = Append(r, [seq |-> recvSeq[f0], msg |-> Arriving(q, p)])
      /\ recvSeq[f0] \in Nat
  <2>1. r \in Recorded
    BY DEF ControllersOK
  <2> QED BY <1>1, <1>4, <2>1, CreditsInType
          DEF IsCredit, ControllersOK, ChannelsOK
<1>6. CreditsIn(channelState'[p][q]) = CreditsIn(r) + c
  BY <1>3, <1>5, CreditsInAppend
<1>7. /\ Begun(id, p) <=> Taken(id, p)
      /\ Taken(id, p)' <=> Taken(id, p)
  BY <1>1, <1>4, FitRunning DEF Fit
<1> PICK kept, unread : kept = Kept(id, f0) /\ unread = Unread(id, f0)
  OBVIOUS
<1>8. kept \in Nat /\ unread \in Nat /\ In(id, f0) = kept + unread
  BY <1>4, HeldTypes DEF In
<1>9. CASE snapshotId[p] = id
  <2>1. Taken(id, p) /\ ~Got(id, f0)
    BY <1>1, <1>4, <1>7, <1>9, Places DEF Got
  <2>2. Kept(id, f0)' = kept + c
    BY <1>1, <1>4, <1>5, <1>6, <1>9 DEF Kept
  <2>3. Unread(id, f0)' = unread
    BY <1>1, <1>4, <1>7, <2>1 DEF Unread
  <2>4. In(id, f0)' = In(id, f0) + c
    BY <1>5, <1>8, <2>2, <2>3 DEF In
  <2> QED BY <1>3, <1>4, <2>1, <2>4
<1>10. CASE snapshotId[p] # id
  <2>1. Kept(id, f0)' = kept
    BY <1>1, <1>4, <1>10 DEF Kept
  <2>2. CASE Begun(id, p)
    <3>1. Got(id, f0) /\ Taken(id, p)
      BY <1>4, <1>7, <1>10, <2>2 DEF Got
    <3>2. Unread(id, f0)' = unread
      BY <1>1, <1>4, <1>7, <3>1 DEF Unread
    <3>3. In(id, f0)' = In(id, f0) + 0
      BY <1>8, <2>1, <3>2 DEF In
    <3> QED BY <1>3, <1>4, <3>1, <3>3
  <2>3. CASE ~Begun(id, p)
    <3>1. ~Got(id, f0) /\ ~Taken(id, p)
      BY <1>4, <1>7, <2>3 DEF Got
    <3> PICK n : n = inbox[p][q]
      OBVIOUS
    <3>2. n \in Nat
      BY DEF AppsOK
    <3>3. unread = n + CreditsIn(r)
      BY <1>4, <1>10, <3>1 DEF Unread
    <3>4. Unread(id, f0)' = n + (CreditsIn(r) + c)
      BY <1>1, <1>4, <1>6, <1>7, <1>10, <3>1 DEF Unread
    <3>5. In(id, f0)' = In(id, f0) + c
      <4>1. In(id, f0)' = kept + (n + (CreditsIn(r) + c))
        BY <2>1, <3>4 DEF In
      <4> QED BY <1>5, <1>8, <3>2, <3>3, <4>1
    <3> QED BY <1>3, <1>4, <3>1, <3>5
  <2> QED BY <2>2, <2>3
<1> QED BY <1>9, <1>10

(* What goes to the application before its image counts as delivered.      *)
LEMMA DeliverWorth ==
    ASSUME IndInv, NEW p \in Node, NEW q \in Node, Deliver(p, q),
           NEW id \in SnapshotId \ aborted, Fit(id)'
    PROVE  Fit(id) /\ Steady(id)
<1> USE IndParts
<1> PICK f0 : f0 = <<q, p>>
  OBVIOUS
<1> PICK c, n : c = IsCredit(Arriving(q, p)) /\ n = inbox[p][q]
  OBVIOUS
<1>1. /\ HasHead(q, p) /\ Consume(p, q) /\ phase[p] = "running"
      /\ Arriving(q, p).type # "marker"
      /\ ~(Snapshotting(p) /\ q \in recording[p])
      /\ UNCHANGED <<counter, channelState, outbox, snapshotId, phase,
                     recording, image, artifact, begins, dead>>
  BY DEF Deliver, Running, controllers, stores, bookkeeping
<1>2. Quiet(p, q) /\ inbox'[p][q] = n + c /\ n \in Nat /\ c \in Nat
  BY <1>1 DEF Quiet, AppsOK, Deliver, IsCredit
<1>3. Arriving(q, p) # Marker(id)
  BY <1>1 DEF Marker
<1>4. /\ Fit(id) /\ f0 \in Channel /\ f0[1] = q /\ f0[2] = p
      /\ \A f \in Channel : Got(id, f)' <=> Got(id, f)
      /\ \A r \in Node : /\ Taken(id, r)' <=> Taken(id, r)
                         /\ Sent(id, r)' <=> Sent(id, r)
      /\ Arriving(q, p) # Marker(id)
         /\ In(id, f0)' = In(id, f0) + (IF Got(id, f0) THEN 0
                                        ELSE IsCredit(Arriving(q, p))) =>
             Steady(id)
  BY <1>1, <1>2, QuietWorth
<1>5. /\ Begun(id, p) <=> Taken(id, p)
      /\ Taken(id, p)' <=> Taken(id, p)
  BY <1>1, <1>4, FitRunning DEF Fit
<1> PICK kept, unread : kept = Kept(id, f0) /\ unread = Unread(id, f0)
  OBVIOUS
<1>6. kept \in Nat /\ unread \in Nat /\ In(id, f0) = kept + unread
  BY <1>4, HeldTypes DEF In
<1>7. Kept(id, f0)' = kept
  BY <1>1 DEF Kept
<1>8. CASE Begun(id, p)
  <2>1. Got(id, f0) /\ Taken(id, p)
    BY <1>1, <1>4, <1>5, <1>8, NoIdAssumption DEF Got, Snapshotting
  <2>2. Unread(id, f0)' = unread
    BY <1>1, <1>4, <1>5, <2>1 DEF Unread
  <2>3. In(id, f0)' = In(id, f0) + 0
    BY <1>6, <1>7, <2>2 DEF In
  <2> QED BY <1>3, <1>4, <2>1, <2>3
<1>9. CASE ~Begun(id, p)
  <2>1. ~Got(id, f0) /\ ~Taken(id, p) /\ snapshotId[p] # id
    BY <1>4, <1>5, <1>9, Places DEF Got
  <2> PICK d : d = CreditsIn(channelState[p][q])
    OBVIOUS
  <2>2. d \in Nat
    BY <1>4, LoadTypes
  <2>3. unread = n + d
    BY <1>4, <2>1 DEF Unread
  <2>4. Unread(id, f0)' = (n + c) + d
    BY <1>1, <1>2, <1>4, <1>5, <2>1 DEF Unread
  <2>5. In(id, f0)' = In(id, f0) + c
    <3>1. In(id, f0)' = kept + ((n + c) + d)
      BY <1>7, <2>4 DEF In
    <3> QED BY <1>2, <1>6, <2>2, <2>3, <3>1
  <2> QED BY <1>3, <1>4, <2>1, <2>5
<1> QED BY <1>8, <1>9

(* The marker that closes a channel: nothing was ahead of it any more.     *)
LEMMA ReceiveMarkerWorth ==
    ASSUME IndInv, FlowInv, NEW p \in Node, NEW q \in Node,
           ReceiveMarker(p, q), NEW id \in SnapshotId \ aborted, Fit(id)'
    PROVE  Fit(id) /\ Steady(id)
<1> USE IndParts
<1> PICK f0 : f0 = <<q, p>>
  OBVIOUS
<1>0. PICK own \in SnapshotId : /\ own = snapshotId[p] /\ Begun(own, p)
                                /\ Arriving(q, p) = Marker(own)
                                /\ HasHead(q, p) /\ f0 \in Channel
  <2>1. Arriving(q, p) = Marker(snapshotId[p]) /\ HasHead(q, p)
    BY DEF ReceiveMarker
  <2>2. /\ Arriving(q, p).type = "marker"
        /\ Arriving(q, p).id = snapshotId[p]
    BY <2>1 DEF Marker
  <2>3. snapshotId[p] \in SnapshotId /\ f0 \in Channel
    BY <2>1, <2>2, ArrivingMarker
  <2> QED BY <2>1, <2>3, NoIdAssumption DEF BegunInv, Snapshotting
<1> DEFINE recv == [recordedRecv[p] EXCEPT ![q] = recvSeq[f0] + 1]
           Closes == /\ recording' = [recording EXCEPT ![p] = @ \ {q}]
                     /\ UNCHANGED <<snapshotId, channelState, inbox, artifact>>
           Ends == /\ recording[p] = {q}
                   /\ End(p, "complete", recordedSend[p], recv, channelState[p])
<1>1. /\ phase[p] = "running" /\ q \in recording[p] /\ Consume(p, q)
      /\ Closes \/ Ends
      /\ UNCHANGED <<counter, outbox, phase, image, dead, begins>>
      /\ f0[1] = q /\ f0[2] = p
  BY DEF ReceiveMarker, Running
<1>2. /\ wire[f0] \in Seq(Message)
      /\ Arriving(q, p) # Marker(id) =>
             /\ Has(id, wire'[f0]) <=> Has(id, wire[f0])
             /\ Ahead(id, wire[f0])
                = IsCredit(Arriving(q, p)) + Ahead(id, wire'[f0])
             /\ Ahead(id, wire'[f0]) \in Nat
      /\ Arriving(q, p) = Marker(id) =>
             Has(id, wire[f0]) /\ Ahead(id, wire[f0]) = 0
      /\ \A g \in Channel : g # f0 => wire'[g] = wire[g]
  BY <1>0, <1>1, ConsumeAhead
<1>3. ASSUME Ends
      PROVE  /\ \A x \in SnapshotId, r \in Node \ {p} : NodeSame(x, r)
             /\ \A x \in SnapshotId : x # own =>
                    artifact'[<<x, p>>] = artifact[<<x, p>>]
             /\ FlushEffect(p) /\ StoresWithheld(p)
  BY <1>0, <1>1, <1>3, EndElsewhere
<1>4. Elsewhere(p)
  <2>1. \A x \in SnapshotId, r \in Node \ {p} : NodeSame(x, r)
    <3>1. CASE Closes
      BY <1>1, <3>1 DEF NodeSame, ControllersOK
    <3>2. CASE Ends
      BY <1>3, <3>2
    <3> QED BY <1>1, <3>1, <3>2
  <2>2. \A f \in Channel : f[2] # p => f # f0
    OBVIOUS
  <2> QED BY <1>1, <1>2, <2>1, <2>2 DEF Elsewhere
<1> HIDE DEF recv
<1>5. FitNode(id, p)'
  BY DEF Fit
(* What p has of its channels.                                             *)
<1>6. /\ \A f \in Channel : f[2] = p =>
             /\ In(id, f)' = In(id, f)
             /\ id = own /\ f = f0 => Got(id, f)'
             /\ id # own \/ f # f0 => (Got(id, f)' <=> Got(id, f))
      /\ Value(id, p)' = Value(id, p)
      /\ Sent(id, p) => Sent(id, p)'
      /\ FitNode(id, p)
  <2>1. CASE Closes
    <3>1. \A r \in Node : r \in recording'[p] <=> r \in recording[p] /\ r # q
      BY <2>1 DEF ControllersOK
    <3>2. ASSUME NEW f \in Channel, f[2] = p
          PROVE  /\ In(id, f)' = In(id, f)
                 /\ id = own /\ f = f0 => Got(id, f)'
                 /\ id # own \/ f # f0 => (Got(id, f)' <=> Got(id, f))
      <4>1. Kept(id, f)' = Kept(id, f) /\ Unread(id, f)' = Unread(id, f)
        BY <1>1, <2>1 DEF Kept, Unread, Taken
      <4>2. f[1] \in Node /\ f = <<f[1], p>>
        BY <3>2, ChannelPair
      <4> QED BY <1>0, <1>1, <2>1, <3>1, <3>2, <4>1, <4>2 DEF In, Got, Begun
    <3>3. Value(id, p)' = Value(id, p) /\ (Sent(id, p) => Sent(id, p)')
          /\ FitNode(id, p)
      BY <1>1, <1>5, <2>1 DEF Value, Taken, Sent, Begun, FitNode
    <3> QED BY <3>2, <3>3
  <2>2. CASE Ends /\ id # own
    <3>1. begins'[<<id, p>>] = begins[<<id, p>>]
      BY <1>1
    <3> QED BY <1>0, <1>1, <1>3, <1>5, <2>2, <3>1, FlushOther
  <2>3. CASE Ends /\ id = own
    <3>1. /\ \A f \in Channel : f[2] = p =>
                 In(id, f)' = In(id, f) /\ Got(id, f)'
          /\ Taken(id, p) /\ Begun(id, p) /\ Sent(id, p)'
      BY <1>0, <1>1, <1>3, <1>5, <2>3, FlushOwn
    <3>2. ASSUME NEW f \in Channel, f[2] = p, f # f0 PROVE Got(id, f)
      <4>1. f[1] # q
        BY <3>2, ChannelPair
      <4> QED BY <1>0, <1>1, <2>3, <3>1, <3>2, <4>1 DEF Got
    <3>3. Value(id, p)' = Value(id, p) /\ FitNode(id, p)
      BY <1>0, <1>1, <2>3, <3>1 DEF Value, Taken, FitNode, Sent
    <3> QED BY <2>3, <3>1, <3>2, <3>3
  <2> QED BY <1>1, <2>1, <2>2, <2>3
<1>7. Fit(id)
  <2>1. ASSUME NEW f \in Channel, FitChannel(id, f)', f[1] = p
        PROVE  FitChannel(id, f)
    <3>1. f[2] \in Node \ {p} /\ f # f0
      BY <1>1, <2>1, ChannelPair
    <3>2. (Got(id, f)' <=> Got(id, f)) /\ wire'[f] = wire[f]
      BY <1>2, <1>4, <3>1, SameNode DEF Elsewhere
    <3> QED BY <1>6, <2>1, <3>2 DEF FitChannel
  <2>2. ASSUME NEW f \in Channel, FitChannel(id, f)', f[2] = p
        PROVE  FitChannel(id, f)
    <3>1. f[1] \in Node \ {p}
      BY <2>2, ChannelPair
    <3>2. Sent(id, f[1])' <=> Sent(id, f[1])
      BY <1>4, <3>1, SameNode DEF Elsewhere
    <3>3. CASE id = own /\ f = f0
      BY <1>0, <1>2, <3>3 DEF FitChannel
    <3>4. CASE id # own \/ f # f0
      <4>1. Has(id, wire'[f]) => Has(id, wire[f])
        BY <1>0, <1>2, <3>4 DEF Marker
      <4> QED BY <1>6, <2>2, <3>2, <3>4, <4>1 DEF FitChannel
    <3> QED BY <3>3, <3>4
  <2> QED BY <1>4, <1>6, <2>1, <2>2, FitAt
<1>8. ASSUME NEW f \in Channel, f[1] = p PROVE Out(id, f)' = Out(id, f)
  <2>1. f[2] \in Node \ {p} /\ f # f0
    BY <1>1, <1>8, ChannelPair
  <2>2. (Got(id, f)' <=> Got(id, f)) /\ wire'[f] = wire[f]
    BY <1>2, <1>4, <2>1, SameNode DEF Elsewhere
  <2>3. Transit(id, f)' = Transit(id, f)
    BY <2>2 DEF Transit
  <2>4. Unsent(id, f)' = Unsent(id, f)
    BY <1>1 DEF Unsent, Taken
  <2> QED BY <2>3, <2>4 DEF Out
<1>9. ASSUME NEW f \in Channel, f[2] = p PROVE Passes(id, f)
  <2>1. Transit(id, f)' = Transit(id, f)
    <3>1. CASE f # f0
      BY <1>2, <1>6, <1>9, <3>1 DEF Transit
    <3>2. CASE f = f0 /\ id = own
      BY <1>0, <1>2, <1>6, <1>9, <3>2 DEF Transit
    <3>3. CASE f = f0 /\ id # own
      <4>1. IsCredit(Arriving(q, p)) = 0 /\ Arriving(q, p) # Marker(id)
        BY <1>0, <3>3 DEF IsCredit, Marker
      <4>2. Ahead(id, wire[f0]) = Ahead(id, wire'[f0])
        BY <1>2, <4>1
      <4> QED BY <1>6, <1>9, <3>3, <4>2 DEF Transit
    <3> QED BY <3>1, <3>2, <3>3
  <2> QED BY <1>6, <1>9, <2>1, PassesSame
<1> QED BY <1>4, <1>6, <1>7, <1>8, <1>9, SteadyAt

-----------------------------------------------------------------------------
(* The markers go out, after everything sent before the image.             *)

LEMMA MarkersOut ==
    ASSUME NEW id, NEW own \in SnapshotId, NEW f \in Channel, ChannelsOK,
           MarkerFirst(own, f), ~Has(id, wire[f])
    PROVE  /\ id = own => Ahead(id, wire'[f]) = Credits(wire[f])
           /\ id # own => ~Has(id, wire'[f])
<1> PICK t \in Seq(Message) :
        /\ wire'[f] = wire[f] \o t /\ Len(t) \in Nat \ {0}
        /\ t[1] = Marker(own)
        /\ \A i \in DOMAIN t : i # 1 => t[i].type # "marker"
  BY DEF MarkerFirst
<1> PICK w : w = wire[f]
  OBVIOUS
<1>1. w \in Seq(Message) /\ t # << >> /\ ~Has(id, w) /\ wire'[f] = w \o t
  BY DEF ChannelsOK
<1>2. CASE id = own
  BY <1>1, <1>2, AheadMark
<1>3. CASE id # own
  <2>1. ~Has(id, t)
    BY <1>3 DEF Has, Marker
  <2> QED BY <1>1, <1>3, <2>1, HasConcat
<1> QED BY <1>2, <1>3

LEMMA ResumeWorth ==
    ASSUME IndInv, FlowInv, NEW p \in Node, Resume(p),
           NEW id \in SnapshotId \ aborted, Fit(id)'
    PROVE  Fit(id) /\ Steady(id)
<1> USE IndParts
<1>0. PICK own \in SnapshotId : own = snapshotId[p] /\ Begun(own, p)
  BY DEF Resume, BlockedInv, Blocked, Snapshotting, ControllersOK, BegunInv
<1> DEFINE back == <<origin[p], p>>
           Continues == UNCHANGED <<snapshotId, recording, channelState, inbox,
                                    artifact>>
           Ends == /\ recording[p] = {}
                   /\ End(p, "complete", SendCut(p), OriginCut(p),
                          NothingRecorded)
<1>1. /\ p \notin dead /\ phase[p] = "imaged" /\ Broadcast(p)
      /\ phase' = [phase EXCEPT ![p] = "running"]
      /\ Continues \/ Ends
      /\ UNCHANGED <<counter, image, dead, begins>>
      /\ channelState[p] = NothingRecorded
  BY DEF Resume, Alive, FlowInv, EmptyAt
<1>2. /\ recording[p] = Node \ {p, origin[p]} /\ origin[p] # p
      /\ \A f \in Channel : f = back => /\ wire[f] # << >>
                                        /\ Head(wire[f]) = Marker(own)
                                        /\ wire[f] \in Seq(Message)
  <2>1. phase[p] # "running"
    BY <1>1
  <2>2. /\ recording[p] = Node \ {p, origin[p]} /\ origin[p] # p
        /\ origin[p] # Operator =>
               wire[back] # << >> /\ Head(wire[back]) = Marker(own)
    BY <1>0, <2>1, OperatorAssumption, ChannelPair
       DEF HandlerInv, BlockedInv, Blocked
  <2>3. \A f \in Channel : f = back => origin[p] # Operator
    BY ChannelPair, OperatorAssumption
  <2> QED BY <2>2, <2>3 DEF ChannelsOK
<1>3. /\ phase'[p] = "running"
      /\ \A r \in Node \ {p} : phase'[r] = phase[r]
  BY <1>1 DEF ControllersOK
<1>4. ASSUME Ends
      PROVE  /\ \A x \in SnapshotId, r \in Node \ {p} : NodeSame(x, r)
             /\ \A x \in SnapshotId : x # own =>
                    artifact'[<<x, p>>] = artifact[<<x, p>>]
             /\ FlushEffect(p) /\ StoresWithheld(p)
  BY <1>0, <1>1, <1>3, <1>4, EndElsewhere
<1>5. ASSUME NEW f \in Channel, f[1] # p
      PROVE  /\ outbox'[f] = outbox[f]
             /\ f = back => wire'[f] = Tail(wire[f])
             /\ f # back => wire'[f] = wire[f]
  BY <1>1, <1>5 DEF Broadcast
<1>6. Elsewhere(p)
  <2>1. \A x \in SnapshotId, r \in Node \ {p} : NodeSame(x, r)
    <3>1. CASE Continues
      BY <1>1, <1>3, <3>1 DEF NodeSame
    <3>2. CASE Ends
      BY <1>4, <3>2
    <3> QED BY <1>1, <3>1, <3>2
  <2>2. \A f \in Channel : f[2] # p => f # back
    OBVIOUS
  <2> QED BY <1>1, <1>5, <2>1, <2>2 DEF Elsewhere
<1>7. FitNode(id, p)'
  BY DEF Fit
(* What p has of its channels.                                             *)
<1>8. /\ \A f \in Channel : f[2] = p =>
             /\ In(id, f)' = In(id, f)
             /\ id = own /\ f = back => Got(id, f)'
             /\ id # own \/ f # back => (Got(id, f)' <=> Got(id, f))
      /\ FitNode(id, p)
      /\ id # own => (Sent(id, p)' <=> Sent(id, p))
      /\ id = own => Taken(id, p)
  <2>1. CASE Continues
    <3>1. ASSUME NEW f \in Channel, f[2] = p
          PROVE  /\ In(id, f)' = In(id, f)
                 /\ id = own /\ f = back => Got(id, f)'
                 /\ id # own \/ f # back => (Got(id, f)' <=> Got(id, f))
      <4>1. Kept(id, f)' = Kept(id, f) /\ Unread(id, f)' = Unread(id, f)
        BY <1>1, <2>1 DEF Kept, Unread, Taken
      <4>2. f[1] \in Node \ {p} /\ f = <<f[1], p>>
        BY <3>1, ChannelPair
      <4>3. f[1] \in recording[p] <=> f # back
        BY <1>2, <4>2
      <4> QED BY <1>0, <1>1, <1>3, <2>1, <3>1, <4>1, <4>2, <4>3
              DEF In, Got, Begun
    <3>2. /\ FitNode(id, p)
          /\ id # own => (Sent(id, p)' <=> Sent(id, p))
          /\ id = own => Taken(id, p)
      BY <1>0, <1>1, <1>3, <1>7, <2>1 DEF Taken, Sent, Begun, FitNode
    <3> QED BY <3>1, <3>2
  <2>2. CASE Ends /\ id # own
    BY <1>0, <1>1, <1>4, <1>7, <2>2, FlushOther
  <2>3. CASE Ends /\ id = own
    <3>1. /\ \A f \in Channel : f[2] = p =>
                 In(id, f)' = In(id, f) /\ Got(id, f)'
          /\ Taken(id, p)
      BY <1>0, <1>1, <1>4, <1>7, <2>3, FlushOwn
    <3>2. ASSUME NEW f \in Channel, f[2] = p PROVE f = back
      <4>1. f[1] \in Node \ {p} /\ f = <<f[1], p>>
        BY <3>2, ChannelPair
      <4> QED BY <1>2, <2>3, <4>1
    <3>3. FitNode(id, p)
      BY <1>0, <1>1, <2>3, <3>1 DEF FitNode
    <3> QED BY <2>3, <3>1, <3>2, <3>3
  <2> QED BY <1>1, <2>1, <2>2, <2>3
<1>9. ASSUME NEW f \in Channel, f[1] = p
      PROVE  /\ MarkerFirst(own, f) /\ (Got(id, f)' <=> Got(id, f))
             /\ wire[f] \in Seq(Message) /\ f[2] \in Node \ {p}
  <2>1. f[2] \in Node \ {p}
    BY <1>9, ChannelPair
  <2>2. MarkerFirst(own, f)
    BY <1>0, <1>1, <1>2, <1>9, BroadcastOut
  <2> QED BY <1>6, <2>1, <2>2, SameNode DEF Elsewhere, ChannelsOK
<1>10. id = own => ~Sent(id, p)
  BY <1>0, <1>1 DEF Sent
<1>11. ASSUME NEW f \in Channel, FitChannel(id, f)', f[1] = p
       PROVE  FitChannel(id, f)
  <2>1. CASE id = own
    BY <1>10, <1>11, <2>1 DEF FitChannel
  <2>2. CASE id # own
    <3>1. ~Has(id, wire[f]) => ~Has(id, wire'[f])
      BY <1>9, <1>11, <2>2, MarkersOut
    <3> QED BY <1>8, <1>9, <1>11, <2>2, <3>1 DEF FitChannel
  <2> QED BY <2>1, <2>2
<1>12. ASSUME NEW f \in Channel, FitChannel(id, f)', f[2] = p
       PROVE  FitChannel(id, f)
  <2>1. f[1] \in Node \ {p}
    BY <1>12, ChannelPair
  <2>2. Sent(id, f[1])' <=> Sent(id, f[1])
    BY <1>6, <2>1, SameNode DEF Elsewhere
  <2>3. CASE id = own /\ f = back
    <3>1. Has(id, wire[f])
      <4> PICK w : w = wire[f]
        OBVIOUS
      <4>1. w \in Seq(Message) /\ w # << >> /\ Head(w) = Marker(id)
        BY <1>2, <2>3
      <4>2. w[1] = Marker(id) /\ 1 \in DOMAIN w
        BY <4>1, HeadIsFirst
      <4> QED BY <4>2 DEF Has
    <3> QED BY <3>1 DEF FitChannel
  <2>4. CASE id # own \/ f # back
    <3>1. Has(id, wire'[f]) => Has(id, wire[f])
      BY <1>2, <1>5, <2>1, HasTail
    <3> QED BY <1>8, <1>12, <2>2, <2>4, <3>1 DEF FitChannel
  <2> QED BY <2>3, <2>4
<1>13. Fit(id)
  BY <1>6, <1>8, <1>11, <1>12, FitAt
<1>14. ASSUME NEW f \in Channel, f[1] = p PROVE Out(id, f)' = Out(id, f)
  <2>1. CASE Taken(id, p)
    <3>1. Unsent(id, f)' = Unsent(id, f)
      BY <1>1, <1>14, <2>1 DEF Unsent, Taken
    <3>2. Transit(id, f)' = Transit(id, f)
      <4>1. CASE id = own
        <5>1. ~Has(id, wire[f]) /\ ~Got(id, f)
          BY <1>10, <1>14, <4>1, Places
        <5>2. /\ Ahead(id, wire'[f]) = Credits(wire[f])
              /\ Ahead(id, wire[f]) = Credits(wire[f])
          BY <1>9, <1>14, <4>1, <5>1, MarkersOut, AheadAbsent
        <5> QED BY <1>9, <1>14, <5>1, <5>2 DEF Transit
      <4>2. CASE id # own
        <5>1. Sent(id, p)
          BY <1>0, <2>1, <4>2, Places DEF Sent
        <5>2. Got(id, f) \/ Has(id, wire[f])
          BY <1>13, <1>14, <5>1 DEF Fit, FitChannel
        <5>3. PICK t \in Seq(Message) : wire'[f] = wire[f] \o t
          BY <1>9, <1>14 DEF MarkerFirst
        <5>4. Has(id, wire[f]) => Ahead(id, wire'[f]) = Ahead(id, wire[f])
          BY <1>9, <1>14, <5>3, AheadGrows
        <5> QED BY <1>9, <1>14, <5>2, <5>4 DEF Transit
      <4> QED BY <4>1, <4>2
    <3> QED BY <3>1, <3>2 DEF Out
  <2>2. CASE ~Taken(id, p)
    <3>1. id # own /\ ~Begun(id, p)
      BY <1>0, <1>1, <1>8, <2>2 DEF FitNode
    <3>2. ~Has(id, wire[f]) /\ ~Got(id, f)
      BY <1>14, <3>1, Places DEF Sent
    <3>3. ~Has(id, wire'[f]) /\ wire'[f] \in Seq(Message)
      <4>1. PICK t \in Seq(Message) : wire'[f] = wire[f] \o t
        BY <1>9, <1>14 DEF MarkerFirst
      <4>2. ~Has(id, wire'[f])
        BY <1>9, <1>14, <3>1, <3>2, MarkersOut
      <4> PICK w : w = wire[f]
        OBVIOUS
      <4>3. w \o t \in Seq(Message)
        <5>1. w \in Seq(Message)
          BY <1>9, <1>14
        <5> QED BY <5>1, SeqTypes
      <4> QED BY <4>1, <4>2, <4>3
    <3>4. /\ Ahead(id, wire[f]) = Credits(wire[f])
          /\ Ahead(id, wire'[f]) = Credits(wire'[f])
      BY <1>9, <1>14, <3>2, <3>3, AheadAbsent
    <3>5. Out(id, f) = Flight(f)
      BY <1>14, <2>2, <3>2, <3>4 DEF Out, Unsent, Transit, Flight
    <3>6. Out(id, f)' = Flight(f)'
      BY <1>1, <1>9, <1>14, <2>2, <3>2, <3>4
         DEF Out, Unsent, Transit, Flight, Taken
    <3>7. Flight(f)' = Flight(f)
      BY <1>1, BroadcastFlight
    <3> QED BY <3>5, <3>6, <3>7
  <2> QED BY <2>1, <2>2
<1>15. ASSUME NEW f \in Channel, f[2] = p PROVE Passes(id, f)
  <2>1. f[1] # p
    BY <1>15, ChannelPair
  <2>2. Transit(id, f)' = Transit(id, f)
    <3>1. CASE f # back
      BY <1>5, <1>8, <1>15, <2>1, <3>1 DEF Transit
    <3>2. CASE f = back /\ id = own
      <4>1. Ahead(id, wire[f]) = 0
        BY <1>2, <3>2, AheadHead
      <4> QED BY <1>8, <1>15, <3>2, <4>1 DEF Transit
    <3>3. CASE f = back /\ id # own
      <4> PICK w : w = wire[f]
        OBVIOUS
      <4>1. /\ w \in Seq(Message) /\ w # << >> /\ wire'[f] = Tail(w)
            /\ Head(w) # Marker(id) /\ IsCredit(Head(w)) = 0
        BY <1>2, <1>5, <2>1, <3>3 DEF Marker, IsCredit
      <4>2. /\ Ahead(id, w) = IsCredit(Head(w)) + Ahead(id, Tail(w))
            /\ Ahead(id, Tail(w)) \in Nat
        BY <4>1, AheadTail, AheadType, SeqTypes
      <4>3. Ahead(id, w) = Ahead(id, Tail(w))
        BY <4>1, <4>2
      <4> QED BY <1>8, <1>15, <3>3, <4>1, <4>3 DEF Transit
    <3> QED BY <3>1, <3>2, <3>3
  <2> QED BY <1>8, <1>15, <2>2, PassesSame
<1>16. Value(id, p)' = Value(id, p)
  BY <1>1 DEF Value, Taken
<1> QED BY <1>6, <1>13, <1>14, <1>15, <1>16, SteadyAt

-----------------------------------------------------------------------------
(* A server that dies before its markers are sent can complete no snapshot,*)
(* and of a channel whose marker survives so does all that is ahead of it. *)
LEMMA DieWorth ==
    ASSUME IndInv, NEW p \in Node, Die(p),
           NEW id \in SnapshotId \ aborted, Fit(id)'
    PROVE  Fit(id) /\ Steady(id)
<1> USE IndParts
<1>1. PICK keep \in [Node \ {p} -> UNION {Survives(p, q) : q \in Node \ {p}}] :
          /\ \A q \in Node \ {p} : keep[q] \in Survives(p, q)
          /\ wire' = [f \in Channel |->
                 IF f[1] = p THEN SubSeq(wire[f], 1, keep[f[2]]) ELSE wire[f]]
  BY DEF Die
<1>2. UNCHANGED <<counter, inbox, outbox, snapshotId, phase, recording,
                  channelState, image, artifact, begins>>
      /\ dead' = dead \cup {p}
  BY DEF Die, apps, controllers, stores
<1>3. ASSUME NEW f \in Channel, f[1] = p
      PROVE  /\ wire[f] \in Seq(Message)
             /\ \E k \in Int : /\ k <= Len(wire[f])
                               /\ wire'[f] = SubSeq(wire[f], 1, k)
  <2>1. f[2] \in Node \ {p} /\ f = <<p, f[2]>> /\ wire[f] \in Seq(Message)
    BY <1>3, ChannelPair DEF ChannelsOK
  <2>2. keep[f[2]] \in Arrived(p, f[2]) .. Len(wire[f])
    BY <1>1, <2>1 DEF Survives
  <2>3. Arrived(p, f[2]) \in 0 .. 1 /\ Len(wire[f]) \in Nat
    BY <2>1, LenProperties DEF Arrived
  <2>4. wire'[f] = SubSeq(wire[f], 1, keep[f[2]])
    BY <1>1, <1>3
  <2> QED BY <2>1, <2>2, <2>3, <2>4
<1>4. /\ \A r \in Node : NodeSame(id, r)
      /\ \A x \in SnapshotId, r \in Node : NodeSame(x, r)
  BY <1>2 DEF NodeSame
<1>5. Elsewhere(p)
  BY <1>1, <1>2, <1>4 DEF Elsewhere
<1>6. /\ \A f \in Channel : /\ Got(id, f)' <=> Got(id, f)
                            /\ In(id, f)' = In(id, f)
                            /\ Unsent(id, f)' = Unsent(id, f)
                            /\ Sent(id, f[1])' <=> Sent(id, f[1])
      /\ Value(id, p)' = Value(id, p)
  BY <1>2, <1>4, ChannelPair, SameNode
<1>7. Sent(id, p) /\ FitNode(id, p)
  <2>1. FitNode(id, p)' /\ p \in dead'
    BY <1>2 DEF Fit
  <2>2. Sent(id, p)'
    BY <2>1 DEF FitNode
  <2> QED BY <1>2, <2>1, <2>2 DEF FitNode, Sent, Begun, Taken
<1>8. ASSUME NEW f \in Channel, f[1] = p
      PROVE  /\ FitChannel(id, f)
             /\ Transit(id, f)' = Transit(id, f)
  <2>1. PICK k \in Int : /\ k <= Len(wire[f])
                         /\ wire'[f] = SubSeq(wire[f], 1, k)
    BY <1>3, <1>8
  <2>2. FitChannel(id, f)'
    BY DEF Fit
  <2>3. Got(id, f) \/ Has(id, wire'[f])
    BY <1>6, <1>7, <1>8, <2>2 DEF FitChannel
  <2> PICK w : w = wire[f]
    OBVIOUS
  <2>4. /\ w \in Seq(Message) /\ k <= Len(w)
        /\ wire'[f] = SubSeq(w, 1, k)
    BY <1>3, <1>8, <2>1
  <2>5. Has(id, SubSeq(w, 1, k)) => Ahead(id, SubSeq(w, 1, k)) = Ahead(id, w)
    BY <2>4, AheadPrefix
  <2>6. Has(id, SubSeq(w, 1, k)) => Has(id, w)
    <3> SUFFICES ASSUME Has(id, SubSeq(w, 1, k)) PROVE Has(id, w)
      OBVIOUS
    <3>1. PICK i \in DOMAIN SubSeq(w, 1, k) : SubSeq(w, 1, k)[i] = Marker(id)
      BY DEF Has
    <3>2. /\ DOMAIN SubSeq(w, 1, k) \subseteq 1 .. k
          /\ \A j \in DOMAIN SubSeq(w, 1, k) : SubSeq(w, 1, k)[j] = w[j]
      BY <2>4
    <3>3. i \in DOMAIN w
      BY <2>4, <3>1, <3>2, LenProperties
    <3> QED BY <3>1, <3>2, <3>3 DEF Has
  <2>7. Transit(id, f)' = Transit(id, f)
    BY <1>6, <2>3, <2>4, <2>5 DEF Transit
  <2> QED BY <2>3, <2>4, <2>6, <2>7 DEF FitChannel
<1>9. ASSUME NEW f \in Channel, f[2] = p
      PROVE  /\ FitChannel(id, f)' => FitChannel(id, f)
             /\ Transit(id, f)' = Transit(id, f)
  <2>1. wire'[f] = wire[f]
    BY <1>1, <1>9, ChannelPair
  <2> QED BY <1>6, <2>1 DEF FitChannel, Transit
<1>10. Fit(id)
  BY <1>5, <1>7, <1>8, <1>9, FitAt
<1>11. \A f \in Channel : f[1] = p => Out(id, f)' = Out(id, f)
  BY <1>6, <1>8 DEF Out
<1>12. \A f \in Channel : f[2] = p => Passes(id, f)
  BY <1>6, <1>9, PassesSame
<1> QED BY <1>5, <1>6, <1>10, <1>11, <1>12, SteadyAt

-----------------------------------------------------------------------------
(* The two steps of the applications move one credit between a counter and *)
(* a channel, unless it is past the image of the server.                   *)

Trades(id, p, f, d) ==
    /\ Value(id, p)' = Value(id, p) - d
    /\ \A r \in Node \ {p} : Value(id, r)' = Value(id, r)
    /\ Held(id, f)' = Held(id, f) + d
    /\ \A g \in Channel \ {f} : Held(id, g)' = Held(id, g)

Traded(id) == \E p \in Node, f \in Channel, d \in {-1, 1} : Trades(id, p, f, d)

LEMMA SteadyFit ==
    ASSUME UNCHANGED <<wire, snapshotId, phase, recording, channelState, image,
                       artifact, begins, dead>>, NEW id
    PROVE  /\ Fit(id)' <=> Fit(id)
           /\ \A p \in Node : Taken(id, p)' <=> Taken(id, p)
           /\ \A f \in Channel : Transit(id, f)' = Transit(id, f)
           /\ \A f \in Channel : Kept(id, f)' = Kept(id, f)
<1>1. ASSUME NEW p \in Node
      PROVE  /\ Sent(id, p)' <=> Sent(id, p)
             /\ Taken(id, p)' <=> Taken(id, p)
             /\ FitNode(id, p)' <=> FitNode(id, p)
  BY DEF Sent, Begun, Taken, FitNode
<1>2. ASSUME NEW f \in Channel
      PROVE  /\ Got(id, f)' <=> Got(id, f)
             /\ Transit(id, f)' = Transit(id, f)
             /\ Kept(id, f)' = Kept(id, f)
             /\ FitChannel(id, f)' <=> FitChannel(id, f)
  <2>1. Got(id, f)' <=> Got(id, f)
    BY DEF Got, Begun
  <2>2. Sent(id, f[1])' <=> Sent(id, f[1])
    BY <1>1, ChannelPair
  <2> QED BY <2>1, <2>2 DEF Transit, Kept, FitChannel
<1>3. Fit(id)' <=> Fit(id)
  BY <1>1, <1>2 DEF Fit
<1> QED BY <1>1, <1>2, <1>3

LEMMA TransferWorth ==
    ASSUME IndInv, NEW p \in Node, NEW q \in Node, Transfer(p, q),
           NEW id \in SnapshotId \ aborted, Fit(id)'
    PROVE  Fit(id) /\ (Steady(id) \/ Traded(id))
<1> USE IndParts
<1> PICK f0 : f0 = <<p, q>>
  OBVIOUS
<1>1. /\ UNCHANGED <<wire, inbox, snapshotId, phase, recording, channelState,
                     image, artifact, begins, dead>>
      /\ f0 \in Channel /\ f0[1] = p
      /\ counter'[p] = counter[p] - 1 /\ counter[p] \in Int
      /\ \A r \in Node \ {p} : counter'[r] = counter[r]
      /\ outbox' = [outbox EXCEPT ![f0] = Append(@, Credit)]
  BY DEF Transfer, channels, controllers, stores, AppsOK
<1>2. /\ Fit(id)
      /\ \A r \in Node : Taken(id, r)' <=> Taken(id, r)
      /\ \A f \in Channel : Transit(id, f)' = Transit(id, f)
      /\ \A f \in Channel : Kept(id, f)' = Kept(id, f)
  BY <1>1, SteadyFit
<1>3. /\ Credits(outbox'[f0]) = Credits(outbox[f0]) + 1
      /\ \A g \in Channel \ {f0} : outbox'[g] = outbox[g]
  BY <1>1, OutboxGrows, MessageTypes, CreditsNone
<1>4. \A f \in Channel : In(id, f)' = In(id, f)
  <2> SUFFICES ASSUME NEW f \in Channel PROVE In(id, f)' = In(id, f)
    OBVIOUS
  <2>1. Unread(id, f)' = Unread(id, f)
    BY <1>1 DEF Unread, Taken
  <2> QED BY <1>2, <2>1 DEF In
<1>5. ASSUME NEW f \in Channel, f # f0 \/ Taken(id, p)
      PROVE  Held(id, f)' = Held(id, f)
  <2>1. Unsent(id, f)' = Unsent(id, f)
    BY <1>1, <1>3, <1>5 DEF Unsent, Taken
  <2> QED BY <1>2, <1>4, <2>1 DEF Held, Out
<1>6. ASSUME NEW r \in Node, r # p \/ Taken(id, p)
      PROVE  Value(id, r)' = Value(id, r)
  BY <1>1, <1>6 DEF Value, Taken
<1>7. CASE Taken(id, p)
  BY <1>2, <1>5, <1>6, <1>7 DEF Steady
<1>8. CASE ~Taken(id, p)
  <2>1. Value(id, p)' = Value(id, p) - 1
    BY <1>1, <1>8 DEF Value, Taken
  <2>2. Held(id, f0)' = Held(id, f0) + 1
    <3> PICK a, b, c : /\ a = Credits(outbox[f0]) /\ b = Transit(id, f0)
                       /\ c = In(id, f0)
      OBVIOUS
    <3>1. a \in Nat /\ b \in Nat /\ c \in Nat
      BY <1>1, HeldTypes, LoadTypes
    <3>2. Held(id, f0) = (a + b) + c
      BY <1>1, <1>8 DEF Held, Out, Unsent
    <3>3. Held(id, f0)' = ((a + 1) + b) + c
      BY <1>1, <1>2, <1>3, <1>4, <1>8 DEF Held, Out, Unsent, Taken
    <3> QED BY <3>1, <3>2, <3>3
  <2>3. Trades(id, p, f0, 1)
    BY <1>5, <1>6, <2>1, <2>2 DEF Trades
  <2> QED BY <1>1, <1>2, <2>3 DEF Traded
<1> QED BY <1>7, <1>8

LEMMA ReadCreditWorth ==
    ASSUME IndInv, FlowInv, NEW p \in Node, NEW q \in Node, ReadCredit(p, q),
           NEW id \in SnapshotId \ aborted, Fit(id)'
    PROVE  Fit(id) /\ (Steady(id) \/ Traded(id))
<1> USE IndParts
<1> PICK f0, back : f0 = <<q, p>> /\ back = <<p, q>>
  OBVIOUS
<1>1. /\ UNCHANGED <<wire, snapshotId, phase, recording, channelState,
                     image, artifact, begins, dead>>
      /\ counter'[p] = counter[p] + 1 /\ counter[p] \in Int
      /\ \A r \in Node \ {p} : counter'[r] = counter[r]
      /\ inbox[p][q] > 0 /\ inbox'[p][q] = inbox[p][q] - 1
      /\ \A r, s \in Node : <<s, r>> # f0 => inbox'[r][s] = inbox[r][s]
      /\ outbox' = [outbox EXCEPT ![back] = Append(@, Reply)]
  BY DEF ReadCredit, channels, controllers, stores, bookkeeping, AppsOK
<1>2. f0 \in Channel /\ back \in Channel /\ f0[1] = q /\ f0[2] = p
  <2>1. inbox[p][p] = 0
    BY DEF FlowInv, EmptyAt
  <2>2. p # q
    BY <1>1, <2>1
  <2> QED BY <2>2, ChannelPair
<1>3. /\ Fit(id)
      /\ \A r \in Node : Taken(id, r)' <=> Taken(id, r)
      /\ \A f \in Channel : Transit(id, f)' = Transit(id, f)
      /\ \A f \in Channel : Kept(id, f)' = Kept(id, f)
  BY <1>1, SteadyFit
<1>4. \A f \in Channel : Credits(outbox'[f]) = Credits(outbox[f])
  <2>1. /\ Credits(outbox'[back]) = Credits(outbox[back]) + IsCredit(Reply)
        /\ \A g \in Channel \ {back} : outbox'[g] = outbox[g]
    BY <1>1, <1>2, OutboxGrows, MessageTypes
  <2> PICK a, b : a = Credits(outbox[back]) /\ b = Credits(outbox'[back])
    OBVIOUS
  <2>2. a = b
    <3>1. a \in Nat
      BY <1>2, LoadTypes
    <3>2. b = a + 0
      BY <2>1, CreditsNone
    <3> QED BY <3>1, <3>2
  <2>3. ASSUME NEW f \in Channel PROVE Credits(outbox'[f]) = Credits(outbox[f])
    <3>1. CASE f = back
      BY <2>2, <3>1
    <3>2. CASE f # back
      BY <2>1, <3>2
    <3> QED BY <3>1, <3>2
  <2> QED BY <2>3
<1>5. \A f \in Channel : Out(id, f)' = Out(id, f)
  <2> SUFFICES ASSUME NEW f \in Channel PROVE Out(id, f)' = Out(id, f)
    OBVIOUS
  <2>1. Unsent(id, f)' = Unsent(id, f)
    BY <1>1, <1>4 DEF Unsent, Taken
  <2> QED BY <1>3, <2>1 DEF Out
<1>6. ASSUME NEW f \in Channel, f # f0 \/ Taken(id, p)
      PROVE  Held(id, f)' = Held(id, f)
  <2>1. f[1] \in Node /\ f[2] \in Node /\ f = <<f[1], f[2]>>
    BY ChannelPair
  <2>2. CASE Taken(id, f[2])
    BY <1>1, <1>3, <1>5, <2>2 DEF Held, In, Unread, Taken
  <2>3. CASE ~Taken(id, f[2])
    <3>1. inbox'[f[2]][f[1]] = inbox[f[2]][f[1]]
      BY <1>1, <1>2, <1>6, <2>1, <2>3
    <3>2. Unread(id, f)' = Unread(id, f)
      BY <1>1, <3>1 DEF Unread, Taken
    <3> QED BY <1>3, <1>5, <3>2 DEF Held, In
  <2> QED BY <2>2, <2>3
<1>7. ASSUME NEW r \in Node, r # p \/ Taken(id, p)
      PROVE  Value(id, r)' = Value(id, r)
  BY <1>1, <1>7 DEF Value, Taken
<1>8. CASE Taken(id, p)
  BY <1>3, <1>6, <1>7, <1>8 DEF Steady
<1>9. CASE ~Taken(id, p)
  <2>1. Value(id, p)' = Value(id, p) - (-1)
    BY <1>1, <1>9 DEF Value, Taken
  <2>2. Held(id, f0)' = Held(id, f0) + (-1)
    <3> DEFINE w == IF snapshotId[p] = id THEN 0
                    ELSE CreditsIn(channelState[p][q])
    <3> PICK a, b, c, d : /\ a = Out(id, f0) /\ b = Kept(id, f0)
                          /\ c = inbox[p][q] /\ d = w
      OBVIOUS
    <3>1. a \in Nat /\ b \in Nat /\ c \in Nat /\ d \in Nat
      BY <1>2, HeldTypes, LoadTypes
    <3>2. Unread(id, f0) = c + d
      BY <1>2, <1>9 DEF Unread
    <3>3. Unread(id, f0)' = (c - 1) + d
      BY <1>1, <1>2, <1>3, <1>9 DEF Unread
    <3>4. Held(id, f0) = a + (b + (c + d))
      BY <3>2 DEF Held, In
    <3>5. Held(id, f0)' = a + (b + ((c - 1) + d))
      BY <1>2, <1>3, <1>5, <3>3 DEF Held, In
    <3> HIDE DEF w
    <3> QED BY <3>1, <3>4, <3>5
  <2>3. Trades(id, p, f0, -1)
    BY <1>6, <1>7, <2>1, <2>2 DEF Trades
  <2> QED BY <1>2, <1>3, <2>3 DEF Traded
<1> QED BY <1>8, <1>9

-----------------------------------------------------------------------------
(* Every step: a snapshot that is fit after it was fit before it, and its  *)
(* worth is the same.                                                      *)

LEMMA ReceiveWorth ==
    ASSUME IndInv, IndInv', FlowInv, NEW p \in Node, NEW q \in Node,
           Receive(p, q), NEW id \in SnapshotId \ aborted, Fit(id)'
    PROVE  Fit(id) /\ Steady(id)
<1> USE IndParts
<1>1. CASE ReceiveFirstMarker(p, q)
  <2> PICK first : first = Arriving(q, p).id
    OBVIOUS
  <2>1. /\ first \in SnapshotId /\ <<q, p>> \in Channel
        /\ MarkerAt(first, <<q, p>>, 1)
    BY <1>1, ArrivingMarker DEF ReceiveFirstMarker
  <2>2. /\ Begin(p, first, q) /\ phase[p] = "running" /\ ~Snapshotting(p)
        /\ UNCHANGED dead
    BY <1>1 DEF ReceiveFirstMarker, Running
  <2>3. ASSUME first \notin aborted PROVE ~Begun(first, p)
    <3>1. MarkerInv(first, <<q, p>>)
      BY <2>1, <2>3 DEF CutInv, CutOf
    <3>2. ~Got(first, <<q, p>>)
      BY <2>1, <3>1 DEF MarkerInv
    <3> QED BY <2>1, <2>2, <3>2, NoIdAssumption DEF Got, Snapshotting
  <2> QED BY <2>1, <2>2, <2>3, BeginWorth
<1>2. CASE ReceiveMarker(p, q)
  BY <1>2, ReceiveMarkerWorth
<1>3. CASE IgnoreMarker(p, q)
  BY <1>3, IgnoreMarkerWorth
<1>4. CASE Record(p, q)
  BY <1>4, RecordWorth
<1>5. CASE Deliver(p, q)
  BY <1>5, DeliverWorth
<1> QED BY <1>1, <1>2, <1>3, <1>4, <1>5 DEF Receive

LEMMA HandlerWorth ==
    ASSUME IndInv, FlowInv, NEW p \in Node,
           Forward(p) \/ TakeImage(p) \/ CheckpointFails(p) \/ Resume(p)
           \/ Timeout(p),
           aborted \subseteq aborted',
           NEW id \in SnapshotId \ aborted', Fit(id)'
    PROVE  Fit(id) /\ Steady(id)
<1>1. id \in SnapshotId \ aborted
  OBVIOUS
<1>2. CASE Forward(p)
  BY <1>1, <1>2, DrainWorth DEF Forward, Running, bookkeeping
<1>3. CASE TakeImage(p) \/ CheckpointFails(p)
  BY <1>1, <1>3, ImageWorth
<1>4. CASE Resume(p)
  BY <1>1, <1>4, ResumeWorth
<1>5. CASE Timeout(p)
  BY <1>5, TimeoutWorth
<1> QED BY <1>2, <1>3, <1>4, <1>5

LEMMA StepWorth ==
    ASSUME IndInv, IndInv', FlowInv, [Next]_vars,
           NEW id \in SnapshotId \ aborted', Fit(id)'
    PROVE  Fit(id) /\ (Steady(id) \/ Traded(id))
<1>1. id \in SnapshotId \ aborted /\ aborted \subseteq aborted'
  BY BooksGrow
<1>2. CASE UNCHANGED vars
  <2>1. UNCHANGED <<wire, inbox, counter, outbox, snapshotId, phase, recording,
                    channelState, image, artifact, begins, dead>>
    BY <1>2 DEF vars, channels, apps, controllers, stores, bookkeeping
  <2>2. Fit(id)
    BY <2>1, SteadyFit
  <2>3. \A f \in Channel : Held(id, f)' = Held(id, f)
    <3> SUFFICES ASSUME NEW f \in Channel PROVE Held(id, f)' = Held(id, f)
      OBVIOUS
    <3>1. Unsent(id, f)' = Unsent(id, f) /\ Unread(id, f)' = Unread(id, f)
      BY <2>1 DEF Unsent, Unread, Taken
    <3>2. Transit(id, f)' = Transit(id, f) /\ Kept(id, f)' = Kept(id, f)
      BY <2>1, SteadyFit
    <3> QED BY <3>1, <3>2 DEF Held, Out, In
  <2>4. \A p \in Node : Value(id, p)' = Value(id, p)
    BY <2>1 DEF Value, Taken
  <2> QED BY <2>2, <2>3, <2>4 DEF Steady
<1>3. CASE Environment
  <2>1. ASSUME NEW p \in Node, NEW q \in Node, Transfer(p, q)
        PROVE  Fit(id) /\ (Steady(id) \/ Traded(id))
    BY <1>1, <2>1, TransferWorth
  <2>2. ASSUME NEW p \in Node, NEW x \in SnapshotId, Start(p, x)
        PROVE  Fit(id) /\ Steady(id)
    <3>1. /\ Begin(p, x, Operator) /\ phase[p] = "running" /\ ~Snapshotting(p)
          /\ x \notin started /\ UNCHANGED dead
      BY <2>2 DEF Start, Running
    <3>2. x \notin aborted => ~Begun(x, p)
      BY <3>1, IndParts DEF BegunInv
    <3> QED BY <1>1, <3>1, <3>2, BeginWorth
  <2>3. ASSUME NEW p \in Node, NEW x \in SnapshotId, StartIgnored(p, x)
        PROVE  Fit(id) /\ Steady(id)
    BY <1>1, <2>3, DrainWorth DEF StartIgnored, Running
  <2>4. ASSUME NEW p \in Node, Die(p) PROVE Fit(id) /\ Steady(id)
    BY <1>1, <2>4, DieWorth
  <2> QED BY <1>3, <2>1, <2>2, <2>3, <2>4 DEF Environment
<1>4. ASSUME NEW p \in Node, Step(p)
      PROVE  Fit(id) /\ (Steady(id) \/ Traded(id))
  <2>1. ASSUME NEW q \in Node, ReadCredit(p, q)
        PROVE  Fit(id) /\ (Steady(id) \/ Traded(id))
    BY <1>1, <2>1, ReadCreditWorth
  <2>2. ASSUME NEW q \in Node, Receive(p, q) PROVE Fit(id) /\ Steady(id)
    BY <1>1, <2>2, ReceiveWorth
  <2> QED BY <1>1, <1>4, <2>1, <2>2, HandlerWorth DEF Step
<1> QED BY <1>2, <1>3, <1>4 DEF Next

-----------------------------------------------------------------------------
(* The worth is all the credit there is.                                   *)

Values(id) == [p \in Node |-> Value(id, p)]
Helds(id) == [f \in Channel |-> Held(id, f)]

LEMMA WorthSums ==
    ASSUME TypeInv, NEW id \in SnapshotId
    PROVE  /\ Values(id) \in [Node -> Int] /\ Helds(id) \in [Channel -> Int]
           /\ SumFunction(Values(id)) \in Int
           /\ SumFunction(Helds(id)) \in Int
           /\ Worth(id) = SumFunction(Values(id)) + SumFunction(Helds(id))
<1> PICK v, h : v = Values(id) /\ h = Helds(id)
  OBVIOUS
<1>1. v \in [Node -> Int] /\ h \in [Channel -> Int]
  BY HeldTypes DEF Values, Helds
<1>2. SumFunction(v) \in Int
  BY <1>1, Finite, SumType
<1>3. SumFunction(h) \in Int
  BY <1>1, Finite, SumType
<1>4. Worth(id) = SumFunction(Values(id)) + SumFunction(Helds(id))
  BY DEF Worth, Values, Helds
<1> QED BY <1>1, <1>2, <1>3, <1>4

LEMMA WorthInit == Init => WorthInv
<1> SUFFICES ASSUME Init, NEW id \in SnapshotId PROVE Worth(id) = Total
  BY DEF WorthInv
<1>1. ASSUME NEW p \in Node
      PROVE  ~Taken(id, p) /\ snapshotId[p] # id
  <2>1. <<id, p>> \in Key
    BY DEF Key
  <2> QED BY <2>1, NoIdAssumption DEF Init, Taken, NoImage
<1>2. ASSUME NEW f \in Channel PROVE Held(id, f) = 0
  <2>1. f[1] \in Node /\ f[2] \in Node /\ <<id, f[2]>> \in Key
    BY ChannelPair DEF Key
  <2>2. /\ outbox[f] = << >> /\ wire[f] = << >> /\ inbox[f[2]][f[1]] = 0
        /\ channelState[f[2]][f[1]] = << >>
        /\ artifact[<<id, f[2]>>].channel[f[1]] = << >>
        /\ begins[<<id, f[2]>>] = 0
    BY <2>1 DEF Init, NoneFrom, NothingRecorded, NoArtifact
  <2>3. Ahead(id, << >>) = 0
    <3>1. << >> \in Seq(Message) /\ ~Has(id, << >>)
      BY NoneHas, EmptyTypes
    <3> QED BY <3>1, AheadAbsent, CreditsNone
  <2>4. Unsent(id, f) = 0
    BY <1>1, <2>1, <2>2, CreditsNone DEF Unsent
  <2>5. Transit(id, f) = 0
    BY <2>2, <2>3 DEF Transit
  <2>6. Kept(id, f) = 0
    BY <1>1, <2>1, <2>2, CreditsNone DEF Kept
  <2>7. Unread(id, f) = 0
    <3>1. Unread(id, f) = 0 + 0
      BY <1>1, <2>1, <2>2, CreditsNone DEF Unread
    <3> QED BY <3>1
  <2> QED BY <2>4, <2>5, <2>6, <2>7 DEF Held, Out, In
<1>3. Values(id) = [p \in Node |-> InitCounter]
  BY <1>1 DEF Values, Value, Init
<1>4. SumFunction(Values(id)) = Cardinality(Node) * InitCounter
  <2> PICK v : v = Values(id)
    OBVIOUS
  <2>1. SumFunction(v) = Cardinality(Node) * InitCounter
    BY <1>3, Finite, InitCounterAssumption, SumConstant
  <2> QED BY <2>1
<1>5. SumFunction(Helds(id)) = 0
  <2> PICK h : h = Helds(id)
    OBVIOUS
  <2>1. h \in [Channel -> Int] /\ \A f \in Channel : h[f] = 0
    BY <1>2 DEF Helds
  <2>2. SumFunction(h) = 0
    BY <2>1, Finite, SumZero
  <2> QED BY <2>2
<1>6. Worth(id) = SumFunction(Values(id)) + SumFunction(Helds(id))
  BY DEF Worth, Values, Helds
<1> QED BY <1>4, <1>5, <1>6, Finite, InitCounterAssumption DEF Total

LEMMA WorthShift ==
    ASSUME TypeInv, TypeInv', NEW id \in SnapshotId, NEW p \in Node,
           NEW f \in Channel, NEW d \in {-1, 1}, Trades(id, p, f, d)
    PROVE  Worth(id)' = Worth(id)
<1> PICK u, h : u = Values(id) /\ h = Helds(id)
  OBVIOUS
<1> PICK v, k : v = Values(id)' /\ k = Helds(id)'
  OBVIOUS
<1>1. /\ u \in [Node -> Int] /\ h \in [Channel -> Int]
      /\ SumFunction(u) \in Int /\ SumFunction(h) \in Int
      /\ Worth(id) = SumFunction(u) + SumFunction(h)
  BY WorthSums
<1>2. /\ v = [r \in Node |-> Value(id, r)']
      /\ k = [g \in Channel |-> Held(id, g)']
      /\ Worth(id)' = SumFunction(v) + SumFunction(k)
  BY DEF Values, Helds, Worth
<1>3. /\ \A r \in Node : Value(id, r) \in Int
      /\ \A g \in Channel : Held(id, g) \in Int
  BY HeldTypes
<1>4. /\ v \in [Node -> Int] /\ v[p] = u[p] - d
      /\ \A r \in Node \ {p} : v[r] = u[r]
  <2>1. \A r \in Node : Value(id, r)' \in Int
    BY <1>3 DEF Trades
  <2> QED BY <1>2, <2>1 DEF Trades, Values
<1>5. /\ k \in [Channel -> Int] /\ k[f] = h[f] + d
      /\ \A g \in Channel \ {f} : k[g] = h[g]
  <2>1. \A g \in Channel : Held(id, g)' \in Int
    BY <1>3 DEF Trades
  <2> QED BY <1>2, <2>1 DEF Trades, Helds
<1>6. SumFunction(v) = SumFunction(u) - u[p] + v[p]
  BY <1>1, <1>4, Finite, SumUpdate
<1>7. SumFunction(k) = SumFunction(h) - h[f] + k[f]
  BY <1>1, <1>5, Finite, SumUpdate
<1> DEFINE a == SumFunction(u)  b == SumFunction(h)  x == u[p]  y == h[f]
<1>8. /\ a \in Int /\ b \in Int /\ x \in Int /\ y \in Int
      /\ SumFunction(v) = a - x + (x - d) /\ SumFunction(k) = b - y + (y + d)
  BY <1>1, <1>4, <1>5, <1>6, <1>7
<1> HIDE DEF a, b, x, y
<1>9. SumFunction(v) + SumFunction(k) = a + b
  BY <1>8
<1> QED BY <1>1, <1>2, <1>9 DEF a, b

LEMMA WorthStep ==
    ASSUME IndInv, IndInv', FlowInv, WorthInv, [Next]_vars PROVE WorthInv'
<1> SUFFICES ASSUME NEW id \in SnapshotId \ aborted', Fit(id)'
             PROVE  Worth(id)' = Total
  BY DEF WorthInv, Total
<1>1. id \in SnapshotId \ aborted
  BY BooksGrow
<1>2. Fit(id) /\ (Steady(id) \/ Traded(id))
  BY StepWorth
<1>3. Worth(id) = Total
  BY <1>1, <1>2 DEF WorthInv
<1>4. CASE Steady(id)
  <2>1. Worth(id)' = Worth(id)
    BY <1>4 DEF Steady, Worth
  <2> QED BY <1>3, <2>1
<1>5. CASE Traded(id)
  <2>1. TypeInv /\ TypeInv'
    BY DEF IndInv
  <2> QED BY <1>3, <1>5, <2>1, WorthShift DEF Traded
<1> QED BY <1>2, <1>4, <1>5

-----------------------------------------------------------------------------
(* The worth of a complete snapshot is what it holds and what it misses.   *)

LEMMA CompleteFits ==
    ASSUME IndInv, NEW id \in SnapshotId \ aborted, Complete(id), Imaged(id)
    PROVE  /\ Fit(id)
           /\ \A p \in Node : Taken(id, p) /\ snapshotId[p] # id
           /\ \A f \in Channel : Got(id, f)
<1>1. ASSUME NEW p \in Node
      PROVE  Begun(id, p) /\ snapshotId[p] # id /\ Taken(id, p) /\ FitNode(id, p)
  <2>1. artifact[<<id, p>>].status = "complete" /\ Taken(id, p)
    BY DEF Complete, Imaged, Taken
  <2>2. Begun(id, p) /\ snapshotId[p] # id
    BY <2>1, Places
  <2> QED BY <2>1, <2>2 DEF FitNode, Sent
<1>2. ASSUME NEW f \in Channel PROVE Got(id, f) /\ FitChannel(id, f)
  <2>1. f[2] \in Node
    BY ChannelPair
  <2> QED BY <1>1, <2>1 DEF Got, FitChannel
<1> QED BY <1>1, <1>2 DEF Fit

LEMMA SumAddThree ==
    ASSUME NEW S, IsFiniteSet(S), NEW f \in [S -> Int], NEW g \in [S -> Int],
           NEW k \in [S -> Int], NEW l, l = [x \in S |-> f[x] + (g[x] + k[x])]
    PROVE  SumFunction(l) = SumFunction(f) + (SumFunction(g) + SumFunction(k))
<1> PICK e : e = [x \in S |-> g[x] + k[x]]
  OBVIOUS
<1>1. /\ IsFiniteSet(S) /\ f \in [S -> Int] /\ e \in [S -> Int]
      /\ l \in [S -> Int] /\ \A x \in S : l[x] = f[x] + e[x]
  OBVIOUS
<1>2. /\ IsFiniteSet(S) /\ g \in [S -> Int] /\ k \in [S -> Int]
      /\ e \in [S -> Int] /\ \A x \in S : e[x] = g[x] + k[x]
  OBVIOUS
<1>3. SumFunction(l) = SumFunction(f) + SumFunction(e)
  BY ONLY <1>1, SumAdd
<1>4. SumFunction(e) = SumFunction(g) + SumFunction(k)
  BY ONLY <1>2, SumAdd
<1> QED BY <1>3, <1>4

LEMMA RowSums ==
    ASSUME NEW t, t \in [Node -> [Node -> Int]]
    PROVE  [p \in Node |-> SumFunction(t[p])] \in [Node -> Int]
<1>1. ASSUME NEW p \in Node PROVE SumFunction(t[p]) \in Int
  <2> PICK u : u = t[p]
    OBVIOUS
  <2>1. u \in [Node -> Int]
    OBVIOUS
  <2>2. SumFunction(u) \in Int
    BY ONLY <2>1, NodeAssumption, SumType
  <2> QED BY <2>2
<1> QED BY <1>1

LEMMA WorthHolds ==
    ASSUME IndInv, FlowInv, NEW id \in SnapshotId \ aborted,
           Complete(id), Imaged(id)
    PROVE  SumFunction([p \in Node |-> image[<<id, p>>].counter
                                       + SumFunction(image[<<id, p>>].unread)
                                       + SumFunction(image[<<id, p>>].unsent)])
           + RecordedCredits(id) = Worth(id)
<1>1. /\ \A p \in Node : Taken(id, p) /\ snapshotId[p] # id
      /\ \A f \in Channel : Got(id, f)
  BY CompleteFits
<1>2. ASSUME NEW p \in Node
      PROVE  /\ image[<<id, p>>].counter \in Int
             /\ image[<<id, p>>].unread \in [Node -> Nat]
             /\ image[<<id, p>>].unsent \in [Node -> Nat]
             /\ artifact[<<id, p>>].channel \in [Node -> Recorded]
             /\ image[<<id, p>>].unread[p] = 0
             /\ image[<<id, p>>].unsent[p] = 0
             /\ artifact[<<id, p>>].channel[p] = << >>
  <2>1. <<id, p>> \in Key
    BY DEF Key
  <2>2. image[<<id, p>>] \in Image /\ artifact[<<id, p>>] \in Artifact
    BY <2>1, IndParts DEF StoresOK
  <2>3. StoredAt(<<id, p>>)
    BY <2>1 DEF FlowInv
  <2> QED BY <2>2, <2>3 DEF Image, Artifact, StoredAt
(* The three tables.                                                       *)
<1>3. PICK sent, kept, read :
        /\ sent = [p \in Node |-> image[<<id, p>>].unsent]
        /\ kept = [p \in Node |-> [q \in Node |->
                       CreditsIn(artifact[<<id, p>>].channel[q])]]
        /\ read = [p \in Node |-> image[<<id, p>>].unread]
  OBVIOUS
<1>4. sent \in [Node -> [Node -> Int]] /\ \A p \in Node : sent[p][p] = 0
  <2>1. ASSUME NEW p \in Node
        PROVE  sent[p] \in [Node -> Int] /\ sent[p][p] = 0
    <3> PICK u : u = image[<<id, p>>].unsent
      OBVIOUS
    <3>1. u \in [Node -> Nat] /\ u[p] = 0 /\ sent[p] = u
      BY <1>2, <1>3
    <3> QED BY <3>1
  <2> QED BY <1>3, <2>1
<1>5. read \in [Node -> [Node -> Int]] /\ \A p \in Node : read[p][p] = 0
  <2>1. ASSUME NEW p \in Node
        PROVE  read[p] \in [Node -> Int] /\ read[p][p] = 0
    <3> PICK u : u = image[<<id, p>>].unread
      OBVIOUS
    <3>1. u \in [Node -> Nat] /\ u[p] = 0 /\ read[p] = u
      BY <1>2, <1>3
    <3> QED BY <3>1
  <2> QED BY <1>3, <2>1
<1>6. kept \in [Node -> [Node -> Int]] /\ \A p \in Node : kept[p][p] = 0
  <2>1. \A p, q \in Node : CreditsIn(artifact[<<id, p>>].channel[q]) \in Int
    BY <1>2, CreditsInType
  <2> QED BY <1>2, <1>3, <2>1, CreditsNone
(* By channel and by server.                                               *)
<1>7. PICK a, b, c, h :
        /\ a = [f \in Channel |-> sent[f[1]][f[2]]]
        /\ b = [f \in Channel |-> kept[f[2]][f[1]]]
        /\ c = [f \in Channel |-> read[f[2]][f[1]]]
        /\ h = Helds(id)
  OBVIOUS
<1>8. PICK s, k, r, v, x :
        /\ s = [p \in Node |-> SumFunction(sent[p])]
        /\ k = [p \in Node |-> SumFunction(kept[p])]
        /\ r = [p \in Node |-> SumFunction(read[p])]
        /\ v = Values(id)
        /\ x = [p \in Node |-> v[p] + r[p] + s[p]]
  OBVIOUS
<1>9. SumFunction(a) = SumFunction(s)
  BY <1>4, <1>7, <1>8, BySender
<1>10. SumFunction(b) = SumFunction(k)
  BY <1>6, <1>7, <1>8, ByReceiver
<1>11. SumFunction(c) = SumFunction(r)
  BY <1>5, <1>7, <1>8, ByReceiver
<1>12. s \in [Node -> Int] /\ r \in [Node -> Int]
  BY <1>4, <1>5, <1>8, RowSums
<1>13. /\ a \in [Channel -> Int] /\ c \in [Channel -> Int]
       /\ b \in [Channel -> Int]
  <2>1. ASSUME NEW f \in Channel
        PROVE  /\ sent[f[1]][f[2]] \in Int /\ kept[f[2]][f[1]] \in Int
               /\ read[f[2]][f[1]] \in Int
    <3>1. f[1] \in Node /\ f[2] \in Node
      BY ChannelPair
    <3> QED BY <1>4, <1>5, <1>6, <3>1
  <2> QED BY <1>7, <2>1
<1>14. /\ h \in [Channel -> Int] /\ v \in [Node -> Int]
       /\ Worth(id) = SumFunction(v) + SumFunction(h)
  BY <1>7, <1>8, IndParts, WorthSums
<1>15. \A p \in Node : v[p] = image[<<id, p>>].counter
  BY <1>1, <1>8 DEF Values, Value
<1>16. ASSUME NEW f \in Channel PROVE h[f] = a[f] + (b[f] + c[f])
  <2>1. f[1] \in Node /\ f[2] \in Node
    BY ChannelPair
  <2>2. Unsent(id, f) = a[f] /\ Unread(id, f) = c[f]
    BY <1>1, <1>3, <1>7, <2>1 DEF Unsent, Unread
  <2>3. Transit(id, f) = 0
    BY <1>1 DEF Transit
  <2>4. Kept(id, f) = b[f]
    BY <1>1, <1>3, <1>7, <2>1 DEF Kept
  <2>5. h[f] = (a[f] + 0) + (b[f] + c[f])
    BY <1>7, <2>2, <2>3, <2>4 DEF Helds, Held, Out, In
  <2>6. a[f] \in Int
    BY <1>13
  <2> QED BY <2>5, <2>6
<1>17. SumFunction(h) = SumFunction(a) + (SumFunction(b) + SumFunction(c))
  <2>1. h = [f \in Channel |-> a[f] + (b[f] + c[f])]
    BY <1>14, <1>16
  <2>2. IsFiniteSet(Channel)
    BY Finite
  <2> QED BY ONLY <1>13, <2>1, <2>2, SumAddThree
<1>18. SumFunction(x) = SumFunction(v) + (SumFunction(r) + SumFunction(s))
  <2>1. x = [p \in Node |-> v[p] + (r[p] + s[p])]
    <3>1. ASSUME NEW p \in Node
          PROVE  v[p] + r[p] + s[p] = v[p] + (r[p] + s[p])
      <4>1. v[p] \in Int /\ r[p] \in Int /\ s[p] \in Int
        BY <1>12, <1>14
      <4> QED BY <4>1
    <3> QED BY <1>8, <3>1
  <2>2. v \in [Node -> Int]
    BY <1>14
  <2> QED BY ONLY <1>12, <2>1, <2>2, NodeAssumption, SumAddThree
<1>19. RecordedCredits(id) = SumFunction(k)
  <2>1. ASSUME NEW p \in Node
        PROVE  kept[p] = [q \in Node |-> CreditsIn(artifact[<<id, p>>].channel[q])]
    BY <1>3
  <2>2. k = [p \in Node |-> SumFunction([q \in Node |->
                CreditsIn(artifact[<<id, p>>].channel[q])])]
    BY <1>8, <2>1
  <2> QED BY <2>2 DEF RecordedCredits
<1>20. x = [p \in Node |-> image[<<id, p>>].counter
                           + SumFunction(image[<<id, p>>].unread)
                           + SumFunction(image[<<id, p>>].unsent)]
  <2>1. ASSUME NEW p \in Node
        PROVE  v[p] + r[p] + s[p] = image[<<id, p>>].counter
                                    + SumFunction(image[<<id, p>>].unread)
                                    + SumFunction(image[<<id, p>>].unsent)
    <3>1. sent[p] = image[<<id, p>>].unsent /\ read[p] = image[<<id, p>>].unread
      BY <1>3
    <3> QED BY <1>8, <1>15, <3>1
  <2> QED BY <1>8, <2>1
<1>21. /\ SumFunction(a) \in Int /\ SumFunction(b) \in Int
       /\ SumFunction(c) \in Int /\ SumFunction(v) \in Int
  <2>1. SumFunction(a) \in Int
    BY <1>13, Finite, SumType
  <2>2. SumFunction(b) \in Int
    BY <1>13, Finite, SumType
  <2>3. SumFunction(c) \in Int
    BY <1>13, Finite, SumType
  <2>4. SumFunction(v) \in Int
    BY <1>14, Finite, SumType
  <2> QED BY <2>1, <2>2, <2>3, <2>4
<1>22. SumFunction(x) + SumFunction(k) = SumFunction(v) + SumFunction(h)
  <2> PICK sa, sb, sc, sv : /\ sa = SumFunction(a) /\ sb = SumFunction(b)
                            /\ sc = SumFunction(c) /\ sv = SumFunction(v)
    OBVIOUS
  <2>1. /\ SumFunction(x) = sv + (sc + sa) /\ SumFunction(k) = sb
        /\ SumFunction(h) = sa + (sb + sc) /\ SumFunction(v) = sv
    BY <1>9, <1>10, <1>11, <1>17, <1>18
  <2>2. sa \in Int /\ sb \in Int /\ sc \in Int /\ sv \in Int
    BY <1>21
  <2>3. (sv + (sc + sa)) + sb = sv + (sa + (sb + sc))
    BY <2>2
  <2> QED BY <2>1, <2>3
<1> QED BY <1>14, <1>19, <1>20, <1>22

LEMMA WorthInvariance == Spec => [](FlowIndInv /\ WorthInv)
<1>1. Init => WorthInv
  BY WorthInit
<1>2. FlowIndInv /\ FlowIndInv' /\ WorthInv /\ [Next]_vars => WorthInv'
  BY WorthStep DEF FlowIndInv
<1> QED BY <1>1, <1>2, FlowInvariance, PTL DEF Spec

(* The images and the recorded channels of a complete snapshot nobody has  *)
(* aborted, with what lay unread in the applications' sockets and unsent on*)
(* the sidecars' intercept sockets when the images were taken, are all the *)
(* credit there is (_finish_global_snapshot, snapshot_handler.py:311), for *)
(* every finite set of servers, whatever snapshots overlap, servers die and*)
(* POSTs fail.                                                             *)
THEOREM SnapshotsAccount == Spec => []CutAccounts
<1>1. FlowIndInv /\ WorthInv => CutAccounts
  <2> SUFFICES ASSUME FlowIndInv, WorthInv, NEW id \in SnapshotId \ aborted,
                      Complete(id), Imaged(id)
               PROVE  SumFunction([p \in Node |-> image[<<id, p>>].counter
                                     + SumFunction(image[<<id, p>>].unread)
                                     + SumFunction(image[<<id, p>>].unsent)])
                      + RecordedCredits(id) = Total
    BY DEF CutAccounts, CutCredit
  <2>1. Fit(id)
    BY CompleteFits DEF FlowIndInv
  <2>2. Worth(id) = Total
    BY <2>1 DEF WorthInv
  <2> QED BY <2>2, WorthHolds DEF FlowIndInv
<1> QED BY <1>1, WorthInvariance, PTL
=============================================================================
