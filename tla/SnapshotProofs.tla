--------------------------- MODULE SnapshotProofs ---------------------------
(***************************************************************************)
(* Proofs about Snapshot, for every set of servers and snapshot ids and    *)
(* every bound.                                                            *)
(***************************************************************************)
EXTENDS Snapshot, FiniteSetTheorems, SequenceTheorems, TLAPS

(* The type invariant in five parts, one per group of variables.           *)
ChannelsOK == /\ wire \in [Channel -> Seq(Message)]
              /\ sendSeq \in [Channel -> Nat]
              /\ recvSeq \in [Channel -> Nat]

AppsOK == /\ counter \in [Node -> Int]
          /\ inbox \in [Node -> [Node -> Nat]]
          /\ outbox \in [Channel -> Seq(Message)]

ControllersOK ==
    /\ snapshotId \in [Node -> SnapshotId \cup {NoId}]
    /\ phase \in [Node -> {"running", "posted", "imaged"}]
    /\ origin \in [Node -> Node \cup {Operator}]
    /\ recording \in [Node -> SUBSET Node]
    /\ channelState \in [Node -> [Node -> Recorded]]
    /\ recordedSend \in [Node -> [Node -> SeqOrMissing]]
    /\ recordedRecv \in [Node -> [Node -> SeqOrMissing]]

Image == [taken : BOOLEAN, counter : Int, unread : [Node -> Nat],
          unsent : [Node -> Nat]]
Artifact == [status : {"none", "complete", "aborted"},
             send : [Node -> SeqOrMissing], recv : [Node -> SeqOrMissing],
             channel : [Node -> Recorded]]

StoresOK == /\ image \in [Key -> Image]
            /\ artifact \in [Key -> Artifact]

BookkeepingOK == /\ started \subseteq SnapshotId
                 /\ aborted \subseteq SnapshotId
                 /\ dead \subseteq Node
                 /\ transfers \in 0 .. MaxTransfer
                 /\ begins \in [Key -> Nat]
                 /\ earlyTimeouts \in 0 .. MaxEarly
                 /\ failures \in 0 .. MaxFailure

LEMMA TypeParts ==
    TypeOK <=> /\ ChannelsOK /\ AppsOK /\ ControllersOK
               /\ StoresOK /\ BookkeepingOK
BY DEF TypeOK, ChannelsOK, AppsOK, ControllersOK, StoresOK, BookkeepingOK,
       Image, Artifact

LEMMA TypePartsNext ==
    /\ ChannelsOK' /\ AppsOK' /\ ControllersOK'
    /\ StoresOK' /\ BookkeepingOK'
    => TypeOK'
BY DEF TypeOK, ChannelsOK, AppsOK, ControllersOK, StoresOK, BookkeepingOK,
       Image, Artifact

(* A controller that is blocked in the checkpoint POST is in a snapshot,   *)
(* and the marker of a peer that brought it there is still at the head of  *)
(* its channel.                                                            *)
Blocked(p) ==
    /\ Snapshotting(p)
    /\ origin[p] # Operator => /\ origin[p] \in Node \ {p}
                               /\ wire[<<origin[p], p>>] # << >>

BlockedInv == \A p \in Node : phase[p] # "running" => Blocked(p)

TypeInv == TypeOK /\ BlockedInv

-----------------------------------------------------------------------------
(* Messages, credits and sequences.                                        *)

LEMMA ChannelPair ==
    /\ \A p, q \in Node : p # q => <<p, q>> \in Channel
    /\ \A f \in Channel : /\ f[1] \in Node /\ f[2] \in Node /\ f[1] # f[2]
                          /\ f = <<f[1], f[2]>>
BY DEF Channel

LEMMA MessageTypes ==
    /\ Credit \in Message
    /\ Reply \in Message
    /\ \A id \in SnapshotId : Marker(id) \in Message
BY DEF Credit, Reply, Marker, Message

LEMMA SeqTypes ==
    ASSUME NEW S, NEW s \in Seq(S)
    PROVE  /\ \A e \in S : Append(s, e) \in Seq(S)
           /\ \A t \in Seq(S) : s \o t \in Seq(S)
           /\ s # << >> => Tail(s) \in Seq(S) /\ Head(s) \in S
           /\ Len(s) \in Nat
           /\ DOMAIN s = 1 .. Len(s)
           /\ << >> \in Seq(S)
OBVIOUS

LEMMA CreditsType ==
    ASSUME NEW s \in Seq(Message) PROVE Credits(s) \in Nat
<1>1. DOMAIN s = 1 .. Len(s) /\ Len(s) \in Nat
  BY LenProperties
<1>2. IsFiniteSet(1 .. Len(s))
  BY <1>1, FS_Interval
<1>3. IsFiniteSet({i \in DOMAIN s : s[i].type = "credit"})
  BY <1>1, <1>2, FS_Subset
<1> QED BY <1>3, FS_CardinalityType DEF Credits

LEMMA CreditsInType ==
    ASSUME NEW r \in Recorded PROVE CreditsIn(r) \in Nat
<1>1. r \in Seq([seq : Nat, msg : Message])
  BY DEF Recorded
<1>2. DOMAIN r = 1 .. Len(r) /\ Len(r) \in Nat
  BY <1>1, LenProperties
<1>3. IsFiniteSet(1 .. Len(r))
  BY <1>2, FS_Interval
<1>4. IsFiniteSet({i \in DOMAIN r : r[i].msg.type = "credit"})
  BY <1>2, <1>3, FS_Subset
<1> QED BY <1>4, FS_CardinalityType DEF CreditsIn

LEMMA EmptyTypes ==
    /\ NoneFrom \in [Node -> Nat]
    /\ AllMissing \in [Node -> SeqOrMissing]
    /\ NothingRecorded \in [Node -> Recorded]
    /\ NoImage \in Image
    /\ NoArtifact \in Artifact
<1>1. /\ NoneFrom \in [Node -> Nat]
      /\ AllMissing \in [Node -> SeqOrMissing]
  BY DEF NoneFrom, AllMissing, SeqOrMissing
<1>2. NothingRecorded \in [Node -> Recorded]
  BY DEF NothingRecorded, Recorded
<1>3. NoImage \in Image
  BY <1>1 DEF NoImage, Image
<1>4. NoArtifact \in Artifact
  BY <1>1, <1>2 DEF NoArtifact, Artifact
<1> QED BY <1>1, <1>2, <1>3, <1>4

-----------------------------------------------------------------------------
(* The pieces the handlers share.                                          *)

LEMMA Bounds == /\ MaxTransfer \in Nat /\ MaxBegin \in Nat /\ MaxEarly \in Nat
                /\ MaxDeath \in Nat /\ MaxFailure \in Nat
BY BoundsAssumption

LEMMA StutterTypes ==
    /\ ChannelsOK /\ UNCHANGED channels => ChannelsOK'
    /\ AppsOK /\ UNCHANGED apps => AppsOK'
    /\ ControllersOK /\ UNCHANGED controllers => ControllersOK'
    /\ StoresOK /\ UNCHANGED stores => StoresOK'
    /\ BookkeepingOK /\ UNCHANGED bookkeeping => BookkeepingOK'
<1>1. ChannelsOK /\ UNCHANGED channels => ChannelsOK'
  BY DEF ChannelsOK, channels
<1>2. AppsOK /\ UNCHANGED apps => AppsOK'
  BY DEF AppsOK, apps
<1>3. ControllersOK /\ UNCHANGED controllers => ControllersOK'
  BY DEF ControllersOK, controllers
<1>4. StoresOK /\ UNCHANGED stores => StoresOK'
  BY DEF StoresOK, stores
<1>5. BookkeepingOK /\ UNCHANGED bookkeeping => BookkeepingOK'
  BY DEF BookkeepingOK, bookkeeping
<1> QED BY <1>1, <1>2, <1>3, <1>4, <1>5

LEMMA DrainTypes ==
    ASSUME ChannelsOK, AppsOK, NEW p \in Node, Drain(p)
    PROVE  /\ wire' \in [Channel -> Seq(Message)]
           /\ sendSeq' \in [Channel -> Nat]
           /\ outbox' \in [Channel -> Seq(Message)]
<1>1. ASSUME NEW f \in Channel
      PROVE  /\ wire[f] \in Seq(Message) /\ outbox[f] \in Seq(Message)
             /\ wire[f] \o outbox[f] \in Seq(Message)
             /\ sendSeq[f] \in Nat /\ Len(outbox[f]) \in Nat
             /\ << >> \in Seq(Message)
  BY DEF ChannelsOK, AppsOK
<1>2. wire' \in [Channel -> Seq(Message)]
  BY <1>1 DEF Drain
<1>3. sendSeq' \in [Channel -> Nat]
  BY <1>1 DEF Drain
<1>4. outbox' \in [Channel -> Seq(Message)]
  BY <1>1 DEF Drain
<1> QED BY <1>2, <1>3, <1>4

LEMMA PostTypes ==
    ASSUME StoresOK, BookkeepingOK, NEW p \in Node,
           snapshotId[p] \in SnapshotId, NEW art \in Artifact, Post(p, art)
    PROVE  artifact' \in [Key -> Artifact] /\ failures' \in 0 .. MaxFailure
<1>1. <<snapshotId[p], p>> \in Key
  BY DEF Key
<1>2. artifact \in [Key -> Artifact] /\ failures \in 0 .. MaxFailure
  BY DEF StoresOK, BookkeepingOK
<1>3. CASE artifact' = [artifact EXCEPT ![<<snapshotId[p], p>>] = art]
           /\ UNCHANGED failures
  BY <1>1, <1>2, <1>3
<1>4. CASE /\ failures < MaxFailure
           /\ failures' = failures + 1
           /\ UNCHANGED artifact
  BY <1>2, <1>4, Bounds
<1> QED BY <1>3, <1>4 DEF Post

LEMMA FlushTypes ==
    ASSUME ControllersOK, AppsOK, NEW p \in Node,
           NEW withheld \in [Node -> Recorded], FlushAndReset(p, withheld)
    PROVE  /\ snapshotId' \in [Node -> SnapshotId \cup {NoId}]
           /\ recording' \in [Node -> SUBSET Node]
           /\ recordedSend' \in [Node -> [Node -> SeqOrMissing]]
           /\ recordedRecv' \in [Node -> [Node -> SeqOrMissing]]
           /\ channelState' \in [Node -> [Node -> Recorded]]
           /\ inbox' \in [Node -> [Node -> Nat]]
<1>1. /\ snapshotId' \in [Node -> SnapshotId \cup {NoId}]
      /\ recording' \in [Node -> SUBSET Node]
  BY DEF ControllersOK, FlushAndReset, ForgetCut
<1>2. /\ recordedSend' \in [Node -> [Node -> SeqOrMissing]]
      /\ recordedRecv' \in [Node -> [Node -> SeqOrMissing]]
      /\ channelState' \in [Node -> [Node -> Recorded]]
  BY EmptyTypes DEF ControllersOK, FlushAndReset, ForgetCut
<1>3. \A q \in Node : CreditsIn(withheld[q]) \in Nat
  BY CreditsInType
<1>4. inbox' \in [Node -> [Node -> Nat]]
  BY <1>3 DEF AppsOK, FlushAndReset, ForgetCut
<1> QED BY <1>1, <1>2, <1>4

LEMMA EndTypes ==
    ASSUME TypeOK, NEW p \in Node, snapshotId[p] \in SnapshotId,
           NEW status \in {"complete", "aborted"},
           NEW send \in [Node -> SeqOrMissing],
           NEW recv \in [Node -> SeqOrMissing],
           NEW withheld \in [Node -> Recorded],
           End(p, status, send, recv, withheld)
    PROVE  /\ snapshotId' \in [Node -> SnapshotId \cup {NoId}]
           /\ recording' \in [Node -> SUBSET Node]
           /\ recordedSend' \in [Node -> [Node -> SeqOrMissing]]
           /\ recordedRecv' \in [Node -> [Node -> SeqOrMissing]]
           /\ channelState' \in [Node -> [Node -> Recorded]]
           /\ inbox' \in [Node -> [Node -> Nat]]
           /\ artifact' \in [Key -> Artifact]
           /\ failures' \in 0 .. MaxFailure
<1> DEFINE art == [status |-> status, send |-> send, recv |-> recv,
                   channel |-> withheld]
<1>1. art \in Artifact
  BY DEF Artifact
<1>2. Post(p, art) /\ FlushAndReset(p, withheld)
  BY DEF End
<1> HIDE DEF art
<1>3. artifact' \in [Key -> Artifact] /\ failures' \in 0 .. MaxFailure
  BY <1>1, <1>2, TypeParts, PostTypes
<1> QED BY <1>2, <1>3, TypeParts, FlushTypes

LEMMA BeginTypes ==
    ASSUME TypeOK, NEW p \in Node, NEW id \in SnapshotId,
           NEW from \in Node \cup {Operator}, Begin(p, id, from)
    PROVE  /\ ChannelsOK' /\ AppsOK' /\ ControllersOK' /\ StoresOK'
           /\ begins' \in [Key -> Nat]
<1> USE TypeParts
<1>1. ChannelsOK' /\ AppsOK'
  <2>1. Drain(p) /\ UNCHANGED <<recvSeq, counter, inbox>>
    BY DEF Begin
  <2> QED BY <2>1, DrainTypes DEF ChannelsOK, AppsOK
<1>2. ControllersOK'
  BY EmptyTypes DEF ControllersOK, Begin
<1>3. StoresOK'
  BY StutterTypes DEF Begin
<1>4. begins' \in [Key -> Nat]
  BY DEF Begin, BookkeepingOK, Key
<1> QED BY <1>1, <1>2, <1>3, <1>4

LEMMA ConsumeTypes ==
    ASSUME ChannelsOK, NEW p \in Node, NEW q \in Node, HasHead(q, p),
           Consume(p, q)
    PROVE  ChannelsOK'
<1>1. <<q, p>> \in Channel /\ wire[<<q, p>>] \in Seq(Message)
      /\ wire[<<q, p>>] # << >> /\ recvSeq[<<q, p>>] + 1 \in Nat
  BY DEF HasHead, ChannelsOK
<1>2. Tail(wire[<<q, p>>]) \in Seq(Message)
  BY <1>1, SeqTypes
<1> QED BY <1>1, <1>2 DEF Consume, ChannelsOK

LEMMA ArrivingType ==
    ASSUME ChannelsOK, NEW p \in Node, NEW q \in Node, HasHead(q, p)
    PROVE  /\ Arriving(q, p) \in Message
           /\ Arriving(q, p).type = "marker" => Arriving(q, p).id \in SnapshotId
<1>1. wire[<<q, p>>] \in Seq(Message) /\ wire[<<q, p>>] # << >>
  BY DEF HasHead, ChannelsOK
<1>2. Arriving(q, p) \in Message
  BY <1>1, SeqTypes DEF Arriving
<1> QED BY <1>2 DEF Message

(* A blocked controller stays well placed when its own state and the head  *)
(* of its origin's channel are left alone.                                 *)
LEMMA StaysBlocked ==
    ASSUME BlockedInv,
           \A r \in Node : phase'[r] # "running" =>
               /\ phase[r] # "running"
               /\ snapshotId'[r] = snapshotId[r]
               /\ origin'[r] = origin[r]
               /\ <<origin[r], r>> \in Channel /\ wire[<<origin[r], r>>] # << >>
                  => wire'[<<origin[r], r>>] # << >>
    PROVE  BlockedInv'
BY ChannelPair DEF BlockedInv, Blocked, Snapshotting

LEMMA DrainGrows ==
    ASSUME ChannelsOK, AppsOK, NEW p \in Node, Drain(p),
           NEW f \in Channel, wire[f] # << >>
    PROVE  wire'[f] # << >>
<1>1. /\ wire[f] \in Seq(Message) /\ outbox[f] \in Seq(Message)
      /\ wire'[f] = IF f[1] = p THEN wire[f] \o outbox[f] ELSE wire[f]
  BY DEF ChannelsOK, AppsOK, Drain
<1> QED BY <1>1

LEMMA ConsumeElsewhere ==
    ASSUME ChannelsOK, NEW p \in Node, NEW q \in Node, Consume(p, q),
           NEW f \in Channel, f # <<q, p>>
    PROVE  wire'[f] = wire[f]
BY DEF ChannelsOK, Consume

(* A handler that runs to completion at p and only consumes the head of    *)
(* q's channel disturbs no blocked controller.                             *)
LEMMA ConsumeStaysBlocked ==
    ASSUME TypeInv, NEW p \in Node, NEW q \in Node, Running(p),
           Consume(p, q), UNCHANGED <<phase, origin>>,
           \A r \in Node \ {p} : snapshotId'[r] = snapshotId[r]
    PROVE  BlockedInv'
<1>1. phase[p] = "running" /\ ChannelsOK
  BY TypeParts DEF Running, TypeInv
<1>2. ASSUME NEW r \in Node, phase[r] # "running",
             <<origin[r], r>> \in Channel
      PROVE  wire'[<<origin[r], r>>] = wire[<<origin[r], r>>]
  BY <1>1, <1>2, ConsumeElsewhere
<1> QED BY <1>1, <1>2, StaysBlocked DEF TypeInv

-----------------------------------------------------------------------------
(* One lemma per action.                                                   *)

LEMMA InitTypes == Init => TypeInv
<1> SUFFICES ASSUME Init PROVE TypeInv
  OBVIOUS
<1> USE DEF Init
<1>1. ChannelsOK /\ AppsOK
  BY EmptyTypes, InitCounterAssumption DEF ChannelsOK, AppsOK
<1>2. ControllersOK
  BY EmptyTypes DEF ControllersOK
<1>3. StoresOK
  BY EmptyTypes DEF StoresOK
<1>4. BookkeepingOK
  BY Bounds DEF BookkeepingOK
<1>5. BlockedInv
  BY DEF BlockedInv
<1> QED BY <1>1, <1>2, <1>3, <1>4, <1>5, TypeParts DEF TypeInv

LEMMA TransferTypes ==
    ASSUME TypeInv, NEW p \in Node, NEW q \in Node, Transfer(p, q)
    PROVE  TypeInv'
<1> USE TypeParts, TypePartsNext DEF TypeInv
<1>1. AppsOK'
  <2>1. <<p, q>> \in Channel /\ outbox[<<p, q>>] \in Seq(Message)
    BY DEF Transfer, AppsOK
  <2>2. Append(outbox[<<p, q>>], Credit) \in Seq(Message)
    BY <2>1, SeqTypes, MessageTypes
  <2> QED BY <2>1, <2>2 DEF Transfer, AppsOK
<1>2. ChannelsOK' /\ ControllersOK' /\ StoresOK'
  BY StutterTypes DEF Transfer
<1>3. BookkeepingOK'
  BY Bounds DEF Transfer, BookkeepingOK
<1>4. BlockedInv'
  BY StaysBlocked DEF Transfer, channels, controllers
<1> QED BY <1>1, <1>2, <1>3, <1>4

LEMMA ReadCreditTypes ==
    ASSUME TypeInv, NEW p \in Node, NEW q \in Node, ReadCredit(p, q)
    PROVE  TypeInv'
<1> USE TypeParts, TypePartsNext DEF TypeInv
<1>1. AppsOK'
  <2>1. inbox' \in [Node -> [Node -> Nat]] /\ counter' \in [Node -> Int]
    BY DEF ReadCredit, AppsOK
  <2>2. outbox' \in [Channel -> Seq(Message)]
    BY SeqTypes, MessageTypes DEF ReadCredit, AppsOK
  <2> QED BY <2>1, <2>2 DEF AppsOK
<1>2. ChannelsOK' /\ ControllersOK' /\ StoresOK' /\ BookkeepingOK'
  BY StutterTypes DEF ReadCredit
<1>3. BlockedInv'
  BY StaysBlocked DEF ReadCredit, channels, controllers
<1> QED BY <1>1, <1>2, <1>3

LEMMA ForwardTypes ==
    ASSUME TypeInv, NEW p \in Node, Forward(p) PROVE TypeInv'
<1> USE TypeParts, TypePartsNext DEF TypeInv
<1>1. Drain(p) /\ UNCHANGED <<recvSeq, counter, inbox, controllers, stores,
                              bookkeeping>>
  BY DEF Forward
<1>2. ChannelsOK' /\ AppsOK'
  BY <1>1, DrainTypes DEF ChannelsOK, AppsOK
<1>3. ControllersOK' /\ StoresOK' /\ BookkeepingOK'
  BY <1>1, StutterTypes
<1>4. BlockedInv'
  BY <1>1, DrainGrows, StaysBlocked DEF controllers
<1> QED BY <1>2, <1>3, <1>4

LEMMA StartIgnoredTypes ==
    ASSUME TypeInv, NEW p \in Node, NEW id \in SnapshotId, StartIgnored(p, id)
    PROVE  TypeInv'
<1> USE TypeParts, TypePartsNext DEF TypeInv
<1>1. /\ Drain(p)
      /\ UNCHANGED <<recvSeq, counter, inbox, controllers, stores>>
  BY DEF StartIgnored
<1>2. ChannelsOK' /\ AppsOK'
  BY <1>1, DrainTypes DEF ChannelsOK, AppsOK
<1>3. ControllersOK' /\ StoresOK'
  BY <1>1, StutterTypes
<1>4. BookkeepingOK'
  BY DEF StartIgnored, BookkeepingOK
<1>5. BlockedInv'
  BY <1>1, DrainGrows, StaysBlocked DEF controllers
<1> QED BY <1>2, <1>3, <1>4, <1>5

(* Begin blocks p itself: it is in the snapshot now, and the marker it has *)
(* read is still on its channel.                                           *)
LEMMA BeginBlocks ==
    ASSUME TypeInv, NEW p \in Node, NEW id \in SnapshotId,
           NEW from \in Node \cup {Operator}, Begin(p, id, from),
           from # Operator => <<from, p>> \in Channel /\ wire[<<from, p>>] # << >>
    PROVE  BlockedInv'
<1>1. ChannelsOK /\ AppsOK /\ ControllersOK /\ Drain(p)
  BY TypeParts DEF TypeInv, Begin
<1>2. /\ snapshotId' = [snapshotId EXCEPT ![p] = id]
      /\ origin' = [origin EXCEPT ![p] = from]
      /\ phase' = [phase EXCEPT ![p] = "posted"]
  BY DEF Begin
<1> SUFFICES ASSUME NEW r \in Node, phase'[r] # "running" PROVE Blocked(r)'
  BY DEF BlockedInv
<1>3. CASE r = p
  <2>1. snapshotId'[p] = id /\ origin'[p] = from
    BY <1>1, <1>2 DEF ControllersOK
  <2>2. from # Operator => from \in Node \ {p} /\ wire'[<<from, p>>] # << >>
    BY <1>1, DrainGrows, ChannelPair DEF Channel
  <2> QED BY <1>3, <2>1, <2>2, NoIdAssumption DEF Blocked, Snapshotting
<1>4. CASE r # p
  <2>1. /\ phase[r] # "running" /\ snapshotId'[r] = snapshotId[r]
        /\ origin'[r] = origin[r]
    BY <1>1, <1>2, <1>4 DEF ControllersOK
  <2>2. Blocked(r)
    BY <2>1 DEF TypeInv, BlockedInv
  <2>3. origin[r] # Operator => wire'[<<origin[r], r>>] # << >>
    BY <1>1, <2>2, DrainGrows, ChannelPair DEF Blocked
  <2> QED BY <2>1, <2>2, <2>3 DEF Blocked, Snapshotting
<1> QED BY <1>3, <1>4

LEMMA StartTypes ==
    ASSUME TypeInv, NEW p \in Node, NEW id \in SnapshotId, Start(p, id)
    PROVE  TypeInv'
<1> USE TypeParts, TypePartsNext DEF TypeInv
<1>1. Begin(p, id, Operator)
  BY DEF Start
<1>2. /\ ChannelsOK' /\ AppsOK' /\ ControllersOK' /\ StoresOK'
      /\ begins' \in [Key -> Nat]
  BY <1>1, BeginTypes
<1>3. BookkeepingOK'
  BY <1>2 DEF Start, BookkeepingOK
<1>4. BlockedInv'
  BY <1>1, BeginBlocks
<1> QED BY <1>2, <1>3, <1>4

LEMMA ReceiveFirstMarkerTypes ==
    ASSUME TypeInv, NEW p \in Node, NEW q \in Node, ReceiveFirstMarker(p, q)
    PROVE  TypeInv'
<1> USE TypeParts, TypePartsNext DEF TypeInv
<1> DEFINE id == Arriving(q, p).id
<1>1. id \in SnapshotId
  BY ArrivingType DEF ReceiveFirstMarker
<1> HIDE DEF id
<1>2. Begin(p, id, q) /\ HasHead(q, p)
  BY DEF ReceiveFirstMarker, id
<1>3. /\ ChannelsOK' /\ AppsOK' /\ ControllersOK' /\ StoresOK'
      /\ begins' \in [Key -> Nat]
  BY <1>1, <1>2, BeginTypes
<1>4. BookkeepingOK'
  BY <1>3 DEF ReceiveFirstMarker, BookkeepingOK
<1>5. BlockedInv'
  BY <1>1, <1>2, BeginBlocks DEF HasHead
<1> QED BY <1>3, <1>4, <1>5

LEMMA TakeImageTypes ==
    ASSUME TypeInv, NEW p \in Node, TakeImage(p) PROVE TypeInv'
<1> USE TypeParts, TypePartsNext DEF TypeInv
<1> DEFINE taken == [taken |-> TRUE,
                     counter |-> counter[p],
                     unread |-> inbox[p],
                     unsent |-> [q \in Node |-> IF q = p THEN 0
                                                ELSE Credits(outbox[<<p, q>>])]]
<1>1. snapshotId[p] \in SnapshotId
  BY DEF TakeImage, BlockedInv, Blocked, Snapshotting, ControllersOK
<1>2. taken \in Image
  <2>1. \A q \in Node : q # p => Credits(outbox[<<p, q>>]) \in Nat
    BY ChannelPair, CreditsType DEF AppsOK
  <2> QED BY <2>1 DEF AppsOK, Image
<1>3. image' = [image EXCEPT ![<<snapshotId[p], p>>] = taken]
  BY DEF TakeImage, Frozen
<1> HIDE DEF taken
<1>4. StoresOK'
  BY <1>1, <1>2, <1>3 DEF TakeImage, StoresOK, Key
<1>5. ControllersOK'
  BY DEF TakeImage, ControllersOK
<1>6. ChannelsOK' /\ AppsOK' /\ BookkeepingOK'
  BY StutterTypes DEF TakeImage
<1>7. BlockedInv'
  BY StaysBlocked DEF TakeImage, channels, ControllersOK
<1> QED BY <1>4, <1>5, <1>6, <1>7

LEMMA CheckpointFailsTypes ==
    ASSUME TypeInv, NEW p \in Node, CheckpointFails(p) PROVE TypeInv'
<1> USE TypeParts, TypePartsNext DEF TypeInv
<1>1. ControllersOK'
  BY DEF CheckpointFails, ControllersOK
<1>2. BookkeepingOK'
  BY Bounds DEF CheckpointFails, BookkeepingOK
<1>3. ChannelsOK' /\ AppsOK' /\ StoresOK'
  BY StutterTypes DEF CheckpointFails
<1>4. BlockedInv'
  BY StaysBlocked DEF CheckpointFails, channels, ControllersOK
<1> QED BY <1>1, <1>2, <1>3, <1>4

LEMMA BroadcastTypes ==
    ASSUME ChannelsOK, AppsOK, NEW p \in Node, Broadcast(p),
           snapshotId[p] \in SnapshotId,
           <<origin[p], p>> \in Channel => wire[<<origin[p], p>>] # << >>
    PROVE  ChannelsOK' /\ outbox' \in [Channel -> Seq(Message)]
<1> DEFINE After(f) == IF origin[p] = Operator THEN outbox[f] ELSE << >>
<1>1. ASSUME NEW f \in Channel
      PROVE  /\ wire[f] \in Seq(Message) /\ outbox[f] \in Seq(Message)
             /\ After(f) \in Seq(Message) /\ Len(After(f)) \in Nat
             /\ sendSeq[f] \in Nat /\ recvSeq[f] \in Nat
             /\ << >> \in Seq(Message)
  BY DEF ChannelsOK, AppsOK
<1>2. Marker(snapshotId[p]) \in Message
  BY MessageTypes
<1>3. ASSUME NEW f \in Channel
      PROVE  /\ Append(wire[f], Marker(snapshotId[p])) \o After(f) \in Seq(Message)
             /\ f = <<origin[p], p>> => Tail(wire[f]) \in Seq(Message)
  <2>1. Append(wire[f], Marker(snapshotId[p])) \in Seq(Message)
    BY <1>1, <1>2, SeqTypes
  <2>2. Append(wire[f], Marker(snapshotId[p])) \o After(f) \in Seq(Message)
    BY <1>1, <2>1, SeqTypes
  <2>3. ASSUME f = <<origin[p], p>> PROVE Tail(wire[f]) \in Seq(Message)
    BY <1>1, <2>3, SeqTypes
  <2> QED BY <2>2, <2>3
<1>4. wire' \in [Channel -> Seq(Message)]
  BY <1>1, <1>3 DEF Broadcast
<1>5. sendSeq' \in [Channel -> Nat] /\ recvSeq' \in [Channel -> Nat]
  BY <1>1 DEF Broadcast
<1>6. outbox' \in [Channel -> Seq(Message)]
  BY <1>1 DEF Broadcast
<1> QED BY <1>4, <1>5, <1>6 DEF ChannelsOK

(* Broadcast takes the head of one channel into p, and appends to those    *)
(* out of p.                                                               *)
LEMMA BroadcastElsewhere ==
    ASSUME ChannelsOK, AppsOK, NEW p \in Node, Broadcast(p),
           NEW f \in Channel, f[2] # p, wire[f] # << >>,
           snapshotId[p] \in SnapshotId
    PROVE  wire'[f] # << >>
<1> DEFINE After == IF origin[p] = Operator THEN outbox[f] ELSE << >>
           m == Marker(snapshotId[p])
<1>1. /\ wire[f] \in Seq(Message) /\ After \in Seq(Message) /\ m \in Message
  BY MessageTypes DEF ChannelsOK, AppsOK
<1>2. wire'[f] = IF f[1] = p THEN Append(wire[f], m) \o After ELSE wire[f]
  BY DEF Broadcast
<1> HIDE DEF After, m
<1>3. Append(wire[f], m) \o After # << >>
  BY <1>1
<1> QED BY <1>2, <1>3

LEMMA CutTypes ==
    ASSUME ChannelsOK, NEW p \in Node, origin[p] # p
    PROVE  /\ SendCut(p) \in [Node -> SeqOrMissing]
           /\ OriginCut(p) \in [Node -> SeqOrMissing]
<1>1. ASSUME NEW q \in Node, q # p
      PROVE  sendSeq[<<p, q>>] + 1 \in Nat /\ recvSeq[<<q, p>>] + 1 \in Nat
  BY <1>1, ChannelPair DEF ChannelsOK
<1>2. SendCut(p) \in [Node -> SeqOrMissing]
  BY <1>1 DEF SendCut, SeqOrMissing
<1>3. OriginCut(p) \in [Node -> SeqOrMissing]
  BY <1>1 DEF OriginCut, SeqOrMissing
<1> QED BY <1>2, <1>3

LEMMA ResumeTypes ==
    ASSUME TypeInv, NEW p \in Node, Resume(p) PROVE TypeInv'
<1> USE TypeParts, TypePartsNext DEF TypeInv
<1>1. Blocked(p) /\ snapshotId[p] \in SnapshotId
  BY DEF Resume, BlockedInv, Blocked, Snapshotting, ControllersOK
<1>2. /\ origin[p] # p
      /\ <<origin[p], p>> \in Channel => wire[<<origin[p], p>>] # << >>
  BY <1>1, OperatorAssumption, ChannelPair DEF Blocked
<1>3. ChannelsOK' /\ outbox' \in [Channel -> Seq(Message)]
  BY <1>1, <1>2, BroadcastTypes DEF Resume
<1>4. /\ SendCut(p) \in [Node -> SeqOrMissing]
      /\ OriginCut(p) \in [Node -> SeqOrMissing]
  BY <1>2, CutTypes
<1>5. phase' \in [Node -> {"running", "posted", "imaged"}]
      /\ origin' \in [Node -> Node \cup {Operator}]
  BY DEF Resume, ControllersOK
<1>6. AppsOK' /\ ControllersOK' /\ StoresOK' /\ failures' \in 0 .. MaxFailure
  <2>1. CASE /\ recordedSend' = [recordedSend EXCEPT ![p] = SendCut(p)]
             /\ recordedRecv' = [recordedRecv EXCEPT ![p] = OriginCut(p)]
             /\ UNCHANGED <<snapshotId, recording, channelState, inbox,
                            artifact, failures>>
    BY <1>3, <1>4, <1>5, <2>1
       DEF Resume, AppsOK, ControllersOK, StoresOK, BookkeepingOK
  <2>2. CASE End(p, "complete", SendCut(p), OriginCut(p), NothingRecorded)
    BY <1>1, <1>3, <1>4, <1>5, <2>2, EndTypes, EmptyTypes
       DEF Resume, AppsOK, ControllersOK, StoresOK
  <2> QED BY <2>1, <2>2 DEF Resume
<1>7. BookkeepingOK'
  BY <1>6 DEF Resume, BookkeepingOK
<1>8. BlockedInv'
  <2>1. \A r \in Node : snapshotId'[r] = snapshotId[r] \/ r = p
    BY DEF Resume, End, FlushAndReset, ForgetCut, ControllersOK
  <2>2. ASSUME NEW r \in Node, phase'[r] # "running"
        PROVE  /\ r # p /\ phase[r] # "running"
               /\ origin'[r] = origin[r]
    BY <2>2 DEF Resume, ControllersOK
  <2>3. Broadcast(p)
    BY DEF Resume
  <2>4. ASSUME NEW r \in Node, r # p, <<origin[r], r>> \in Channel,
               wire[<<origin[r], r>>] # << >>
        PROVE  wire'[<<origin[r], r>>] # << >>
    BY <1>1, <2>3, <2>4, BroadcastElsewhere
  <2> QED BY <2>1, <2>2, <2>4, StaysBlocked
<1> QED BY <1>3, <1>6, <1>7, <1>8

LEMMA ReceiveMarkerTypes ==
    ASSUME TypeInv, NEW p \in Node, NEW q \in Node, ReceiveMarker(p, q)
    PROVE  TypeInv'
<1> USE TypeParts, TypePartsNext DEF TypeInv
<1> DEFINE recv == [recordedRecv[p] EXCEPT ![q] = recvSeq[<<q, p>>] + 1]
<1>1. /\ Running(p) /\ HasHead(q, p) /\ Consume(p, q)
      /\ Arriving(q, p) = Marker(snapshotId[p])
  BY DEF ReceiveMarker
<1>2. snapshotId[p] \in SnapshotId
  <2>1. Arriving(q, p).type = "marker" /\ Arriving(q, p).id = snapshotId[p]
    BY <1>1 DEF Marker
  <2> QED BY <1>1, <2>1, ArrivingType
<1>3. recv \in [Node -> SeqOrMissing]
  <2>1. recvSeq[<<q, p>>] + 1 \in SeqOrMissing
    BY <1>1 DEF HasHead, ChannelsOK, SeqOrMissing
  <2> QED BY <2>1 DEF ControllersOK
<1>4. ChannelsOK'
  BY <1>1, ConsumeTypes
<1>5. /\ AppsOK' /\ ControllersOK' /\ StoresOK'
      /\ failures' \in 0 .. MaxFailure
      /\ \A r \in Node \ {p} : snapshotId'[r] = snapshotId[r]
  <2> HIDE DEF recv
  <2>1. CASE /\ recording' = [recording EXCEPT ![p] = @ \ {q}]
             /\ recordedRecv' = [recordedRecv EXCEPT ![p] = recv]
             /\ UNCHANGED <<snapshotId, channelState, recordedSend, inbox,
                            artifact, failures>>
    BY <1>3, <2>1
       DEF ReceiveMarker, AppsOK, ControllersOK, StoresOK, BookkeepingOK
  <2>2. CASE End(p, "complete", recordedSend[p], recv, channelState[p])
    <3>1. /\ recordedSend[p] \in [Node -> SeqOrMissing]
          /\ channelState[p] \in [Node -> Recorded]
      BY DEF ControllersOK
    <3>2. \A r \in Node \ {p} : snapshotId'[r] = snapshotId[r]
      BY <2>2 DEF End, FlushAndReset, ForgetCut, ControllersOK
    <3> QED BY <1>2, <1>3, <2>2, <3>1, <3>2, EndTypes
            DEF ReceiveMarker, AppsOK, ControllersOK, StoresOK
  <2> QED BY <2>1, <2>2 DEF ReceiveMarker, recv
<1>6. BookkeepingOK'
  BY <1>5 DEF ReceiveMarker, BookkeepingOK
<1>7. BlockedInv'
  BY <1>1, <1>5, ConsumeStaysBlocked DEF ReceiveMarker
<1> QED BY <1>4, <1>5, <1>6, <1>7

LEMMA IgnoreMarkerTypes ==
    ASSUME TypeInv, NEW p \in Node, NEW q \in Node, IgnoreMarker(p, q)
    PROVE  TypeInv'
<1> USE TypeParts, TypePartsNext DEF TypeInv
<1>1. /\ Running(p) /\ HasHead(q, p) /\ Consume(p, q)
      /\ UNCHANGED <<apps, controllers, stores, bookkeeping>>
  BY DEF IgnoreMarker
<1>2. ChannelsOK'
  BY <1>1, ConsumeTypes
<1>3. AppsOK' /\ ControllersOK' /\ StoresOK' /\ BookkeepingOK'
  BY <1>1, StutterTypes
<1>4. BlockedInv'
  BY <1>1, ConsumeStaysBlocked DEF controllers
<1> QED BY <1>2, <1>3, <1>4

LEMMA RecordTypes ==
    ASSUME TypeInv, NEW p \in Node, NEW q \in Node, Record(p, q)
    PROVE  TypeInv'
<1> USE TypeParts, TypePartsNext DEF TypeInv
<1> DEFINE kept == [seq |-> recvSeq[<<q, p>>], msg |-> Arriving(q, p)]
<1>1. Running(p) /\ HasHead(q, p) /\ Consume(p, q)
  BY DEF Record
<1>2. ChannelsOK'
  BY <1>1, ConsumeTypes
<1>3. kept \in [seq : Nat, msg : Message]
  BY <1>1, ArrivingType DEF HasHead, ChannelsOK
<1> HIDE DEF kept
<1>4. Append(channelState[p][q], kept) \in Recorded
  <2>1. channelState[p][q] \in Seq([seq : Nat, msg : Message])
    BY DEF ControllersOK, Recorded
  <2> QED BY <1>3, <2>1, SeqTypes DEF Recorded
<1>5. ControllersOK'
  BY <1>4 DEF Record, ControllersOK, kept
<1>6. AppsOK' /\ StoresOK' /\ BookkeepingOK'
  BY StutterTypes DEF Record
<1>7. BlockedInv'
  BY <1>1, ConsumeStaysBlocked DEF Record
<1> QED BY <1>2, <1>5, <1>6, <1>7

LEMMA DeliverTypes ==
    ASSUME TypeInv, NEW p \in Node, NEW q \in Node, Deliver(p, q)
    PROVE  TypeInv'
<1> USE TypeParts, TypePartsNext DEF TypeInv
<1>1. Running(p) /\ HasHead(q, p) /\ Consume(p, q)
  BY DEF Deliver
<1>2. ChannelsOK'
  BY <1>1, ConsumeTypes
<1>3. AppsOK'
  BY DEF Deliver, AppsOK
<1>4. ControllersOK' /\ StoresOK' /\ BookkeepingOK'
  BY StutterTypes DEF Deliver
<1>5. BlockedInv'
  BY <1>1, ConsumeStaysBlocked DEF Deliver, controllers
<1> QED BY <1>2, <1>3, <1>4, <1>5

LEMMA TimeoutTypes ==
    ASSUME TypeInv, NEW p \in Node, Timeout(p) PROVE TypeInv'
<1> USE TypeParts, TypePartsNext DEF TypeInv
<1>1. /\ Running(p) /\ snapshotId[p] \in SnapshotId
      /\ End(p, "aborted", recordedSend[p], recordedRecv[p], channelState[p])
  BY DEF Timeout, Snapshotting, ControllersOK
<1>2. /\ recordedSend[p] \in [Node -> SeqOrMissing]
      /\ recordedRecv[p] \in [Node -> SeqOrMissing]
      /\ channelState[p] \in [Node -> Recorded]
  BY DEF ControllersOK
<1>3. /\ AppsOK' /\ ControllersOK' /\ StoresOK'
      /\ failures' \in 0 .. MaxFailure
  BY <1>1, <1>2, EndTypes DEF Timeout, AppsOK, ControllersOK, StoresOK
<1>4. earlyTimeouts' \in 0 .. MaxEarly
  BY Bounds DEF Timeout, BookkeepingOK
<1>5. BookkeepingOK'
  BY <1>1, <1>3, <1>4 DEF Timeout, BookkeepingOK
<1>6. ChannelsOK'
  BY StutterTypes DEF Timeout
<1>7. BlockedInv'
  <2>1. \A r \in Node \ {p} : snapshotId'[r] = snapshotId[r]
    BY <1>1 DEF End, FlushAndReset, ForgetCut, ControllersOK
  <2>2. phase[p] = "running" /\ UNCHANGED <<phase, origin, wire>>
    BY <1>1 DEF Running, Timeout, channels
  <2> QED BY <2>1, <2>2, StaysBlocked
<1> QED BY <1>3, <1>5, <1>6, <1>7

LEMMA DieTypes ==
    ASSUME TypeInv, NEW p \in Node, Die(p) PROVE TypeInv'
<1> USE TypeParts, TypePartsNext DEF TypeInv
<1>1. PICK keep \in [Node \ {p} -> UNION {Survives(p, q) : q \in Node \ {p}}] :
          /\ \A q \in Node \ {p} : keep[q] \in Survives(p, q)
          /\ wire' = [f \in Channel |->
                 IF f[1] = p THEN SubSeq(wire[f], 1, keep[f[2]]) ELSE wire[f]]
  BY DEF Die
<1>2. ASSUME NEW f \in Channel, f[1] = p
      PROVE  /\ SubSeq(wire[f], 1, keep[f[2]]) \in Seq(Message)
             /\ phase[f[2]] # "running" /\ origin[f[2]] = p =>
                    SubSeq(wire[f], 1, keep[f[2]]) # << >>
  <2> DEFINE k == keep[f[2]]
  <2>1. f[2] \in Node \ {p} /\ f = <<p, f[2]>> /\ wire[f] \in Seq(Message)
    BY <1>2, ChannelPair DEF ChannelsOK
  <2>2. k \in Arrived(p, f[2]) .. Len(wire[f])
    BY <1>1, <2>1 DEF Survives
  <2>3. Arrived(p, f[2]) \in 0 .. 1 /\ Len(wire[f]) \in Nat
    BY <2>1, LenProperties DEF Arrived
  <2>4. k \in Int /\ k <= Len(wire[f]) /\ Arrived(p, f[2]) <= k
    BY <2>2, <2>3
  <2> HIDE DEF k
  <2>5. \A i \in 1 .. k : wire[f][i] \in Message
    BY <2>1, <2>3, <2>4, ElementOfSeq
  <2>6. /\ SubSeq(wire[f], 1, k) \in Seq(Message)
        /\ Len(SubSeq(wire[f], 1, k)) = IF 1 <= k THEN k ELSE 0
    BY <2>4, <2>5, SubSeqProperties
  <2>7. phase[f[2]] # "running" /\ origin[f[2]] = p => 1 <= k
    BY <2>4 DEF Arrived
  <2>8. 1 <= k => SubSeq(wire[f], 1, k) # << >>
    BY <2>4, <2>6, EmptySeq
  <2> QED BY <2>6, <2>7, <2>8 DEF k
<1>3. ChannelsOK'
  BY <1>1, <1>2 DEF Die, ChannelsOK
<1>4. AppsOK' /\ ControllersOK' /\ StoresOK'
  BY StutterTypes DEF Die
<1>5. BookkeepingOK'
  BY DEF Die, BookkeepingOK
<1>6. BlockedInv'
  <2>1. UNCHANGED <<phase, snapshotId, origin>>
    BY DEF Die, controllers
  <2>2. ASSUME NEW r \in Node, phase[r] # "running",
               <<origin[r], r>> \in Channel, wire[<<origin[r], r>>] # << >>
        PROVE  wire'[<<origin[r], r>>] # << >>
    <3> DEFINE f == <<origin[r], r>>
    <3>1. f \in Channel /\ f[1] = origin[r] /\ f[2] = r
      BY <2>2
    <3>2. CASE f[1] = p
      BY <1>1, <1>2, <2>2, <3>1, <3>2
    <3>3. CASE f[1] # p
      BY <1>1, <2>2, <3>1, <3>3
    <3> QED BY <3>2, <3>3
  <2> QED BY <2>1, <2>2, StaysBlocked
<1> QED BY <1>3, <1>4, <1>5, <1>6

LEMMA StepTypes == TypeInv /\ [Next]_vars => TypeInv'
<1> SUFFICES ASSUME TypeInv, [Next]_vars PROVE TypeInv'
  OBVIOUS
<1>1. CASE UNCHANGED vars
  BY <1>1, TypeParts, TypePartsNext, StutterTypes, StaysBlocked
     DEF vars, channels, controllers, TypeInv
<1>2. CASE Environment
  BY <1>2, TransferTypes, StartTypes, StartIgnoredTypes, DieTypes
     DEF Environment
<1>3. ASSUME NEW p \in Node, Step(p) PROVE TypeInv'
  <2>1. ASSUME NEW q \in Node, ReadCredit(p, q) \/ Receive(p, q)
        PROVE  TypeInv'
    BY <2>1, ReadCreditTypes, ReceiveFirstMarkerTypes, ReceiveMarkerTypes,
       IgnoreMarkerTypes, RecordTypes, DeliverTypes DEF Receive
  <2>2. CASE Forward(p) \/ TakeImage(p) \/ CheckpointFails(p) \/ Resume(p)
             \/ Timeout(p)
    BY <2>2, ForwardTypes, TakeImageTypes, CheckpointFailsTypes, ResumeTypes,
       TimeoutTypes
  <2> QED BY <1>3, <2>1, <2>2 DEF Step
<1> QED BY <1>1, <1>2, <1>3 DEF Next

LEMMA TypeInvariance == Spec => []TypeInv
<1>1. Init => TypeInv
  BY InitTypes
<1>2. TypeInv /\ [Next]_vars => TypeInv'
  BY StepTypes
<1> QED BY <1>1, <1>2, PTL DEF Spec

(* Every variable of Snapshot keeps its type.                              *)
THEOREM SnapshotTypeCorrect == Spec => []TypeOK
<1>1. TypeInv => TypeOK
  BY DEF TypeInv
<1> QED BY <1>1, TypeInvariance, PTL

(* A controller blocked in the checkpoint POST is in a snapshot, and the   *)
(* marker that began it is not consumed before the handler returns         *)
(* (datagram_received advances recv_seq after process_and_deliver).        *)
THEOREM BlockedHoldsMarker == Spec => []BlockedInv
<1>1. TypeInv => BlockedInv
  BY DEF TypeInv
<1> QED BY <1>1, TypeInvariance, PTL
=============================================================================
