------------------------- MODULE CounterClientProofs -------------------------
(***************************************************************************)
(* The verdict of `counter.py sum`, for every finite set of servers, every *)
(* bound and every history of the restore it follows: with enough stable   *)
(* polls, PASS means that the whole mesh is up and holds all credit.       *)
(*                                                                         *)
(* The argument: suppose the mesh can still come to counters g that add up *)
(* to less than the total.  A poll reads, from some servers, at most what  *)
(* g gives these servers.  If it was good, then the servers it read from   *)
(* have more in g than all servers have once each; so it read late answers *)
(* and left others on their way, from servers that have less.  From good   *)
(* poll to good poll what is on its way weighs less: it is never twice the *)
(* same, and there are only so many ways to be on the way.                 *)
(***************************************************************************)
EXTENDS CounterClient, RestoreProofs

Request == [id : 0 .. MaxGiveUp, to : Node]
Answer  == [id : 0 .. MaxGiveUp, from : Node, counter : Int]

(* How often each server is asked by what is on its way: requests req and  *)
(* replies rep.                                                            *)
Ids(req, rep, p) ==
    {i \in 0 .. MaxGiveUp : \/ \E r \in req : r.id = i /\ r.to = p
                            \/ \E r \in rep : r.id = i /\ r.from = p}

OnWay(req, rep) == [p \in Node |-> Cardinality(Ids(req, rep, p))]

Taken(req, rep) ==
    {i \in 0 .. MaxGiveUp : (\E r \in req : r.id = i) \/ (\E r \in rep : r.id = i)}

Distinct(req, rep) ==
    /\ \A r, s \in req : r.id = s.id => r = s
    /\ \A r, s \in rep : r.id = s.id => r = s
    /\ \A r \in req, s \in rep : r.id # s.id

(* The ways m late requests can be spread over the servers.                *)
Strays(m) == {b \in [Node -> 0 .. m] : SumFunction(b) = m}

(* What b brings if every server gives what it has in g.                   *)
Weight(g, b) == SumFunction([p \in Node |-> g[p] * b[p]])

Above(m, g, b) == {c \in Strays(m) : Weight(g, c) > Weight(g, b)}

(* Counters that lack credit and that the mesh may still come to.          *)
Shortfalls == {g \in [Node -> Int] : /\ SumFunction(g) < Total
                                     /\ \A p \in Node : Up(p) => counter[p] <= g[p]}

(* b and one more to h.                                                    *)
Plus(b, h) == [p \in Node |-> b[p] + IF p = h THEN 1 ELSE 0]

(* b and a request to each of the first n servers.                         *)
Begun(b, n) ==
    [p \in Node |-> b[p] + IF \E i \in 1 .. n : Host[i] = p THEN 1 ELSE 0]

(* The running poll began with b on its way.  Every good poll before it    *)
(* began with more, and this one has not read more than it made lighter.   *)
BeganWith(g, b) ==
    /\ stable <= Cardinality(Above(gaveUp, g, b))
    /\ SumFunction(answers) + Weight(g, OnWay(requests, replies))
       <= Weight(g, Begun(b, Len(answers) + 1))

AllAnswered(poll) == \A i \in DOMAIN poll : poll[i] # NoAnswer

StreakInv ==
    AllAnswered(answers) =>
        \A g \in Shortfalls : \E b \in Strays(gaveUp) : BeganWith(g, b)

(* The m that are on their way can be told apart.                          *)
Left(req, rep, m) ==
    /\ Distinct(req, rep)
    /\ Cardinality(Taken(req, rep)) = m
    /\ SumFunction(OnWay(req, rep)) = m

(* A request given up stays on its way or has its answer read for another. *)
WayInv ==
    /\ Left(requests, replies, gaveUp + 1)
    /\ \A r \in replies : Up(r.from) /\ r.counter <= counter[r.from]

(* Every server's fresh sidecar is started before the script is done.      *)
StartedInv ==
    \A p \in Node :
        TheStep = "done" \/ (TheStep = "starting" /\ p \notin TheTodo) =>
            sidecar[p] \in {"starting", "restored"}

ClientTypeOK ==
    /\ sum \in {"idle", "polling", "PASS", "FAIL"}
    /\ answers \in Seq(Int \cup {NoAnswer})
    /\ stable \in Nat /\ polls \in Nat
    /\ gaveUp \in 0 .. MaxGiveUp
    /\ requests \in SUBSET Request
    /\ replies \in SUBSET Answer

ClientInv ==
    /\ ClientTypeOK
    /\ StartedInv
    /\ sum = "idle" => /\ requests = {} /\ replies = {} /\ answers = << >>
                       /\ stable = 0 /\ gaveUp = 0
    /\ sum # "idle" => TheStep = "done"
    /\ sum = "polling" => Len(answers) < Len(Host) /\ WayInv /\ StreakInv
    /\ sum = "PASS" => Shortfalls = {}

-----------------------------------------------------------------------------
(* The mesh while the operator waits: no server goes down and no counter   *)
(* goes down.                                                              *)

LEMMA StartedStep ==
    ASSUME Script = {Node}, LinkTypeOK, StartedInv, [Next]_vars
    PROVE  StartedInv'
<1> SUFFICES ASSUME NEW p \in Node,
                    TheStep' = "done" \/ (TheStep' = "starting" /\ p \notin TheTodo')
             PROVE  sidecar'[p] \in {"starting", "restored"}
  BY DEF StartedInv
<1> DEFINE Started == TheStep = "done" \/ (TheStep = "starting" /\ p \notin TheTodo)
<1>0. Started => sidecar[p] \in {"starting", "restored"}
  BY DEF StartedInv
<1>1. sidecar \in [Node -> {"old", "none", "starting", "restored"}]
      /\ step \in [Script -> {"idle", "stopping", "restoring", "starting", "done",
                              "failed"}]
      /\ todo \in [Script -> SUBSET Node] /\ Node \in Script
  BY DEF LinkTypeOK
<1>2. CASE /\ UNCHANGED <<step, todo>>
           /\ \/ UNCHANGED sidecar
              \/ \E q \in Node : sidecar' = [sidecar EXCEPT ![q] = "restored"]
  BY <1>0, <1>1, <1>2 DEF TheStep, TheTodo
<1>3. CASE \E f \in Channel : Transfer(f)
  BY <1>2, <1>3 DEF Transfer, scripts
<1>4. CASE \E f \in Channel : \E n \in unacked[f] : Receive(f, n)
  BY <1>2, <1>4 DEF Receive, scripts
<1>5. CASE \E q \in Node : LoadArtifact(q) \/ LoadFails(q)
  BY <1>2, <1>5 DEF LoadArtifact, LoadFails, scripts
<1>6. CASE UNCHANGED vars
  BY <1>2, <1>6 DEF vars, containers, scripts
<1>7. CASE RunRestore(Node)
  BY <1>1, <1>7 DEF RunRestore, TheStep
<1>8. ASSUME NEW q \in Node, Stop(Node, q) \/ StopFails(Node, q) PROVE FALSE
  BY <1>1, <1>8 DEF Stop, StopFails, Advance, TheStep, TheTodo
<1>9. CASE \E q \in Node : RestoreApp(Node, q)
  BY <1>1, <1>9 DEF RestoreApp, Advance, TheStep, TheTodo
<1>10. CASE \E q \in Node : RestoreFails(Node, q) \/ RunSidecarFails(Node, q)
  BY <1>1, <1>10 DEF RestoreFails, RunSidecarFails, Abort, TheStep, TheTodo
<1>11. CASE \E q \in Node : RunSidecar(Node, q)
  BY <1>0, <1>1, <1>11 DEF RunSidecar, Advance, TheStep, TheTodo
<1> QED BY <1>3, <1>4, <1>5, <1>6, <1>7, <1>8, <1>9, <1>10, <1>11
        DEF Next, ScriptStep

LEMMA MeshQuiet ==
    ASSUME Script = {Node}, LinkTypeOK, CreditTypeOK, StartedInv, TheStep = "done",
           Next, UNCHANGED <<transfers, runs>>
    PROVE  /\ TheStep' = "done"
           /\ \A p \in Node : counter[p] <= counter'[p] /\ (Up(p) => Up(p)')
<1> DEFINE Quiet == /\ step' = step
                    /\ \A p \in Node : counter[p] <= counter'[p] /\ (Up(p) => Up(p)')
<1>1. /\ counter \in [Node -> Int] /\ recvSeq \in [Channel -> Nat] /\ transfers \in Nat
      /\ runs \in [Script -> Nat] /\ Node \in Script
      /\ sidecar \in [Node -> {"old", "none", "starting", "restored"}]
  BY DEF LinkTypeOK, CreditTypeOK
<1>2. ASSUME NEW f \in Channel, Transfer(f) PROVE FALSE
  BY <1>1, <1>2 DEF Transfer
<1>3. ASSUME NEW f \in Channel, NEW n \in unacked[f], Receive(f, n) PROVE Quiet
  <2>1. UNCHANGED <<step, sidecar>>
    BY <1>3 DEF Receive, scripts
  <2>2. CASE DeliverInOrder(f, n)
    <3>1. n \in Nat /\ f[2] \in Node
      BY <2>2, <1>1, ChannelEnds DEF DeliverInOrder
    <3>2. PICK stop \in n + 1 .. n + 1 + Cardinality(recvBuffer[f]) :
              counter' = [counter EXCEPT ![f[2]] = @ + (stop - n)]
      BY <2>2 DEF DeliverInOrder
    <3>3. stop \in Int /\ n + 1 <= stop
      BY <3>1, <3>2
    <3> QED BY <1>1, <2>1, <3>1, <3>2, <3>3 DEF Up
  <2>3. CASE counter' = counter
    BY <1>1, <2>1, <2>3 DEF Up
  <2> QED BY <1>3, <2>2, <2>3 DEF Receive, BufferFuture, DropStale
<1>4. ASSUME RunRestore(Node) PROVE FALSE
  BY <1>1, <1>4 DEF RunRestore
<1>5. ASSUME ScriptStep(Node) PROVE FALSE
  BY <1>5 DEF ScriptStep, Stop, StopFails, RestoreApp, RestoreFails, RunSidecar,
              RunSidecarFails, TheStep
<1>6. ASSUME NEW q \in Node, LoadArtifact(q) \/ LoadFails(q) PROVE Quiet
  <2>1. step' = step /\ sidecar' = [sidecar EXCEPT ![q] = "restored"]
    BY <1>6 DEF LoadArtifact, LoadFails, scripts
  <2>2. PICK R \in Nat : R = SumFunctionOnSet(recorded, In(q))
    BY RecordedIn
  <2>3. CASE \E n \in Nat : counter' = [counter EXCEPT ![q] = @ + n]
    BY <1>1, <2>1, <2>3 DEF Up
  <2>4. CASE counter' = counter
    BY <1>1, <2>1, <2>4 DEF Up
  <2>5. CASE LoadArtifact(q)
    BY <2>2, <2>3, <2>5 DEF LoadArtifact
  <2>6. CASE LoadFails(q) /\ counter' # counter
    <3>1. PICK n \in 0 .. R - 1 : counter' = [counter EXCEPT ![q] = @ + n]
      BY <2>2, <2>6 DEF LoadFails
    <3>2. n \in Nat
      BY <3>1
    <3> QED BY <2>3, <3>1, <3>2
  <2> QED BY <1>6, <2>4, <2>5, <2>6
<1>7. Quiet
  <2> HIDE DEF Quiet
  <2> QED BY <1>2, <1>3, <1>4, <1>5, <1>6 DEF Next
<1> QED BY <1>7 DEF TheStep

-----------------------------------------------------------------------------
(* What is on its way.                                                     *)

LEMMA SlotsFinite ==
    /\ IsFiniteSet(0 .. MaxGiveUp)
    /\ Cardinality(0 .. MaxGiveUp) = MaxGiveUp + 1
    /\ \A I \in SUBSET (0 .. MaxGiveUp) : IsFiniteSet(I) /\ Cardinality(I) \in Nat
<1>1. MaxGiveUp \in Nat
  BY PollAssumption
<1>2. IsFiniteSet(0 .. MaxGiveUp) /\ Cardinality(0 .. MaxGiveUp) = MaxGiveUp + 1
  BY <1>1, FS_Interval
<1> QED BY <1>2, FS_Subset, FS_CardinalityType

LEMMA OnWayType ==
    ASSUME NEW req, NEW rep
    PROVE  /\ OnWay(req, rep) \in [Node -> Nat]
           /\ Taken(req, rep) \in SUBSET (0 .. MaxGiveUp)
           /\ \A p : Ids(req, rep, p) \in SUBSET (0 .. MaxGiveUp)
<1>1. /\ Taken(req, rep) \in SUBSET (0 .. MaxGiveUp)
      /\ \A p : Ids(req, rep, p) \in SUBSET (0 .. MaxGiveUp)
  BY DEF Taken, Ids
<1> QED BY <1>1, SlotsFinite DEF OnWay

LEMMA OneMore ==
    ASSUME NEW I \in SUBSET (0 .. MaxGiveUp), NEW i, i \notin I
    PROVE  Cardinality(I \cup {i}) = Cardinality(I) + 1
<1>1. IsFiniteSet(I)
  BY SlotsFinite
<1> QED BY <1>1, FS_AddElement

(* The next request, to h.                                                 *)
Query(req, rep, h) == [id |-> Free(req \cup rep), to |-> h]

LEMMA AskAdds ==
    ASSUME NEW req \in SUBSET Request, NEW rep \in SUBSET Answer, Distinct(req, rep),
           Cardinality(Taken(req, rep)) <= MaxGiveUp, NEW h \in Node,
           NEW new, new = [id |-> Free(req \cup rep), to |-> h]
    PROVE  /\ new \in Request /\ Distinct(req \cup {new}, rep)
           /\ Cardinality(Taken(req \cup {new}, rep)) = Cardinality(Taken(req, rep)) + 1
           /\ OnWay(req \cup {new}, rep) = Plus(OnWay(req, rep), h)
<1>1. PICK i \in 0 .. MaxGiveUp : i \notin Taken(req, rep)
  <2>1. Taken(req, rep) # 0 .. MaxGiveUp
    BY SlotsFinite, PollAssumption
  <2> QED BY <2>1, OnWayType
<1>2. \A r \in req \cup rep : r.id # i
  BY <1>1 DEF Taken
<1>3. /\ Free(req \cup rep) \in 0 .. MaxGiveUp
      /\ \A r \in req \cup rep : r.id # Free(req \cup rep)
  BY <1>2 DEF Free
<1>4. PICK j \in 0 .. MaxGiveUp : j = Free(req \cup rep)
  BY <1>3
<1>5. /\ new \in Request /\ new.id = j /\ new.to = h
      /\ \A r \in req \cup rep : r.id # j
  BY <1>3, <1>4 DEF Request
<1>6. Distinct(req \cup {new}, rep)
  BY <1>5 DEF Distinct
<1>7. PICK req2 : req2 = req \cup {new}
  OBVIOUS
<1>8. /\ j \notin Taken(req, rep)
      /\ Taken(req2, rep) = Taken(req, rep) \cup {j}
      /\ Ids(req2, rep, h) = Ids(req, rep, h) \cup {j}
      /\ \A p \in Node \ {h} : Ids(req2, rep, p) = Ids(req, rep, p)
  BY <1>5, <1>7 DEF Taken, Ids
<1>9. Cardinality(Taken(req2, rep)) = Cardinality(Taken(req, rep)) + 1
  BY <1>8, OnWayType, OneMore
<1>10. OnWay(req2, rep)[h] = OnWay(req, rep)[h] + 1
  <2>1. j \notin Ids(req, rep, h)
    BY <1>8 DEF Ids, Taken
  <2>2. Cardinality(Ids(req, rep, h) \cup {j}) = Cardinality(Ids(req, rep, h)) + 1
    BY <2>1, OnWayType, OneMore
  <2> QED BY <1>8, <2>2 DEF OnWay
<1>11. \A p \in Node \ {h} : OnWay(req2, rep)[p] = OnWay(req, rep)[p]
  BY <1>8 DEF OnWay
<1>12. OnWay(req2, rep) = Plus(OnWay(req, rep), h)
  BY <1>10, <1>11, OnWayType DEF Plus
<1> QED BY <1>5, <1>6, <1>7, <1>9, <1>12

LEMMA ReadRemoves ==
    ASSUME NEW req \in SUBSET Request, NEW rep \in SUBSET Answer, Distinct(req, rep),
           NEW r \in rep
    PROVE  /\ Distinct(req, rep \ {r}) /\ r.from \in Node
           /\ Cardinality(Taken(req, rep)) = Cardinality(Taken(req, rep \ {r})) + 1
           /\ OnWay(req, rep) = Plus(OnWay(req, rep \ {r}), r.from)
<1>1. PICK i \in 0 .. MaxGiveUp, h \in Node : r.id = i /\ r.from = h
  BY DEF Answer
<1>2. Distinct(req, rep \ {r})
  BY DEF Distinct
<1>3. \A s \in req \cup (rep \ {r}) : s.id # i
  BY <1>1 DEF Distinct
<1>4. PICK less : less = rep \ {r}
  OBVIOUS
<1>5. /\ i \notin Taken(req, less)
      /\ Taken(req, rep) = Taken(req, less) \cup {i}
      /\ Ids(req, rep, h) = Ids(req, less, h) \cup {i}
      /\ \A p \in Node \ {h} : Ids(req, rep, p) = Ids(req, less, p)
  BY <1>1, <1>3, <1>4 DEF Taken, Ids
<1>6. Cardinality(Taken(req, rep)) = Cardinality(Taken(req, less)) + 1
  BY <1>5, OnWayType, OneMore
<1>7. OnWay(req, rep)[h] = OnWay(req, less)[h] + 1
  <2>1. i \notin Ids(req, less, h)
    BY <1>5 DEF Ids, Taken
  <2>2. Cardinality(Ids(req, less, h) \cup {i}) = Cardinality(Ids(req, less, h)) + 1
    BY <2>1, OnWayType, OneMore
  <2> QED BY <1>5, <2>2 DEF OnWay
<1>8. \A p \in Node \ {h} : OnWay(req, rep)[p] = OnWay(req, less)[p]
  BY <1>5 DEF OnWay
<1>9. OnWay(req, rep) = Plus(OnWay(req, less), h)
  BY <1>7, <1>8, OnWayType DEF Plus
<1> QED BY <1>1, <1>2, <1>4, <1>6, <1>9

LEMMA ReplyMoves ==
    ASSUME NEW req \in SUBSET Request, NEW rep \in SUBSET Answer, Distinct(req, rep),
           NEW r \in req, NEW c \in Int,
           NEW new, new = [id |-> r.id, from |-> r.to, counter |-> c]
    PROVE  /\ new \in Answer /\ Distinct(req \ {r}, rep \cup {new})
           /\ Taken(req \ {r}, rep \cup {new}) = Taken(req, rep)
           /\ OnWay(req \ {r}, rep \cup {new}) = OnWay(req, rep)
<1>1. r.id \in 0 .. MaxGiveUp /\ r.to \in Node
  BY DEF Request
<1>2. new \in Answer /\ new.id = r.id /\ new.from = r.to
  BY <1>1 DEF Answer
<1>3. Distinct(req \ {r}, rep \cup {new})
  BY <1>2 DEF Distinct
<1>4. Taken(req \ {r}, rep \cup {new}) = Taken(req, rep)
  BY <1>2 DEF Distinct, Taken
<1>5. \A p \in Node : Ids(req \ {r}, rep \cup {new}, p) = Ids(req, rep, p)
  BY <1>2 DEF Distinct, Ids
<1> QED BY <1>2, <1>3, <1>4, <1>5 DEF OnWay

-----------------------------------------------------------------------------
(* The weight of what is on its way.                                       *)

LEMMA WeightType ==
    ASSUME NEW g \in [Node -> Int], NEW b \in [Node -> Nat]
    PROVE  /\ [p \in Node |-> g[p] * b[p]] \in [Node -> Int]
           /\ Weight(g, b) \in Int
<1>1. \A p \in Node : g[p] \in Int /\ b[p] \in Int
  OBVIOUS
<1>2. \A x, y \in Int : x * y \in Int
  OBVIOUS
<1>3. [p \in Node |-> g[p] * b[p]] \in [Node -> Int]
  BY <1>1, <1>2
<1> QED BY <1>3, NodeAssumption, SumType DEF Weight

LEMMA WeightOneMore ==
    ASSUME NEW g \in [Node -> Int], NEW b \in [Node -> Nat], NEW h \in Node
    PROVE  /\ Plus(b, h) \in [Node -> Nat]
           /\ Weight(g, Plus(b, h)) = Weight(g, b) + g[h]
           /\ SumFunction(Plus(b, h)) = SumFunction(b) + 1
<1> DEFINE b2 == Plus(b, h)
           w == [p \in Node |-> g[p] * b[p]]
           w2 == [p \in Node |-> g[p] * b2[p]]
<1>1. b2 \in [Node -> Nat] /\ b2[h] = b[h] + 1 /\ \A p \in Node \ {h} : b2[p] = b[p]
  BY DEF Plus
<1>2. w[h] = g[h] * b[h] /\ w2[h] = g[h] * b2[h]
      /\ \A p \in Node \ {h} : w2[p] = w[p]
  BY <1>1
<1>3. w2[h] = w[h] + g[h]
  <2>1. PICK x, y \in Int : x = g[h] /\ y = b[h]
    OBVIOUS
  <2>2. x * (y + 1) = x * y + x
    BY ONLY x \in Int, y \in Int
  <2> QED BY <1>1, <1>2, <2>1, <2>2
<1>4. w \in [Node -> Int] /\ w2 \in [Node -> Int]
  BY <1>1, WeightType
<1>5. Weight(g, b) = SumFunction(w) /\ Weight(g, b2) = SumFunction(w2)
  BY DEF Weight
<1>6. b \in [Node -> Int] /\ b2 \in [Node -> Int]
  BY <1>1
<1> HIDE DEF b2, w, w2
<1>7. SumFunction(w2) = SumFunction(w) - w[h] + w2[h]
  BY <1>2, <1>4, NodeAssumption, SumUpdate
<1>8. SumFunction(b2) = SumFunction(b) - b[h] + b2[h]
  BY <1>1, <1>6, NodeAssumption, SumUpdate
<1>9. /\ SumFunction(w) \in Int /\ SumFunction(b) \in Int
      /\ w[h] \in Int /\ b[h] \in Int /\ g[h] \in Int
  BY <1>4, <1>6, NodeAssumption, SumType
<1>10. Weight(g, b2) = Weight(g, b) + g[h]
  BY <1>3, <1>5, <1>7, <1>9
<1>11. SumFunction(b2) = SumFunction(b) + 1
  BY <1>1, <1>8, <1>9
<1> QED BY <1>1, <1>10, <1>11 DEF b2

LEMMA IsStray ==
    ASSUME NEW m \in Nat, NEW o \in [Node -> Nat], SumFunction(o) = m
    PROVE  o \in Strays(m)
<1>1. ASSUME NEW p \in Node PROVE o[p] <= m
  <2>1. PICK k : k = [o EXCEPT ![p] = 0]
    OBVIOUS
  <2>2. k \in [Node -> Nat] /\ k[p] = 0 /\ \A q \in Node \ {p} : k[q] = o[q]
    BY <2>1
  <2>3. k \in [Node -> Int] /\ o \in [Node -> Int]
    BY <2>2
  <2>4. SumFunction(k) = SumFunction(o) - o[p] + k[p]
    BY <2>2, <2>3, NodeAssumption, SumUpdate
  <2>5. SumFunction(k) \in Nat
    BY <2>2, NodeAssumption, SumNat
  <2> QED BY <2>2, <2>4, <2>5
<1>2. o \in [Node -> 0 .. m]
  BY <1>1
<1> QED BY <1>2 DEF Strays

LEMMA StraysFinite ==
    ASSUME NEW m \in Nat
    PROVE  IsFiniteSet(Strays(m))
<1> DEFINE Graph(b) == {q \in Node \X (0 .. m) : b[q[1]] = q[2]}
           graph == [b \in Strays(m) |-> Graph(b)]
<1>1. IsFiniteSet(Node \X (0 .. m))
  <2>1. IsFiniteSet(0 .. m)
    BY FS_Interval
  <2> QED BY <2>1, NodeAssumption, FS_Product
<1>2. IsFiniteSet(SUBSET (Node \X (0 .. m)))
  BY <1>1, FS_SUBSET
<1>3. ASSUME NEW b \in Strays(m), NEW c \in Strays(m), Graph(b) = Graph(c)
      PROVE  b = c
  <2>1. b \in [Node -> 0 .. m] /\ c \in [Node -> 0 .. m]
    BY DEF Strays
  <2>2. ASSUME NEW p \in Node PROVE b[p] = c[p]
    <3>1. <<p, b[p]>> \in Node \X (0 .. m)
      BY <2>1
    <3>2. <<p, b[p]>> \in Graph(b)
      BY <3>1
    <3>3. <<p, b[p]>> \in Graph(c)
      BY <1>3, <3>2
    <3> QED BY <3>3
  <2> QED BY <2>1, <2>2
<1>4. graph \in Injection(Strays(m), SUBSET (Node \X (0 .. m)))
  BY <1>3 DEF Injection, IsInjective
<1> QED BY <1>2, <1>4, FS_Injection

(* Everything that was heavier than b, and b itself, is heavier than o.    *)
LEMMA LighterRanks ==
    ASSUME NEW m \in Nat, NEW g \in [Node -> Int], NEW b \in Strays(m),
           NEW o \in Strays(m), Weight(g, o) < Weight(g, b)
    PROVE  /\ Cardinality(Above(m, g, b)) + 1 <= Cardinality(Above(m, g, o))
           /\ Cardinality(Above(m, g, o)) < Cardinality(Strays(m))
           /\ Cardinality(Above(m, g, b)) \in Nat
           /\ Cardinality(Above(m, g, o)) \in Nat
           /\ Cardinality(Strays(m)) \in Nat
<1> DEFINE B == Above(m, g, b)
           O == Above(m, g, o)
<1>1. ASSUME NEW c \in Strays(m) PROVE Weight(g, c) \in Int
  <2>1. c \in [Node -> Nat]
    BY DEF Strays
  <2> QED BY <2>1, WeightType
<1>2. /\ b \notin B /\ B \cup {b} \subseteq O
      /\ o \notin O /\ O \cup {o} \subseteq Strays(m)
  BY <1>1 DEF Above
<1>3. IsFiniteSet(Strays(m)) /\ IsFiniteSet(O) /\ IsFiniteSet(B)
  <2>1. O \subseteq Strays(m) /\ B \subseteq Strays(m)
    BY DEF Above
  <2> QED BY <2>1, StraysFinite, FS_Subset
<1> HIDE DEF B, O
<1>4. /\ Cardinality(B) \in Nat /\ Cardinality(O) \in Nat
      /\ Cardinality(Strays(m)) \in Nat
  BY <1>3, FS_CardinalityType
<1>5. Cardinality(B \cup {b}) = Cardinality(B) + 1
      /\ Cardinality(O \cup {o}) = Cardinality(O) + 1
  BY <1>2, <1>3, FS_AddElement
<1>6. Cardinality(B \cup {b}) <= Cardinality(O)
      /\ Cardinality(O \cup {o}) <= Cardinality(Strays(m))
  BY <1>2, <1>3, FS_Subset
<1> QED BY <1>4, <1>5, <1>6 DEF B, O

-----------------------------------------------------------------------------
(* The requests of one poll.                                               *)

LEMMA HostOrder ==
    /\ Len(Host) \in Nat \ {0} /\ Len(Host) = Cardinality(Node)
    /\ Host \in [1 .. Len(Host) -> Node]
    /\ \A i, j \in 1 .. Len(Host) : Host[i] = Host[j] => i = j
    /\ \A p \in Node : \E i \in 1 .. Len(Host) : Host[i] = p
<1>1. PICK n \in Nat : n = Cardinality(Node)
  BY NodeAssumption, FS_CardinalityType
<1>2. /\ Host \in [1 .. n -> Node]
      /\ \A i, j \in 1 .. n : Host[i] = Host[j] => i = j
      /\ \A p \in Node : \E i \in 1 .. n : Host[i] = p
  BY <1>1, HostAssumption DEF Bijection, Injection, Surjection, IsInjective
<1>3. Len(Host) = n
  BY <1>2
<1>4. n # 0
  BY <1>2, HostAssumption
<1> QED BY <1>1, <1>2, <1>3, <1>4

LEMMA BegunNext ==
    ASSUME NEW b \in [Node -> Nat], NEW n \in 0 .. Len(Host) - 1
    PROVE  /\ Begun(b, n) \in [Node -> Nat]
           /\ Begun(b, n + 1) = Plus(Begun(b, n), Host[n + 1])
<1>1. PICK N \in Nat : N = Len(Host) /\ n \in Nat /\ n + 1 \in 1 .. N
  BY HostOrder
<1>2. Host[n + 1] \in Node
  BY <1>1, HostOrder
<1>3. Begun(b, n) \in [Node -> Nat] /\ Begun(b, n + 1) \in [Node -> Nat]
  BY DEF Begun
<1>4. ~ \E i \in 1 .. n : Host[i] = Host[n + 1]
  BY <1>1, HostOrder
<1>5. \A i : i \in 1 .. n + 1 <=> i \in 1 .. n \/ i = n + 1
  BY <1>1
<1>6. Begun(b, n + 1)[Host[n + 1]] = Begun(b, n)[Host[n + 1]] + 1
  BY <1>1, <1>2, <1>4, <1>5 DEF Begun
<1>7. ASSUME NEW p \in Node, p # Host[n + 1]
      PROVE  Begun(b, n + 1)[p] = Begun(b, n)[p]
  BY <1>5, <1>7 DEF Begun
<1>8. PICK h \in Node, u, v \in [Node -> Nat] :
          h = Host[n + 1] /\ u = Begun(b, n) /\ v = Begun(b, n + 1)
  BY <1>2, <1>3
<1>9. v[h] = u[h] + 1 /\ \A p \in Node \ {h} : v[p] = u[p]
  BY <1>6, <1>7, <1>8
<1>10. v = Plus(u, h)
  <2>1. \A p \in Node : v[p] = u[p] + IF p = h THEN 1 ELSE 0
    BY <1>9
  <2> QED BY <2>1 DEF Plus
<1> QED BY <1>8, <1>10

LEMMA BegunNone ==
    ASSUME NEW b \in [Node -> Nat]
    PROVE  Begun(b, 0) = b
BY DEF Begun

LEMMA BegunAll ==
    ASSUME NEW g \in [Node -> Int], NEW b \in [Node -> Nat]
    PROVE  Weight(g, Begun(b, Len(Host))) = Weight(g, b) + SumFunction(g)
<1> DEFINE a == Begun(b, Len(Host))
           w == [p \in Node |-> g[p] * b[p]]
           w2 == [p \in Node |-> g[p] * a[p]]
<1>1. a \in [Node -> Nat] /\ \A p \in Node : a[p] = b[p] + 1
  BY HostOrder DEF Begun
<1> HIDE DEF a
<1>2. ASSUME NEW p \in Node PROVE w2[p] = w[p] + g[p]
  <2>1. PICK x, y \in Int : x = g[p] /\ y = b[p]
    OBVIOUS
  <2>2. x * (y + 1) = x * y + x
    BY ONLY x \in Int, y \in Int
  <2> QED BY <1>1, <2>1, <2>2
<1>3. w \in [Node -> Int] /\ w2 \in [Node -> Int]
  BY <1>1, WeightType
<1>4. Weight(g, b) = SumFunction(w) /\ Weight(g, a) = SumFunction(w2)
  BY DEF Weight
<1> HIDE DEF w, w2
<1>5. SumFunction(w2) = SumFunction(w) + SumFunction(g)
  BY <1>2, <1>3, NodeAssumption, SumAdd
<1> QED BY <1>4, <1>5 DEF a

-----------------------------------------------------------------------------
(* The steps of the client.                                                *)

LEMMA AskKeeps ==
    ASSUME NEW req \in SUBSET Request, NEW rep \in SUBSET Answer,
           NEW m \in 0 .. MaxGiveUp, Left(req, rep, m), NEW h \in Node
    PROVE  /\ Query(req, rep, h) \in Request
           /\ Left(req \cup {Query(req, rep, h)}, rep, m + 1)
           /\ OnWay(req \cup {Query(req, rep, h)}, rep) = Plus(OnWay(req, rep), h)
<1> PICK new : new = Query(req, rep, h)
  OBVIOUS
<1>1. /\ m \in Nat /\ m <= MaxGiveUp /\ MaxGiveUp \in Nat
      /\ Distinct(req, rep) /\ Cardinality(Taken(req, rep)) = m
      /\ SumFunction(OnWay(req, rep)) = m
  BY PollAssumption DEF Left
<1>2. Cardinality(Taken(req, rep)) <= MaxGiveUp
  BY <1>1
<1>3. /\ new \in Request /\ Distinct(req \cup {new}, rep)
      /\ Cardinality(Taken(req \cup {new}, rep)) = Cardinality(Taken(req, rep)) + 1
      /\ OnWay(req \cup {new}, rep) = Plus(OnWay(req, rep), h)
  BY <1>1, <1>2, AskAdds DEF Query
<1>4. PICK o \in [Node -> Nat] : o = OnWay(req, rep)
  BY OnWayType
<1>5. SumFunction(Plus(o, h)) = SumFunction(o) + 1
  <2>1. PICK g \in [Node -> Int] : TRUE
    <3>1. [p \in Node |-> 0] \in [Node -> Int]
      OBVIOUS
    <3> QED BY <3>1
  <2> QED BY WeightOneMore
<1> QED BY <1>1, <1>3, <1>4, <1>5 DEF Left

LEMMA ReadLeaves ==
    ASSUME NEW req \in SUBSET Request, NEW rep \in SUBSET Answer, NEW m \in Nat,
           Left(req, rep, m + 1), NEW r \in rep
    PROVE  /\ Left(req, rep \ {r}, m) /\ r.from \in Node
           /\ \A g \in [Node -> Int] :
                  Weight(g, OnWay(req, rep)) = Weight(g, OnWay(req, rep \ {r})) + g[r.from]
<1>1. PICK h \in Node : h = r.from
  BY DEF Answer
<1>2. /\ Distinct(req, rep \ {r})
      /\ Cardinality(Taken(req, rep)) = Cardinality(Taken(req, rep \ {r})) + 1
      /\ OnWay(req, rep) = Plus(OnWay(req, rep \ {r}), h)
  <2>1. Distinct(req, rep)
    BY DEF Left
  <2> QED BY <1>1, <2>1, ReadRemoves
<1>3. PICK o \in [Node -> Nat] : o = OnWay(req, rep \ {r})
  BY OnWayType
<1>4. \A g \in [Node -> Int] :
          /\ Weight(g, Plus(o, h)) = Weight(g, o) + g[h]
          /\ SumFunction(Plus(o, h)) = SumFunction(o) + 1
  BY WeightOneMore
<1>5. PICK g \in [Node -> Int] : TRUE
  <2>1. [p \in Node |-> 0] \in [Node -> Int]
    OBVIOUS
  <2> QED BY <2>1
<1>6. SumFunction(OnWay(req, rep)) = SumFunction(o) + 1
  BY <1>2, <1>3, <1>4, <1>5
<1>7. SumFunction(o) \in Int
  <2>1. o \in [Node -> Int]
    OBVIOUS
  <2> QED BY <2>1, NodeAssumption, SumType
<1>8. Cardinality(Taken(req, rep \ {r})) \in Nat
  BY OnWayType, SlotsFinite
<1>9. Left(req, rep \ {r}, m)
  BY <1>2, <1>3, <1>6, <1>7, <1>8 DEF Left
<1>10. \A k \in [Node -> Int] :
           Weight(k, OnWay(req, rep)) = Weight(k, OnWay(req, rep \ {r})) + k[h]
  BY <1>2, <1>3, <1>4
<1> QED BY <1>1, <1>9, <1>10

LEMMA AnswersAreNumbers ==
    ASSUME NEW s \in Seq(Int \cup {NoAnswer}), AllAnswered(s)
    PROVE  s \in Seq(Int)
<1>1. PICK n \in Nat : s \in [1 .. n -> Int \cup {NoAnswer}] /\ DOMAIN s = 1 .. n
  BY LenProperties
<1>2. \A i \in 1 .. n : s[i] \in Int
  BY <1>1 DEF AllAnswered
<1>3. s \in [1 .. n -> Int]
  BY <1>1, <1>2
<1> QED BY <1>3

(* The last answer of a good poll: what is left weighs less than what was  *)
(* on its way when the poll began.                                         *)
LEMMA GoodPoll ==
    ASSUME ClientTypeOK, NEW g \in Shortfalls, NEW b \in Strays(gaveUp), BeganWith(g, b),
           answers \in Seq(Int), NEW v \in Int,
           SumFunction(Append(answers, v)) = Total,
           Len(answers) + 1 = Len(Host),
           NEW o \in Strays(gaveUp),
           v + Weight(g, o) <= Weight(g, OnWay(requests, replies))
    PROVE  /\ stable + 1 <= Cardinality(Above(gaveUp, g, o))
           /\ stable + 1 < Cardinality(Strays(gaveUp))
<1>1. /\ g \in [Node -> Int] /\ SumFunction(g) < Total /\ gaveUp \in Nat
      /\ stable \in Nat
  BY DEF Shortfalls, ClientTypeOK
<1>2. b \in [Node -> Nat] /\ o \in [Node -> Nat]
  BY DEF Strays
<1>3. PICK W, Wb, Wo \in Int : /\ W = Weight(g, OnWay(requests, replies))
                               /\ Wb = Weight(g, b) /\ Wo = Weight(g, o)
  BY <1>1, <1>2, OnWayType, WeightType
<1>4. SumFunction(answers) + v = Total
  BY SumAppend
<1>5. PICK G \in Int : G = SumFunction(g)
  BY <1>1, NodeAssumption, SumType
<1>6. SumFunction(answers) + W <= Wb + G
  BY <1>1, <1>2, <1>3, <1>5, BegunAll DEF BeganWith
<1>7. SumFunction(answers) \in Int
  <2>1. PICK n \in Nat : answers \in [1 .. n -> Int]
    BY LenProperties
  <2>2. IsFiniteSet(1 .. n)
    BY FS_Interval
  <2> QED BY <2>1, <2>2, SumType
<1>8. Wo < Wb
  <2>1. PICK A \in Int : A = SumFunction(answers)
    BY <1>7
  <2>2. A + v = Total /\ v + Wo <= W /\ A + W <= Wb + G /\ G < Total
    BY <1>1, <1>3, <1>4, <1>5, <1>6, <2>1
  <2>3. A + v + Wo <= Wb + G /\ G < A + v
    BY <2>2
  <2> QED BY <2>3
<1>9. /\ Cardinality(Above(gaveUp, g, b)) + 1 <= Cardinality(Above(gaveUp, g, o))
      /\ Cardinality(Above(gaveUp, g, o)) < Cardinality(Strays(gaveUp))
      /\ Cardinality(Above(gaveUp, g, b)) \in Nat
      /\ Cardinality(Above(gaveUp, g, o)) \in Nat
      /\ Cardinality(Strays(gaveUp)) \in Nat
  BY <1>1, <1>3, <1>8, LighterRanks
<1>10. stable <= Cardinality(Above(gaveUp, g, b))
  BY DEF BeganWith
<1> QED BY <1>1, <1>9, <1>10

LEMMA AppendAnswer ==
    ASSUME NEW s \in Seq(Int \cup {NoAnswer}), NEW v \in Int \cup {NoAnswer}
    PROVE  /\ Append(s, v) \in Seq(Int \cup {NoAnswer})
           /\ Len(s) \in Nat /\ Len(Append(s, v)) = Len(s) + 1
           /\ AllAnswered(Append(s, v)) => AllAnswered(s) /\ v \in Int
<1>1. /\ Append(s, v) \in Seq(Int \cup {NoAnswer})
      /\ Len(s) \in Nat /\ Len(Append(s, v)) = Len(s) + 1
  OBVIOUS
<1>2. ASSUME AllAnswered(Append(s, v)) PROVE AllAnswered(s) /\ v \in Int
  <2>1. PICK n \in Nat : n = Len(s) /\ DOMAIN s = 1 .. n
    OBVIOUS
  <2>2. PICK t : t = Append(s, v)
    OBVIOUS
  <2>3. DOMAIN t = 1 .. n + 1 /\ t[n + 1] = v /\ \A i \in 1 .. n : t[i] = s[i]
    BY <2>1, <2>2
  <2>4. \A i \in 1 .. n + 1 : t[i] # NoAnswer
    BY <1>2, <2>2, <2>3 DEF AllAnswered
  <2>5. n + 1 \in 1 .. n + 1 /\ \A i \in 1 .. n : i \in 1 .. n + 1
    BY <2>1
  <2> QED BY <2>1, <2>3, <2>4, <2>5 DEF AllAnswered
<1> QED BY <1>1, <1>2

(* A poll that goes on: one more answer and one more request.              *)
LEMMA NextAsked ==
    ASSUME NEW g \in [Node -> Int], NEW b \in [Node -> Nat], NEW s \in Seq(Int),
           NEW v \in Int, Len(s) + 1 < Len(Host), NEW W \in Int,
           SumFunction(s) + W <= Weight(g, Begun(b, Len(s) + 1)),
           NEW o \in [Node -> Nat], v + Weight(g, o) <= W
    PROVE  SumFunction(Append(s, v)) + Weight(g, Plus(o, Host[Len(s) + 2]))
           <= Weight(g, Begun(b, Len(s) + 2))
<1>1. PICK n \in Nat : n = Len(s) /\ s \in [1 .. n -> Int]
  BY LenProperties
<1>2. n + 1 \in 0 .. Len(Host) - 1 /\ Host[n + 2] \in Node
  BY <1>1, HostOrder
<1>3. /\ Begun(b, n + 1) \in [Node -> Nat]
      /\ Begun(b, n + 1 + 1) = Plus(Begun(b, n + 1), Host[n + 1 + 1])
  BY <1>2, BegunNext
<1>4. n + 1 + 1 = n + 2
  OBVIOUS
<1>5. PICK h \in Node : h = Host[n + 2]
  BY <1>2
<1>6. PICK a \in [Node -> Nat] : a = Begun(b, n + 1)
  BY <1>3
<1>7. Weight(g, Plus(a, h)) = Weight(g, a) + g[h] /\ Weight(g, a) \in Int
  BY WeightOneMore, WeightType
<1>8. Weight(g, Plus(o, h)) = Weight(g, o) + g[h] /\ Weight(g, o) \in Int
  BY WeightOneMore, WeightType
<1>9. SumFunction(Append(s, v)) = SumFunction(s) + v
  BY SumAppend
<1>10. SumFunction(s) \in Int
  <2>1. IsFiniteSet(1 .. n)
    BY FS_Interval
  <2> QED BY <1>1, <2>1, SumType
<1>11. Begun(b, n + 2) = Plus(a, h)
  BY <1>3, <1>4, <1>5, <1>6
<1>12. SumFunction(s) + W <= Weight(g, a)
  BY <1>1, <1>6
<1>13. g[h] \in Int
  OBVIOUS
<1>14. SumFunction(s) + v + (Weight(g, o) + g[h]) <= Weight(g, a) + g[h]
  BY <1>7, <1>8, <1>10, <1>12, <1>13
<1> QED BY <1>1, <1>5, <1>7, <1>8, <1>9, <1>11, <1>14

(* A poll that begins with o on its way.                                   *)
LEMMA PollBegins ==
    ASSUME NEW g \in [Node -> Int], NEW o \in [Node -> Nat]
    PROVE  SumFunction(<< >>) + Weight(g, Plus(o, Host[1])) <= Weight(g, Begun(o, 1))
<1>1. 0 \in 0 .. Len(Host) - 1
  BY HostOrder
<1>2. Begun(o, 0 + 1) = Plus(Begun(o, 0), Host[0 + 1])
  BY <1>1, BegunNext
<1>3. Begun(o, 1) = Plus(o, Host[1])
  BY <1>2, BegunNone
<1>4. Weight(g, Plus(o, Host[1])) \in Int
  <2>1. Host[1] \in Node
    BY HostOrder
  <2> QED BY <2>1, WeightOneMore, WeightType
<1> QED BY <1>3, <1>4, SumNone

(* There are fewer ways to be on the way than polls it takes to pass.      *)
Enough == \A m \in 0 .. MaxGiveUp : Cardinality(Strays(m)) <= StablePolls

(* get_counter has returned v: what is still on its way are the requests   *)
(* given up, and an answer took its counter's share of the weight with it. *)
Got(v, rest) ==
    /\ v \in Int \cup {NoAnswer} /\ rest \in SUBSET Answer
    /\ gaveUp' \in 0 .. MaxGiveUp /\ Left(requests, rest, gaveUp')
    /\ \A r \in rest : Up(r.from) /\ r.counter <= counter[r.from]
    /\ v # NoAnswer =>
           /\ gaveUp' = gaveUp
           /\ \A g \in Shortfalls :
                  v + Weight(g, OnWay(requests, rest)) <= Weight(g, OnWay(requests, replies))

LEMMA ShortfallsStay ==
    ASSUME UNCHANGED vars
    PROVE  Shortfalls' = Shortfalls /\ counter' = counter /\ \A p : Up(p)' = Up(p)
<1>1. counter' = counter /\ sidecar' = sidecar
  BY DEF vars, containers
<1> QED BY <1>1 DEF Shortfalls, Up

LEMMA PollGoesOn ==
    ASSUME ClientTypeOK, sum = "polling", StreakInv, NEW v, NEW rest, Got(v, rest),
           UNCHANGED vars, Take(v, rest), Len(Append(answers, v)) < Len(Host)
    PROVE  /\ ClientTypeOK' /\ sum' = "polling" /\ Len(answers') < Len(Host)
           /\ WayInv' /\ StreakInv'
<1>1. /\ v \in Int \cup {NoAnswer} /\ rest \in SUBSET Answer
      /\ answers \in Seq(Int \cup {NoAnswer}) /\ requests \in SUBSET Request
      /\ gaveUp' \in 0 .. MaxGiveUp /\ Left(requests, rest, gaveUp')
      /\ stable \in Nat /\ polls \in Nat
  BY DEF Got, ClientTypeOK
<1>2. PICK poll : poll = Append(answers, v)
  OBVIOUS
<1>3. /\ poll \in Seq(Int \cup {NoAnswer}) /\ Len(poll) = Len(answers) + 1
      /\ Len(answers) \in Nat
      /\ AllAnswered(poll) => AllAnswered(answers) /\ v \in Int
  BY <1>1, <1>2, AppendAnswer
<1>4. answers' = poll /\ UNCHANGED <<sum, stable, polls>>
  BY <1>2 DEF Take
<1>5. /\ replies' = rest
      /\ requests' = requests \cup {[id |-> Free(requests \cup rest),
                                     to |-> Host[Len(poll) + 1]]}
  BY <1>4 DEF Take, Ask
<1>6. PICK h \in Node : h = Host[Len(answers) + 2]
  BY <1>2, <1>3, HostOrder
<1>7. PICK new : new = Query(requests, rest, h)
  OBVIOUS
<1>8. requests' = requests \cup {new}
  BY <1>3, <1>5, <1>6, <1>7 DEF Query
<1>9. PICK m \in 0 .. MaxGiveUp : m = gaveUp'
  BY <1>1
<1>10. /\ new \in Request /\ Left(requests \cup {new}, rest, m + 1)
       /\ OnWay(requests \cup {new}, rest) = Plus(OnWay(requests, rest), h)
  BY <1>1, <1>7, <1>9, AskKeeps
<1>11. ClientTypeOK'
  BY <1>1, <1>3, <1>4, <1>5, <1>8, <1>10 DEF ClientTypeOK
<1>12. WayInv'
  BY <1>1, <1>5, <1>8, <1>9, <1>10, ShortfallsStay DEF WayInv, Got
<1>13. ASSUME AllAnswered(poll), NEW g \in Shortfalls
       PROVE  \E b \in Strays(gaveUp') : BeganWith(g, b)'
  <2>1. v # NoAnswer /\ v \in Int /\ gaveUp' = gaveUp /\ answers \in Seq(Int)
    BY <1>1, <1>3, <1>13, AnswersAreNumbers, AnswerAssumption DEF Got
  <2>2. PICK b \in Strays(gaveUp) : BeganWith(g, b)
    BY <1>3, <1>13 DEF StreakInv
  <2>3. b \in [Node -> Nat] /\ g \in [Node -> Int]
    BY DEF Strays, Shortfalls
  <2>4. PICK o \in [Node -> Nat] : o = OnWay(requests, rest)
    BY OnWayType
  <2>5. PICK W \in Int : W = Weight(g, OnWay(requests, replies))
    BY <2>3, OnWayType, WeightType
  <2>6. v + Weight(g, o) <= W
    BY <2>1, <2>4, <2>5 DEF Got
  <2>7. SumFunction(answers) + W <= Weight(g, Begun(b, Len(answers) + 1))
    BY <2>2, <2>5 DEF BeganWith
  <2>8. SumFunction(poll) + Weight(g, Plus(o, h)) <= Weight(g, Begun(b, Len(answers) + 2))
    BY <1>2, <1>3, <1>6, <2>1, <2>3, <2>6, <2>7, NextAsked
  <2>9. Len(poll) + 1 = Len(answers) + 2
    BY <1>3
  <2>10. OnWay(requests', replies') = Plus(o, h)
    BY <1>5, <1>8, <1>10, <2>4
  <2>11. /\ SumFunction(answers') + Weight(g, OnWay(requests', replies'))
            <= Weight(g, Begun(b, Len(answers') + 1))
         /\ stable' <= Cardinality(Above(gaveUp', g, b))
    BY <1>4, <2>1, <2>2, <2>8, <2>9, <2>10 DEF BeganWith
  <2> QED BY <2>1, <2>2, <2>11 DEF BeganWith
<1>14. StreakInv'
  BY <1>4, <1>13, ShortfallsStay DEF StreakInv
<1> QED BY <1>2, <1>4, <1>11, <1>12, <1>14

(* A poll that is good.                                                    *)
LEMMA PollGood ==
    ASSUME ClientTypeOK, StreakInv, NEW v, NEW rest, Got(v, rest),
           AllAnswered(Append(answers, v)), SumFunction(Append(answers, v)) = Total,
           Len(answers) + 1 = Len(Host), NEW g \in Shortfalls
    PROVE  /\ gaveUp' = gaveUp
           /\ stable + 1 <= Cardinality(Above(gaveUp, g, OnWay(requests, rest)))
           /\ stable + 1 < Cardinality(Strays(gaveUp))
<1>1. /\ v \in Int \cup {NoAnswer} /\ answers \in Seq(Int \cup {NoAnswer})
      /\ Left(requests, rest, gaveUp')
  BY DEF Got, ClientTypeOK
<1>2. AllAnswered(answers) /\ v \in Int
  BY <1>1, AppendAnswer
<1>3. answers \in Seq(Int) /\ v # NoAnswer
  BY <1>1, <1>2, AnswersAreNumbers, AnswerAssumption
<1>4. /\ gaveUp' = gaveUp /\ gaveUp \in Nat
      /\ v + Weight(g, OnWay(requests, rest)) <= Weight(g, OnWay(requests, replies))
  BY <1>3 DEF Got, ClientTypeOK
<1>5. PICK o : o = OnWay(requests, rest)
  OBVIOUS
<1>6. o \in Strays(gaveUp)
  BY <1>1, <1>4, <1>5, OnWayType, IsStray DEF Left
<1>7. PICK b \in Strays(gaveUp) : BeganWith(g, b)
  BY <1>2 DEF StreakInv
<1> QED BY <1>2, <1>3, <1>4, <1>5, <1>6, <1>7, GoodPoll

(* The first request of a poll.                                            *)
LEMMA PollStarts ==
    ASSUME NEW req \in SUBSET Request, NEW rest \in SUBSET Answer,
           gaveUp' \in 0 .. MaxGiveUp, Left(req, rest, gaveUp'),
           requests' = req \cup {Query(req, rest, Host[1])}, replies' = rest,
           answers' = << >>, UNCHANGED vars,
           \A r \in rest : Up(r.from) /\ r.counter <= counter[r.from],
           \A g \in Shortfalls :
               stable' <= Cardinality(Above(gaveUp', g, OnWay(req, rest)))
    PROVE  /\ requests' \in SUBSET Request /\ Len(answers') < Len(Host)
           /\ WayInv' /\ StreakInv'
<1>1. PICK h \in Node : h = Host[1]
  BY HostOrder
<1>2. PICK m \in 0 .. MaxGiveUp : m = gaveUp'
  OBVIOUS
<1>3. PICK new : new = Query(req, rest, h)
  OBVIOUS
<1>4. /\ new \in Request /\ Left(req \cup {new}, rest, m + 1)
      /\ OnWay(req \cup {new}, rest) = Plus(OnWay(req, rest), h)
  BY <1>2, <1>3, AskKeeps
<1>5. requests' = req \cup {new}
  BY <1>1, <1>3
<1>6. WayInv'
  BY <1>2, <1>4, <1>5, ShortfallsStay DEF WayInv
<1>7. PICK o \in [Node -> Nat] : o = OnWay(req, rest)
  BY OnWayType
<1>8. o \in Strays(gaveUp')
  <2>1. SumFunction(o) = m /\ m \in Nat
    BY <1>2, <1>7 DEF Left
  <2> QED BY <1>2, <2>1, IsStray
<1>9. ASSUME NEW g \in Shortfalls PROVE BeganWith(g, o)'
  <2>1. g \in [Node -> Int]
    BY DEF Shortfalls
  <2>2. SumFunction(<< >>) + Weight(g, Plus(o, h)) <= Weight(g, Begun(o, 1))
    BY <1>1, <2>1, PollBegins
  <2>3. OnWay(requests', replies') = Plus(o, h)
    BY <1>4, <1>5, <1>7
  <2>4. Len(answers') + 1 = 1
    OBVIOUS
  <2>5. SumFunction(answers') + Weight(g, OnWay(requests', replies'))
        <= Weight(g, Begun(o, Len(answers') + 1))
    BY <2>2, <2>3, <2>4
  <2> QED BY <1>7, <2>5 DEF BeganWith
<1>10. StreakInv'
  BY <1>8, <1>9, ShortfallsStay DEF StreakInv
<1>11. requests' \in SUBSET Request /\ Len(answers') < Len(Host)
  BY <1>4, <1>5, HostOrder
<1> QED BY <1>6, <1>10, <1>11

LEMMA PollEnds ==
    ASSUME Enough, ClientTypeOK, sum = "polling", StreakInv, NEW v, NEW rest,
           Got(v, rest), UNCHANGED vars, Take(v, rest),
           Len(answers) < Len(Host), ~ (Len(Append(answers, v)) < Len(Host))
    PROVE  /\ ClientTypeOK' /\ sum' # "idle"
           /\ sum' = "polling" => Len(answers') < Len(Host) /\ WayInv' /\ StreakInv'
           /\ sum' = "PASS" => Shortfalls = {}
<1>1. /\ v \in Int \cup {NoAnswer} /\ rest \in SUBSET Answer
      /\ answers \in Seq(Int \cup {NoAnswer}) /\ requests \in SUBSET Request
      /\ gaveUp' \in 0 .. MaxGiveUp /\ Left(requests, rest, gaveUp')
      /\ stable \in Nat /\ polls \in Nat /\ gaveUp \in 0 .. MaxGiveUp
  BY DEF Got, ClientTypeOK
<1>2. PICK poll : poll = Append(answers, v)
  OBVIOUS
<1>3. Len(answers) + 1 = Len(Host)
  <2>1. Len(poll) = Len(answers) + 1 /\ Len(answers) \in Nat
    BY <1>1, <1>2, AppendAnswer
  <2> QED BY <1>2, <2>1, HostOrder
<1>4. EndPoll(poll)
  BY <1>2 DEF Take
<1>5. /\ stable' = (IF AllAnswered(poll) /\ SumFunction(poll) = Total
                    THEN stable + 1 ELSE 0)
      /\ polls' = polls + 1 /\ answers' = << >>
  BY <1>4 DEF EndPoll, AllAnswered
<1>6. stable' \in Nat /\ StablePolls \in Nat \ {0} /\ MaxPoll \in Nat /\ polls' \in Nat
  BY <1>1, <1>5, PollAssumption
<1>7. /\ sum' \in {"polling", "PASS", "FAIL"}
      /\ sum' = "PASS" => stable' >= StablePolls
  BY <1>4, <1>6 DEF EndPoll
<1>8. /\ sum' = "polling" =>
             replies' = rest /\ requests' = requests \cup {Query(requests, rest, Host[1])}
      /\ sum' # "polling" => replies' = {} /\ requests' = {}
  <2>1. Len(answers') + 1 = 1
    BY <1>5
  <2> QED BY <2>1 DEF Take, Ask, Query
<1>9. ASSUME NEW g \in Shortfalls
      PROVE  stable' <= Cardinality(Above(gaveUp', g, OnWay(requests, rest)))
  <2>1. CASE AllAnswered(poll) /\ SumFunction(poll) = Total
    BY <1>2, <1>3, <1>5, <2>1, PollGood
  <2>2. CASE stable' = 0
    <3>1. /\ Above(gaveUp', g, OnWay(requests, rest)) \subseteq Strays(gaveUp')
          /\ gaveUp' \in Nat
      BY <1>1 DEF Above
    <3>2. Cardinality(Above(gaveUp', g, OnWay(requests, rest))) \in Nat
      BY <3>1, StraysFinite, FS_Subset, FS_CardinalityType
    <3> QED BY <2>2, <3>2
  <2> QED BY <1>5, <2>1, <2>2
<1>10. ASSUME sum' = "polling"
       PROVE  /\ requests' \in SUBSET Request /\ Len(answers') < Len(Host)
              /\ WayInv' /\ StreakInv'
  <2>1. replies' = rest /\ requests' = requests \cup {Query(requests, rest, Host[1])}
    BY <1>8, <1>10
  <2>2. \A r \in rest : Up(r.from) /\ r.counter <= counter[r.from]
    BY DEF Got
  <2> QED BY <1>1, <1>5, <1>9, <2>1, <2>2, PollStarts
<1>11. ClientTypeOK'
  BY <1>1, <1>5, <1>6, <1>7, <1>8, <1>10 DEF ClientTypeOK
<1>12. ASSUME sum' = "PASS", NEW g \in Shortfalls PROVE FALSE
  <2>1. stable' >= StablePolls /\ stable' # 0
    BY <1>6, <1>7, <1>12
  <2>2. AllAnswered(poll) /\ SumFunction(poll) = Total /\ stable' = stable + 1
    BY <1>5, <2>1
  <2>3. stable + 1 < Cardinality(Strays(gaveUp))
    BY <1>2, <1>3, <1>12, <2>2, PollGood
  <2>4. Cardinality(Strays(gaveUp)) <= StablePolls
    BY <1>1 DEF Enough
  <2>5. Cardinality(Strays(gaveUp)) \in Nat
    BY <1>1, StraysFinite, FS_CardinalityType
  <2> QED BY <1>1, <1>6, <2>1, <2>2, <2>3, <2>4, <2>5
<1> QED BY <1>7, <1>10, <1>11, <1>12

(* get_counter returns, with an answer or without.                         *)
LEMMA TakeKeeps ==
    ASSUME Enough, ClientInv, sum = "polling", NEW v, NEW rest, Got(v, rest),
           UNCHANGED vars, Take(v, rest)
    PROVE  ClientInv'
<1>1. /\ ClientTypeOK /\ StreakInv /\ StartedInv /\ TheStep = "done"
      /\ Len(answers) < Len(Host)
  BY DEF ClientInv
<1>2. /\ ClientTypeOK' /\ sum' # "idle"
      /\ sum' = "polling" => Len(answers') < Len(Host) /\ WayInv' /\ StreakInv'
      /\ sum' = "PASS" => Shortfalls = {}
  BY <1>1, PollGoesOn, PollEnds
<1>3. StartedInv' /\ TheStep' = "done"
  BY <1>1 DEF StartedInv, TheStep, TheTodo, vars, containers, scripts
<1> QED BY <1>2, <1>3, ShortfallsStay DEF ClientInv

LEMMA ReadReplyKeeps ==
    ASSUME Enough, CreditTypeOK, ClientInv, UNCHANGED vars, NEW r \in replies,
           ReadReply(r)
    PROVE  ClientInv'
<1>1. /\ sum = "polling" /\ Take(r.counter, replies \ {r}) /\ gaveUp' = gaveUp
  BY DEF ReadReply
<1>2. /\ requests \in SUBSET Request /\ replies \in SUBSET Answer
      /\ gaveUp \in 0 .. MaxGiveUp /\ gaveUp \in Nat
      /\ Left(requests, replies, gaveUp + 1)
      /\ \A s \in replies : Up(s.from) /\ s.counter <= counter[s.from]
  BY <1>1 DEF ClientInv, ClientTypeOK, WayInv
<1>3. /\ Left(requests, replies \ {r}, gaveUp) /\ r.from \in Node
      /\ \A g \in [Node -> Int] :
             Weight(g, OnWay(requests, replies))
             = Weight(g, OnWay(requests, replies \ {r})) + g[r.from]
  BY <1>2, ReadLeaves
<1>4. r.counter \in Int
  BY <1>2 DEF Answer
<1>5. ASSUME NEW g \in Shortfalls
      PROVE  r.counter + Weight(g, OnWay(requests, replies \ {r}))
             <= Weight(g, OnWay(requests, replies))
  <2>1. g \in [Node -> Int] /\ counter[r.from] <= g[r.from]
    BY <1>2, <1>3 DEF Shortfalls
  <2>2. Weight(g, OnWay(requests, replies \ {r})) \in Int
    BY <2>1, OnWayType, WeightType
  <2>3. r.counter <= g[r.from]
    BY <1>2, <1>3, <1>4, <2>1 DEF CreditTypeOK
  <2>4. Weight(g, OnWay(requests, replies))
        = Weight(g, OnWay(requests, replies \ {r})) + g[r.from]
    BY <1>3, <2>1
  <2>5. PICK x, y, z \in Int : /\ x = Weight(g, OnWay(requests, replies \ {r}))
                               /\ y = g[r.from] /\ z = r.counter
    BY <1>3, <1>4, <2>1, <2>2
  <2>6. z <= y => z + x <= x + y
    BY <2>5
  <2> QED BY <2>3, <2>4, <2>5, <2>6
<1>6. Got(r.counter, replies \ {r})
  BY <1>1, <1>2, <1>3, <1>4, <1>5 DEF Got
<1> QED BY <1>1, <1>6, TakeKeeps

LEMMA GiveUpKeeps ==
    ASSUME Enough, ClientInv, UNCHANGED vars, GiveUp
    PROVE  ClientInv'
<1>1. /\ sum = "polling" /\ Take(NoAnswer, replies)
      /\ gaveUp < MaxGiveUp /\ gaveUp' = gaveUp + 1
  BY DEF GiveUp
<1>2. /\ replies \in SUBSET Answer /\ gaveUp \in Nat
      /\ Left(requests, replies, gaveUp + 1)
      /\ \A r \in replies : Up(r.from) /\ r.counter <= counter[r.from]
  BY <1>1 DEF ClientInv, ClientTypeOK, WayInv
<1>3. gaveUp' \in 0 .. MaxGiveUp
  BY <1>1, <1>2, PollAssumption
<1>4. Got(NoAnswer, replies)
  BY <1>1, <1>2, <1>3 DEF Got
<1> QED BY <1>1, <1>4, TakeKeeps

LEMMA StartSumKeeps ==
    ASSUME Script = {Node}, ClientInv, UNCHANGED vars, StartSum
    PROVE  ClientInv'
<1>1. /\ sum = "idle" /\ sum' = "polling" /\ step[Node] = "done" /\ Ask
      /\ UNCHANGED <<answers, stable, polls, gaveUp, replies>>
  BY DEF StartSum
<1>2. /\ ClientTypeOK /\ StartedInv
      /\ requests = {} /\ replies = {} /\ answers = << >> /\ stable = 0 /\ gaveUp = 0
  BY <1>1 DEF ClientInv
<1>3. StartedInv' /\ TheStep' = "done"
  BY <1>1, <1>2 DEF StartedInv, TheStep, TheTodo, vars, containers, scripts
<1>4. PICK none : none = {}
  OBVIOUS
<1>5. Left(none, none, 0)
  <2>1. \A p : Ids(none, none, p) = {}
    BY <1>4 DEF Ids
  <2>2. Taken(none, none) = {} /\ Distinct(none, none)
    BY <1>4 DEF Taken, Distinct
  <2>3. Cardinality({}) = 0
    BY FS_EmptySet
  <2>4. OnWay(none, none) \in [Node -> Int] /\ \A p \in Node : OnWay(none, none)[p] = 0
    BY <2>1, <2>3 DEF OnWay
  <2>5. SumFunction(OnWay(none, none)) = 0
    BY <2>4, NodeAssumption, SumZero
  <2> QED BY <2>2, <2>3, <2>5 DEF Left
<1>6. requests' = none \cup {Query(none, none, Host[1])}
  <2>1. Len(answers') + 1 = 1
    BY <1>1, <1>2
  <2> QED BY <1>1, <1>2, <1>4, <2>1 DEF Ask, Query
<1>7. replies' = none /\ answers' = << >> /\ gaveUp' = 0 /\ 0 \in 0 .. MaxGiveUp
  BY <1>1, <1>2, <1>4, PollAssumption
<1>8. ASSUME NEW g \in Shortfalls
      PROVE  stable' <= Cardinality(Above(gaveUp', g, OnWay(none, none)))
  <2>1. Above(0, g, OnWay(none, none)) \subseteq Strays(0)
    BY DEF Above
  <2>2. Cardinality(Above(0, g, OnWay(none, none))) \in Nat
    BY <2>1, StraysFinite, FS_Subset, FS_CardinalityType
  <2> QED BY <1>1, <1>2, <1>7, <2>2
<1>9. /\ requests' \in SUBSET Request /\ Len(answers') < Len(Host)
      /\ WayInv' /\ StreakInv'
  <2>1. /\ none \in SUBSET Request /\ none \in SUBSET Answer
        /\ \A r \in none : Up(r.from) /\ r.counter <= counter[r.from]
    BY <1>4
  <2> QED BY <1>5, <1>6, <1>7, <1>8, <2>1, PollStarts
<1>10. ClientTypeOK'
  BY <1>1, <1>2, <1>9 DEF ClientTypeOK
<1> QED BY <1>1, <1>3, <1>9, <1>10 DEF ClientInv

LEMMA ReplyKeeps ==
    ASSUME LinkTypeOK, CreditTypeOK, ClientInv, UNCHANGED vars,
           NEW r \in requests, Reply(r)
    PROVE  ClientInv'
<1>1. /\ sum = "polling" /\ Serving(r.to)
      /\ UNCHANGED <<sum, answers, stable, polls, gaveUp>>
  BY DEF Reply
<1>2. /\ ClientTypeOK /\ StartedInv /\ TheStep = "done" /\ Len(answers) < Len(Host)
      /\ WayInv /\ StreakInv
  BY <1>1 DEF ClientInv
<1>3. /\ requests \in SUBSET Request /\ replies \in SUBSET Answer
      /\ Distinct(requests, replies) /\ r.to \in Node
  BY <1>2 DEF ClientTypeOK, WayInv, Left, Request
<1>4. Up(r.to) /\ counter[r.to] \in Int
  <2>1. sidecar[r.to] \in {"starting", "restored"} /\ sidecar[r.to] \in {"old", "restored"}
    BY <1>1, <1>2, <1>3 DEF StartedInv, Serving
  <2> QED BY <1>3, <2>1 DEF Up, CreditTypeOK
<1>5. PICK new : new = [id |-> r.id, from |-> r.to, counter |-> counter[r.to]]
  OBVIOUS
<1>6. requests' = requests \ {r} /\ replies' = replies \cup {new}
  BY <1>5 DEF Reply
<1>7. /\ new \in Answer /\ Distinct(requests', replies')
      /\ Taken(requests', replies') = Taken(requests, replies)
      /\ OnWay(requests', replies') = OnWay(requests, replies)
  BY <1>3, <1>4, <1>5, <1>6, ReplyMoves
<1>8. new.from = r.to /\ new.counter = counter[r.to]
  BY <1>5
<1>9. WayInv'
  <2>1. Left(requests, replies, gaveUp + 1)'
    BY <1>1, <1>2, <1>7 DEF WayInv, Left
  <2>2. ASSUME NEW s \in replies' PROVE Up(s.from) /\ s.counter <= counter[s.from]
    BY <1>2, <1>4, <1>6, <1>8 DEF WayInv
  <2> QED BY <2>1, <2>2, ShortfallsStay DEF WayInv
<1>10. StreakInv'
  <2>1. \A g, b : BeganWith(g, b) <=> BeganWith(g, b)'
    BY <1>1, <1>7 DEF BeganWith
  <2> QED BY <1>1, <1>2, <2>1, ShortfallsStay DEF StreakInv
<1>11. ClientTypeOK'
  BY <1>1, <1>2, <1>3, <1>6, <1>7 DEF ClientTypeOK
<1>12. StartedInv' /\ TheStep' = "done"
  BY <1>2 DEF StartedInv, TheStep, TheTodo, vars, containers, scripts
<1> QED BY <1>1, <1>2, <1>9, <1>10, <1>11, <1>12 DEF ClientInv

(* The mesh goes on under the client: what a shortfall may still reach is  *)
(* less, and no answer on its way has become too much.                     *)
LEMMA MeshKeeps ==
    ASSUME Script = {Node}, LinkTypeOK, CreditTypeOK, LinkTypeOK', CreditTypeOK',
           ClientInv, MeshStep
    PROVE  ClientInv'
<1>1. Next /\ UNCHANGED clientVars
  BY DEF MeshStep
<1>2. ClientTypeOK' /\ StartedInv'
  <2>1. ClientTypeOK /\ StartedInv
    BY DEF ClientInv
  <2> QED BY <1>1, <2>1, StartedStep DEF ClientTypeOK, clientVars
<1>3. CASE sum = "idle"
  BY <1>1, <1>2, <1>3 DEF ClientInv, clientVars
<1>4. ASSUME sum # "idle" PROVE ClientInv'
  <2>1. /\ TheStep' = "done"
        /\ \A p \in Node : counter[p] <= counter'[p] /\ (Up(p) => Up(p)')
    BY <1>1, <1>4, MeshQuiet DEF ClientInv, MeshStep
  <2>2. \A p \in Node : counter[p] \in Int /\ counter'[p] \in Int
    BY DEF CreditTypeOK
  <2>3. Shortfalls' \subseteq Shortfalls
    <3> SUFFICES ASSUME NEW g \in Shortfalls' PROVE g \in Shortfalls
      OBVIOUS
    <3>1. g \in [Node -> Int] /\ SumFunction(g) < Total
      BY DEF Shortfalls, Total
    <3>2. ASSUME NEW p \in Node, Up(p) PROVE counter[p] <= g[p]
      <4>1. counter'[p] <= g[p]
        BY <2>1, <3>2 DEF Shortfalls
      <4> QED BY <2>1, <2>2, <3>1, <4>1
    <3> QED BY <3>1, <3>2 DEF Shortfalls
  <2>4. ASSUME sum = "polling" PROVE WayInv' /\ StreakInv'
    <3>1. WayInv /\ StreakInv /\ replies \in SUBSET Answer
      BY <2>4 DEF ClientInv, ClientTypeOK
    <3>2. ASSUME NEW r \in replies PROVE Up(r.from)' /\ r.counter <= counter'[r.from]
      <4>1. r.from \in Node /\ r.counter \in Int
        BY <3>1 DEF Answer
      <4>2. Up(r.from) /\ r.counter <= counter[r.from]
        BY <3>1 DEF WayInv
      <4> QED BY <2>1, <2>2, <4>1, <4>2
    <3>3. WayInv'
      BY <1>1, <3>1, <3>2 DEF WayInv, clientVars
    <3>4. \A g, b : BeganWith(g, b) <=> BeganWith(g, b)'
      BY <1>1 DEF BeganWith, clientVars
    <3>5. StreakInv'
      BY <1>1, <2>3, <3>1, <3>4 DEF StreakInv, clientVars
    <3> QED BY <3>3, <3>5
  <2> QED BY <1>1, <1>2, <1>4, <2>1, <2>3, <2>4 DEF ClientInv, clientVars
<1> QED BY <1>3, <1>4

LEMMA ClientInitHolds ==
    ASSUME Script = {Node}, ClientInit
    PROVE  ClientInv
<1>1. /\ sum = "idle" /\ answers = << >> /\ stable = 0 /\ polls = 0 /\ gaveUp = 0
      /\ requests = {} /\ replies = {} /\ step = [s \in Script |-> "idle"]
  BY DEF ClientInit, Init
<1>2. TheStep = "idle"
  BY <1>1 DEF TheStep
<1>3. ClientTypeOK
  <2>1. << >> \in Seq(Int \cup {NoAnswer})
    OBVIOUS
  <2> QED BY <1>1, <2>1, PollAssumption DEF ClientTypeOK
<1> QED BY <1>1, <1>2, <1>3 DEF ClientInv, StartedInv

LEMMA ClientStepKeeps ==
    ASSUME Script = {Node}, Enough, LinkTypeOK, CreditTypeOK, LinkTypeOK', CreditTypeOK',
           ClientInv, [ClientStep \/ MeshStep]_allVars
    PROVE  ClientInv'
<1>1. CASE StartSum /\ UNCHANGED vars
  BY <1>1, StartSumKeeps
<1>2. CASE GiveUp /\ UNCHANGED vars
  BY <1>2, GiveUpKeeps
<1>3. CASE (\E r \in requests : Reply(r)) /\ UNCHANGED vars
  BY <1>3, ReplyKeeps
<1>4. CASE (\E r \in replies : ReadReply(r)) /\ UNCHANGED vars
  BY <1>4, ReadReplyKeeps
<1>5. CASE MeshStep
  BY <1>5, MeshKeeps
<1>6. CASE UNCHANGED allVars
  <2>1. UNCHANGED vars /\ UNCHANGED clientVars
    BY <1>6 DEF allVars
  <2>2. ClientTypeOK' /\ (TheStep' = TheStep) /\ StartedInv'
    BY <2>1 DEF ClientInv, ClientTypeOK, StartedInv, TheStep, TheTodo, clientVars, vars,
                containers, scripts
  <2>3. /\ WayInv => WayInv'
        /\ (\A g, b : BeganWith(g, b) <=> BeganWith(g, b)')
    BY <2>1, ShortfallsStay DEF WayInv, BeganWith, clientVars
  <2>4. StreakInv => StreakInv'
    BY <2>1, <2>3, ShortfallsStay DEF StreakInv, clientVars
  <2> QED BY <2>1, <2>2, <2>3, <2>4, ShortfallsStay DEF ClientInv, clientVars
<1> QED BY <1>1, <1>2, <1>3, <1>4, <1>5, <1>6 DEF ClientStep

(* A sum changes nothing in the mesh, so that everything shown of a        *)
(* restore also holds while its total is checked: STATE is answered from   *)
(* the counter and leaves no trace (counter.py, node).                     *)
LEMMA ClientRestores == ClientSpec => Spec
<1>1. ClientInit => Init
  BY DEF ClientInit
<1>2. [ClientStep \/ MeshStep]_allVars => [Next]_vars
  BY DEF ClientStep, MeshStep, allVars
<1> QED BY <1>1, <1>2, PTL DEF ClientSpec, Spec

(* ClientInv is an invariant of a restore by one script and a sum after it *)
(* in every order of the mesh's steps, answers and time-outs of            *)
(* request_udp.                                                            *)
THEOREM ClientInvariance == Script = {Node} /\ Enough => (ClientSpec => []ClientInv)
<1> SUFFICES ASSUME Script = {Node}, Enough PROVE ClientSpec => []ClientInv
  OBVIOUS
<1>1. ClientSpec => []IndInv /\ []CreditInv
  BY ClientRestores, RestoreInvariance, CreditInvariance, PTL
<1>2. ClientInit => ClientInv
  BY ClientInitHolds
<1>3. /\ IndInv /\ CreditInv /\ IndInv' /\ CreditInv' /\ ClientInv
      /\ [ClientStep \/ MeshStep]_allVars
      => ClientInv'
  BY ClientStepKeeps DEF IndInv, CreditInv
<1> QED BY <1>1, <1>2, <1>3, PTL DEF ClientSpec

(* If the mesh can come to no counters short of the total, then it is up   *)
(* and nothing is missing, unless the cut had more than the total.         *)
LEMMA NothingShort ==
    ASSUME IndInv, CreditInv, Shortfalls = {}
    PROVE  Ready /\ (CutCredit <= Total => Holdings = Total)
<1>1. counter \in [Node -> Int]
  BY DEF CreditInv, CreditTypeOK
<1>2. Total \in Int
  BY CounterAssumption, NodeAssumption, FS_CardinalityType DEF Total
<1>3. PICK c \in Int : c = SumFunction(counter)
  BY <1>1, NodeAssumption, SumType
<1>4. Total <= c
  <2>1. c < Total => counter \in Shortfalls
    BY <1>1, <1>3 DEF Shortfalls
  <2> QED BY <1>2, <2>1
<1>5. ASSUME NEW q \in Node, ~ Up(q) PROVE FALSE
  <2>1. PICK t \in Int : t = Total
    BY <1>2
  <2>2. PICK g : g = [counter EXCEPT ![q] = counter[q] - (c - t) - 1]
    OBVIOUS
  <2>3. /\ g \in [Node -> Int] /\ g[q] = counter[q] - (c - t) - 1
        /\ \A p \in Node \ {q} : g[p] = counter[p]
    BY <1>1, <2>2
  <2>4. SumFunction(g) = c - counter[q] + g[q]
    BY <1>1, <1>3, <2>3, NodeAssumption, SumUpdate
  <2>5. SumFunction(g) = t - 1
    BY <1>1, <2>3, <2>4
  <2>6. \A p \in Node : Up(p) => counter[p] <= g[p]
    BY <1>1, <1>5, <2>3
  <2>7. g \in Shortfalls
    BY <2>1, <2>3, <2>5, <2>6 DEF Shortfalls
  <2> QED BY <2>7
<1>6. Ready
  BY <1>5 DEF Ready, Up
<1>7. PICK S \in SUBSET Node : CounterInv(S) /\ LinkLedger(S)
  BY DEF CreditInv
<1>8. /\ Holdings \in Int /\ CutCredit \in Int
      /\ SumFunction(counter) <= Holdings /\ Holdings <= CutCredit
  BY <1>6, <1>7, ReadyBalance DEF IndInv, CreditInv
<1> QED BY <1>2, <1>3, <1>4, <1>6, <1>8

(* sum_counters prints PASS only when every server is restored and, unless *)
(* the cut has a credit twice, the mesh holds its credit, for any number of*)
(* late or lost answers, as long as it asks for at least as many stable    *)
(* polls as there are ways for them to be outstanding ("[PASS] total       *)
(* conserved", local_mesh.sh).                                             *)
THEOREM VerdictIsSound == Script = {Node} /\ Enough => (ClientSpec => []VerdictSound)
<1> SUFFICES ASSUME Script = {Node}, Enough PROVE ClientSpec => []VerdictSound
  OBVIOUS
<1>1. ClientSpec => []IndInv /\ []CreditInv
  BY ClientRestores, RestoreInvariance, CreditInvariance, PTL
<1>2. ClientSpec => []ClientInv
  BY ClientInvariance
<1>3. IndInv /\ CreditInv /\ ClientInv => VerdictSound
  BY NothingShort DEF ClientInv, VerdictSound
<1> QED BY <1>1, <1>2, <1>3, PTL

-----------------------------------------------------------------------------
(* How many polls are enough.                                              *)

Nowhere == [p \in Node |-> 0]

LEMMA NoStray == Strays(0) = {Nowhere} /\ Cardinality(Strays(0)) = 1
<1>1. Nowhere \in [Node -> Nat] /\ Nowhere \in [Node -> Int]
      /\ \A p \in Node : Nowhere[p] = 0
  BY DEF Nowhere
<1>2. SumFunction(Nowhere) = 0
  BY <1>1, NodeAssumption, SumZero
<1>3. Nowhere \in Strays(0)
  BY <1>1, <1>2, IsStray
<1>4. ASSUME NEW b \in Strays(0) PROVE b = Nowhere
  <2>1. b \in [Node -> 0 .. 0]
    BY DEF Strays
  <2> QED BY <2>1 DEF Nowhere
<1> QED BY <1>3, <1>4, FS_Singleton

LEMMA OneStray == Cardinality(Strays(1)) \in Nat /\ Cardinality(Strays(1)) <= Cardinality(Node)
<1> DEFINE at == [p \in Node |-> Plus(Nowhere, p)]
<1>1. /\ Nowhere \in [Node -> Nat] /\ Nowhere \in [Node -> Int]
      /\ \A p \in Node : Nowhere[p] = 0
  BY DEF Nowhere
<1>2. SumFunction(Nowhere) = 0
  BY <1>1, NodeAssumption, SumZero
<1>3. ASSUME NEW p \in Node PROVE Plus(Nowhere, p) \in Strays(1)
  <2>1. /\ Plus(Nowhere, p) \in [Node -> Nat]
        /\ SumFunction(Plus(Nowhere, p)) = 1
    BY <1>1, <1>2, WeightOneMore
  <2> QED BY <2>1, IsStray
<1>4. ASSUME NEW b \in Strays(1) PROVE \E p \in Node : b = Plus(Nowhere, p)
  <2>1. b \in [Node -> 0 .. 1] /\ b \in [Node -> Int] /\ SumFunction(b) = 1
    BY DEF Strays
  <2>2. PICK p \in Node : b[p] = 1
    <3>1. \E p \in Node : b[p] # 0
      BY <2>1, NodeAssumption, SumZero
    <3> QED BY <2>1, <3>1
  <2>3. PICK k : k = [b EXCEPT ![p] = 0]
    OBVIOUS
  <2>4. /\ k \in [Node -> Nat] /\ k \in [Node -> Int] /\ k[p] = 0
        /\ \A q \in Node \ {p} : k[q] = b[q]
    BY <2>1, <2>3
  <2>5. SumFunction(k) = 1 - b[p] + k[p]
    BY <2>1, <2>4, NodeAssumption, SumUpdate
  <2>6. k \in Strays(0)
    BY <2>2, <2>4, <2>5, IsStray
  <2>7. \A q \in Node : b[q] = IF q = p THEN 1 ELSE 0
    BY <2>2, <2>4, <2>6, NoStray, <1>1
  <2>8. \A q \in Node : b[q] = Nowhere[q] + IF q = p THEN 1 ELSE 0
    BY <1>1, <2>7
  <2> QED BY <2>1, <2>8 DEF Plus
<1>5. at \in Surjection(Node, Strays(1))
  BY <1>3, <1>4 DEF Surjection
<1>6. Cardinality(Strays(1)) <= Cardinality(Node)
  BY <1>5, NodeAssumption, FS_Surjection
<1> QED BY <1>6, StraysFinite, FS_CardinalityType

(* With every answer in time one stable poll is enough; with one request   *)
(* given up, as many as there are servers (stable_needed in sum_counters:  *)
(* mesh_ctl.sh asks three servers for three, local_mesh.sh for five).      *)
THEOREM VerdictOneLate ==
    /\ Script = {Node}
    /\ MaxGiveUp = 0 \/ (MaxGiveUp = 1 /\ Cardinality(Node) <= StablePolls)
    => (ClientSpec => []VerdictSound)
<1> SUFFICES ASSUME MaxGiveUp = 0 \/ (MaxGiveUp = 1 /\ Cardinality(Node) <= StablePolls)
             PROVE  Enough
  BY VerdictIsSound
<1> SUFFICES ASSUME NEW m \in 0 .. MaxGiveUp
             PROVE  Cardinality(Strays(m)) <= StablePolls
  BY DEF Enough
<1>1. StablePolls \in Nat \ {0} /\ Cardinality(Node) \in Nat
  BY PollAssumption, NodeAssumption, FS_CardinalityType
<1>2. CASE m = 0
  BY <1>1, <1>2, NoStray
<1>3. CASE m = 1 /\ MaxGiveUp = 1
  BY <1>1, <1>3, OneStray
<1>4. m = 0 \/ (m = 1 /\ MaxGiveUp = 1)
  OBVIOUS
<1> QED BY <1>2, <1>3, <1>4

=============================================================================
