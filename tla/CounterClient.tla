---------------------------- MODULE CounterClient ----------------------------
(***************************************************************************)
(* The verification step of a restore: mesh_ctl.sh sum, run from the       *)
(* control container after run_restore.sh (src/src/counter.py,             *)
(* sum_counters, get_counter, request_udp and the STATE request of node).  *)
(*                                                                         *)
(* Requests and answers are plain traffic: they can be late or out of      *)
(* order; one that is lost is one that stays on its way.  Every request    *)
(* binds the same local port, an answer does not say to which request it   *)
(* belongs, and get_counter overlooks the name of the server in it: the    *)
(* answer to a request that was given up is read as that to a later one.   *)
(***************************************************************************)
EXTENDS Restore, Sequences

CONSTANTS
    Host,          \* the servers in the order sum asks them
    StablePolls,   \* polls in a row that must give the expected total
    NoAnswer,      \* None: what get_counter returns after its timeout
    MaxPoll,       \* bound: polls of one sum (its timeout)
    MaxGiveUp      \* bound: requests given up

ASSUME HostAssumption ==   \* every server once
    Node # {} /\ Host \in Bijection(1 .. Cardinality(Node), Node)
ASSUME AnswerAssumption == NoAnswer \notin Int
ASSUME PollAssumption == StablePolls \in Nat \ {0} /\ {MaxPoll, MaxGiveUp} \subseteq Nat

VARIABLES
    sum,        \* "idle", "polling", "PASS" or "FAIL"
    answers,    \* answers of the running poll
    stable,     \* good polls in a row
    polls,      \* polls made
    gaveUp,     \* requests given up
    requests,   \* STATE requests on their way, [id, to]
    replies     \* answers on their way, [id, from, counter]

clientVars == <<sum, answers, stable, polls, gaveUp, requests, replies>>
allVars    == <<vars, clientVars>>

-----------------------------------------------------------------------------

ClientInit ==
    /\ Init
    /\ sum = "idle" /\ answers = << >>
    /\ stable = 0 /\ polls = 0 /\ gaveUp = 0
    /\ requests = {} /\ replies = {}

(* What is still on its way is one request that waits for its answer and   *)
(* those given up, so these names are enough.                              *)
Free(others) == CHOOSE i \in 0 .. MaxGiveUp : \A r \in others : r.id # i

(* request_udp: bind the port, send STATE to the next server and wait.     *)
Ask ==
    requests' = requests \cup {[id |-> Free(requests \cup replies'),
                                to |-> Host[Len(answers') + 1]]}

(* The operator checks the total when run_restore.sh has reported success. *)
StartSum ==
    /\ sum = "idle"
    /\ \A s \in Script : step[s] = "done"
    /\ sum' = "polling"
    /\ UNCHANGED <<answers, stable, polls, gaveUp, replies>>
    /\ Ask

(* The application answers STATE with its name and its counter.            *)
Reply(r) ==
    /\ sum = "polling"           \* later ones reach no socket
    /\ Serving(r.to)
    /\ requests' = requests \ {r}
    /\ replies' = replies \cup {[id |-> r.id, from |-> r.to, counter |-> counter[r.to]]}
    /\ UNCHANGED <<sum, answers, stable, polls, gaveUp>>

(* FAULT: the first good poll decides, as in test/verify_sum.sh.           *)
EndPollOnce(poll) ==
    /\ UNCHANGED stable
    /\ polls' = polls + 1
    /\ answers' = << >>
    /\ sum' = IF /\ \A i \in DOMAIN poll : poll[i] # NoAnswer
                 /\ SumFunction(poll) = Total
              THEN "PASS"
              ELSE IF polls' >= MaxPoll THEN "FAIL" ELSE "polling"

(* One round of sum_counters is complete.                                  *)
EndPoll(poll) ==
    /\ stable' = IF /\ \A i \in DOMAIN poll : poll[i] # NoAnswer
                    /\ SumFunction(poll) = Total
                 THEN stable + 1 ELSE 0
    /\ polls' = polls + 1
    /\ answers' = << >>
    /\ sum' = CASE stable' >= StablePolls -> "PASS"
                [] stable' < StablePolls /\ polls' >= MaxPoll -> "FAIL"
                [] OTHER -> "polling"

(* get_counter has returned v: on to the next server, or the next poll,    *)
(* with the given answers still on their way.                              *)
Take(v, rest) ==
    /\ LET poll == Append(answers, v)
       IN  IF Len(poll) < Len(Host)
           THEN answers' = poll /\ UNCHANGED <<sum, stable, polls>>
           ELSE EndPoll(poll)
    /\ IF sum' = "polling" THEN replies' = rest /\ Ask
                           ELSE replies' = {} /\ requests' = {}

(* recvfrom takes whatever arrives at the port.                            *)
ReadReply(r) ==
    /\ sum = "polling"
    /\ Take(r.counter, replies \ {r})
    /\ UNCHANGED gaveUp

(* No answer within 500 ms.                                                *)
GiveUp ==
    /\ sum = "polling" /\ gaveUp < MaxGiveUp
    /\ gaveUp' = gaveUp + 1
    /\ Take(NoAnswer, replies)

ClientStep ==
    /\ \/ StartSum \/ GiveUp
       \/ \E r \in requests : Reply(r)
       \/ \E r \in replies : ReadReply(r)
    /\ UNCHANGED vars

(* One operator at one control container: no transfer and no restore once  *)
(* the sum has begun ("serial calls only", local_mesh.sh).                 *)
MeshStep ==
    /\ Next
    /\ sum # "idle" => UNCHANGED <<transfers, runs>>
    /\ UNCHANGED clientVars

ClientSpec == ClientInit /\ [][ClientStep \/ MeshStep]_allVars /\ Fairness

-----------------------------------------------------------------------------

(* A sum that reports PASS is right about the whole mesh, credit in flight *)
(* included, although an answer may be counted for the wrong server and    *)
(* counters may change between the requests of a poll (sum_counters,       *)
(* "[PASS] total conserved" in local_mesh.sh).  A cut that holds a credit  *)
(* twice can make up for one that is lost or in flight; the servers are    *)
(* restored even then.                                                     *)
VerdictSound ==
    sum = "PASS" => Ready /\ (CutCredit <= Total => Holdings = Total)
=============================================================================
