---------------------------- MODULE RudpRedeploy ----------------------------
(***************************************************************************)
(* Rudp when the sidecar of a server is redeployed while the others keep   *)
(* running (build.sh with --replace, "Redeploying one node mid-run" in     *)
(* RUNBOOK.md).  MeshProxy.__init__ starts with no peers and get_peer      *)
(* creates a fresh PeerState on the first packet, so the new process is at *)
(* sequence number 0 for every flow, while its peers are not.              *)
(***************************************************************************)
EXTENDS Rudp

CONSTANTS Redeployable,  \* servers whose sidecar may be redeployed
          MaxRedeploy    \* bound: redeployments

VARIABLE redeploys       \* redeployments so far

allVars == <<sendSeq, unacked, recvSeq, recvBuffer, packets, acks,
             sent, delivered, failures, redeploys>>

(* q's PeerStates, as sender and as receiver, are those of a new process.  *)
(* What applications sent and received is history and stays.               *)
Redeploy(q) ==
    /\ redeploys < MaxRedeploy
    /\ redeploys' = redeploys + 1
    /\ sendSeq' = [f \in Flow |-> IF f[1] = q THEN 0 ELSE sendSeq[f]]
    /\ unacked' = [f \in Flow |-> IF f[1] = q THEN {} ELSE unacked[f]]
    /\ recvSeq' = [f \in Flow |-> IF f[2] = q THEN 0 ELSE recvSeq[f]]
    /\ recvBuffer' = [f \in Flow |-> IF f[2] = q THEN {} ELSE recvBuffer[f]]
    /\ UNCHANGED <<packets, acks, sent, delivered, failures>>

RedeployInit == Init /\ redeploys = 0

RedeployNext == \/ Next /\ UNCHANGED redeploys
                \/ \E q \in Redeployable : Redeploy(q)

RedeploySpec == RedeployInit /\ [][RedeployNext]_allVars /\ Fairness

=============================================================================
