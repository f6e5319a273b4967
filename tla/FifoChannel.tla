----------------------------- MODULE FifoChannel -----------------------------
(***************************************************************************)
(* What the sidecars promise each ordered pair of servers: a reliable FIFO *)
(* channel ("reliable, in-order RUDP", mesh_proxy.py).  A flow is a pair   *)
(* <<p, q>>: what p's application sends to q's.  The channel hands over    *)
(* the sent messages in order, each once, possibly several in one step.    *)
(***************************************************************************)
EXTENDS Naturals, Sequences

CONSTANTS Flow,     \* the ordered pairs of servers that talk to each other
          Payload   \* the datagrams an application can emit

VARIABLES sent,       \* sent[f]: everything accepted from the sending app
          delivered   \* delivered[f]: everything handed to the receiving app

vars == <<sent, delivered>>

Init == /\ sent = [f \in Flow |-> << >>]
        /\ delivered = [f \in Flow |-> << >>]

Send(f, m) == /\ sent' = [sent EXCEPT ![f] = Append(@, m)]
              /\ UNCHANGED delivered

(* The next n - Len(delivered[f]) messages reach the application.          *)
Deliver(f) ==
    \E n \in Len(delivered[f]) + 1 .. Len(sent[f]) :
        /\ delivered' = [delivered EXCEPT ![f] = [i \in 1 .. n |-> sent[f][i]]]
        /\ UNCHANGED sent

Next == \E f \in Flow : \/ \E m \in Payload : Send(f, m)
                        \/ Deliver(f)

Spec == Init /\ [][Next]_vars

(* Reliability: a channel with something to deliver eventually delivers.   *)
LiveSpec == Spec /\ \A f \in Flow : WF_vars(Deliver(f))
=============================================================================
