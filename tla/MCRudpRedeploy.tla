---------------------------- MODULE MCRudpRedeploy ----------------------------
(* A flow from a to b, and b redeployed once.                                *)
EXTENDS RudpRedeploy

CONSTANTS a, b, m1

OneWay == {<<a, b>>}
=============================================================================
