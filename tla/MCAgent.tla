------------------------------ MODULE MCAgent ------------------------------
(***************************************************************************)
(* One call ringing in while the test call is placed: answered by the      *)
(* model after a ring delay and reported by mail, or echoed at once.       *)
(***************************************************************************)
EXTENDS Agent

MCInbound == {"in"}
MCOutbound == {"out"}
MCConfigs == {[ringDelay |-> TRUE,  recording |-> TRUE, echoTest |-> FALSE, mail |-> TRUE],
              [ringDelay |-> FALSE, recording |-> TRUE, echoTest |-> TRUE,  mail |-> FALSE]}
===========================================================================
