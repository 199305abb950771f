---------------------------- MODULE MCBridgeLive ----------------------------
(***************************************************************************)
(* That a call ends: few events, so that TLC can check liveness, but       *)
(* enough for a barge-in whose cancel blocks while the call is ending, and *)
(* for the event channel to be full when the handler leaves.               *)
(***************************************************************************)
EXTENDS Bridge

MCKinds == {"created", "started"}
===========================================================================
