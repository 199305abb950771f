---------------------------- MODULE MCLiveCall ----------------------------
(***************************************************************************)
(* A call with a greeting, a barge-in and an answer, against the server.   *)
(* Payload type 8 is A-law, 9 is G.722, which the bridge cannot pass       *)
(* through.                                                                *)
(***************************************************************************)
EXTENDS LiveCall

MCKinds == Kinds \ {"badDelta", "inBlank"}
MCOffered == {8, 9}
===========================================================================
