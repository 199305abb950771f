---------------------------- MODULE MCBridgeEnd ----------------------------
(***************************************************************************)
(* How a call ends: every guard and every failure against each other, with *)
(* an event of any kind in the channel or in the handler's hands.          *)
(***************************************************************************)
EXTENDS Bridge

MCKinds == Kinds
MCMishaps == {"hangup", "media", "session", "read"}
===========================================================================
