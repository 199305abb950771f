--------------------------- MODULE MCAudioBuffer ---------------------------
(***************************************************************************)
(* Bounds for TLC: caps of zero (a buffer shorter than a frame, see        *)
(* bridge.New), of less than a frame, and of one and a half frames; bursts *)
(* longer than every cap.                                                  *)
(***************************************************************************)
EXTENDS AudioBuffer

MCCapacities == {0, 1, 3}
===========================================================================
