----------------------------- MODULE LossyFifo -----------------------------
(***************************************************************************)
(* What the pacing buffer promises, without a buffer: the model's audio is *)
(* one stream of byte positions 1, 2, 3, ... of which the caller hears an  *)
(* increasing subsequence.  Positions are skipped on two occasions only: a *)
(* flush (barge-in), which skips to the end of the stream, and a burst     *)
(* that would put the listener more than cap bytes behind, which skips     *)
(* exactly as far as the bound requires.                                   *)
(***************************************************************************)
EXTENDS Integers

CONSTANTS FrameSize,  \* bytes the RTP clock takes per tick
          Silence     \* the padding byte

VARIABLES cap,        \* how many bytes the listener may be behind
          total,      \* positions produced so far
          next,       \* the position the listener hears next
          frame       \* the frame heard last

fifoVars == <<cap, total, next, frame>>

Behind == total + 1 - next

Init == /\ cap \in Nat
        /\ total = 0
        /\ next = 1
        /\ frame = [i \in 1..FrameSize |-> Silence]

\* More positions are produced; only the bound on the lag skips any.
Produce == /\ total' \in Nat /\ total' >= total
           /\ next' = IF total' + 1 - next > cap THEN total' + 1 - cap ELSE next
           /\ UNCHANGED <<cap, frame>>

\* One frame is heard: the next positions in order, then silence.
Hear == /\ frame' = [i \in 1..FrameSize |-> IF i <= Behind THEN next + i - 1 ELSE Silence]
        /\ next' = next + (IF Behind < FrameSize THEN Behind ELSE FrameSize)
        /\ UNCHANGED <<cap, total>>

\* Everything not yet heard is skipped.
Flush == /\ next' = total + 1
         /\ UNCHANGED <<cap, total, frame>>

Next == \/ Produce
        \/ Hear
        \/ Flush

Spec == Init /\ [][Next]_fifoVars
===========================================================================
