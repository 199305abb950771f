---------------------------- MODULE CallLifecycle ----------------------------
(***************************************************************************)
(* What a call promises whoever started it: it is greeted or given up,     *)
(* words accumulate while it is up, the first cause of its end is the one  *)
(* that counts, and when it is over there is one result, with every word   *)
(* and that cause, which nothing changes any more.  Bridge implements it   *)
(* with three goroutines, a channel of reasons and a transcript they share.*)
(***************************************************************************)
EXTENDS Sequences

CONSTANTS Speakers,   \* who may say something
          Causes      \* why a call may end; "none" while it need not

VARIABLES phase,      \* "greeting", "up" or "over"
          words,      \* the speakers, in the order of their words
          cause,      \* the first cause of the end, or "none"
          result      \* [turns, why]; why is "running" until the call is over

vars == <<phase, words, cause, result>>

Init ==
  /\ phase = "greeting" /\ words = << >> /\ cause = "none"
  /\ result = [turns |-> << >>, why |-> "running"]

Greeted ==
  /\ phase = "greeting" /\ phase' = "up"
  /\ UNCHANGED <<words, cause, result>>

GivenUp ==
  /\ phase = "greeting" /\ phase' = "over"
  /\ result' = [turns |-> words, why |-> "greeting failed"]
  /\ UNCHANGED <<words, cause>>

Says(s) ==
  /\ phase = "up" /\ words' = Append(words, s)
  /\ UNCHANGED <<phase, cause, result>>

Blames(c) ==
  /\ phase = "up" /\ cause = "none" /\ cause' = c
  /\ UNCHANGED <<phase, words, result>>

Ends ==
  /\ phase = "up" /\ phase' = "over"
  /\ result' = [turns |-> words, why |-> IF cause = "none" THEN "call ended" ELSE cause]
  /\ UNCHANGED <<words, cause>>

Next == \/ Greeted \/ GivenUp \/ Ends
        \/ \E s \in Speakers : Says(s)
        \/ \E c \in Causes : Blames(c)

Spec == Init /\ [][Next]_vars
===========================================================================
