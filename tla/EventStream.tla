---------------------------- MODULE EventStream ----------------------------
(***************************************************************************)
(* What the way from the server to the bridge promises, without its parts: *)
(* one queue.  Every event sent is handled, once and in the order sent,    *)
(* and only handling one changes what the call records of it; until, after *)
(* the dialog or the session is over, the queue breaks: what was sent last *)
(* is lost, and nothing is sent any more.                                  *)
(***************************************************************************)
EXTENDS Naturals, Sequences

CONSTANTS Kinds       \* of events

VARIABLES queue,      \* events sent and not handled, oldest first
          whole,      \* the queue has not broken
          over,       \* the dialog or the session has ended
          turns,      \* the speakers of the transcripts handled, in order
          bargeIns    \* how many times the caller was heard to start talking

streamVars == <<queue, whole, over, turns, bargeIns>>

Init ==
  /\ queue = << >> /\ whole = TRUE /\ over = FALSE
  /\ turns = << >> /\ bargeIns = 0

Sends(k) ==
  /\ whole /\ queue' = Append(queue, k)
  /\ UNCHANGED <<whole, over, turns, bargeIns>>

\* What a handled event adds to the transcript.
Spoken(k) == CASE k = "inText"  -> <<"caller">>
               [] k = "outText" -> <<"assistant">>
               [] OTHER         -> << >>

Handles ==
  /\ queue # << >> /\ queue' = Tail(queue)
  /\ turns' = turns \o Spoken(Head(queue))
  /\ bargeIns' = bargeIns + IF Head(queue) = "started" THEN 1 ELSE 0
  /\ UNCHANGED <<whole, over>>

Ends ==
  /\ ~over /\ over' = TRUE
  /\ UNCHANGED <<queue, whole, turns, bargeIns>>

Breaks ==
  /\ whole /\ whole' = FALSE
  /\ over' = TRUE
  /\ \E n \in 0..Len(queue) : queue' = SubSeq(queue, 1, n)
  /\ UNCHANGED <<turns, bargeIns>>

Next == \/ \E k \in Kinds : Sends(k)
        \/ Handles \/ Ends \/ Breaks

Spec == Init /\ [][Next]_streamVars
===========================================================================
