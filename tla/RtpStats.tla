------------------------------ MODULE RtpStats ------------------------------
(***************************************************************************)
(* logRTPStats of internal/telephony/agent.go: how many packets a call     *)
(* should have received, reckoned from two 16-bit sequence numbers.        *)
(* AgentProofs says exactly when that is right.                            *)
(***************************************************************************)
EXTENDS Integers

Wrap == 65536

\* What a packet of number i carries.
Number(i) == i % Wrap

\* span: a difference below zero means the numbers have wrapped once.
Span(first, last) == IF last - first < 0 THEN last - first + Wrap ELSE last - first

Expected(first, last) == Span(first, last) + 1

\* The packets the log line reports as missing; lost_pct is their share.
Missing(first, last, received) == Expected(first, last) - received

\* lostPct >= 1
Warns(first, last, received) ==
  /\ Expected(first, last) > 0
  /\ 100 * Missing(first, last, received) >= Expected(first, last)
=============================================================================
