---------------------------- MODULE Registration ----------------------------
(***************************************************************************)
(* Agent.registerLoop and Agent.Ready of internal/telephony/agent.go: the  *)
(* daemon stays registered with the Fritz!Box, retrying with exponential   *)
(* backoff, and announces its first registration.  diago's Register is     *)
(* external: it blocks while the registration holds, refreshing it, and    *)
(* returns when the box refuses or does not answer or the context is       *)
(* cancelled.                                                              *)
(***************************************************************************)
EXTENDS Naturals

CONSTANTS MaxBackoff,  \* longest wait between two attempts, in seconds
          MaxLost      \* bound: how often the registration is lost

ASSUME RegistrationAssumption == MaxBackoff \in Nat \ {0} /\ MaxLost \in Nat

VARIABLES
  stopped,   \* the daemon's context is cancelled (SIGINT, SIGTERM)
  box,       \* external: the Fritz!Box answers REGISTER
  reg,       \* registerLoop: "top", "attempt", "registered", "wait", "done"
  backoff,   \* seconds
  closes,    \* how often the channel behind Ready has been closed
  delay,     \* history: length of the latest wait
  fresh,     \* history: no wait since the loop started or last registered
  lost       \* history: registrations lost

regVars == <<stopped, box, reg, backoff, closes, delay, fresh, lost>>

RegTypeOK ==
  /\ stopped \in BOOLEAN /\ box \in BOOLEAN
  /\ reg \in {"top", "attempt", "registered", "wait", "done"}
  /\ backoff \in 1..MaxBackoff
  /\ closes \in Nat
  /\ delay \in 0..MaxBackoff
  /\ fresh \in BOOLEAN
  /\ lost \in 0..MaxLost

RegInit ==
  /\ stopped = FALSE /\ box \in BOOLEAN
  /\ reg = "top" /\ backoff = 1
  /\ closes = 0
  /\ delay = 0 /\ fresh = TRUE /\ lost = 0

Ready == closes > 0

\* A bug that tries once before it looks at the context.
LoopTopUnchecked ==
  /\ reg = "top"
  /\ reg' = "attempt"
  /\ UNCHANGED <<stopped, box, backoff, closes, delay, fresh, lost>>

\* The loop's condition: a stopped daemon does not register again.
LoopTop ==
  /\ reg = "top"
  /\ reg' = IF stopped THEN "done" ELSE "attempt"
  /\ UNCHANGED <<stopped, box, backoff, closes, delay, fresh, lost>>

\* A bug that closes the channel on every registration.
CloseAgain == closes' = closes + 1

\* regOnce.Do(close(a.registered))
CloseReady == closes' = IF Ready THEN closes ELSE closes + 1

\* A bug that leaves the backoff where the failures had driven it.
RegistersKeepsBackoff ==
  /\ reg = "attempt" /\ box
  /\ reg' = "registered"
  /\ fresh' = TRUE
  /\ CloseReady
  /\ UNCHANGED <<stopped, box, backoff, delay, lost>>

\* OnRegistered, called by Register: the first answer of the box.
Registers ==
  /\ reg = "attempt" /\ box
  /\ reg' = "registered"
  /\ backoff' = 1
  /\ fresh' = TRUE
  /\ CloseReady
  /\ UNCHANGED <<stopped, box, delay, lost>>

\* Register returns: the loop ends if that is because of the context, else
\* it starts to wait.
RegisterReturns ==
  /\ reg \in {"attempt", "registered"} /\ (~box \/ stopped)
  /\ IF stopped THEN reg' = "done" /\ UNCHANGED <<delay, fresh>>
                ELSE reg' = "wait" /\ delay' = backoff /\ fresh' = FALSE
  /\ UNCHANGED <<stopped, box, backoff, closes, lost>>

\* A bug that doubles without the limit.
DoubledUncapped(b) == b * 2

\* backoff *= 2, capped.
Doubled(b) == IF b * 2 > MaxBackoff THEN MaxBackoff ELSE b * 2

\* A bug that gives up once the longest backoff has been waited.
GivesUp ==
  /\ reg = "wait"
  /\ reg' = IF backoff = MaxBackoff THEN "done" ELSE "top"
  /\ backoff' = Doubled(backoff)
  /\ UNCHANGED <<stopped, box, closes, delay, fresh, lost>>

\* The wait is over; the next one will be twice as long, up to the limit.
Retries ==
  /\ reg = "wait"
  /\ reg' = "top"
  /\ backoff' = Doubled(backoff)
  /\ UNCHANGED <<stopped, box, closes, delay, fresh, lost>>

WaitStopped ==
  /\ reg = "wait" /\ stopped
  /\ reg' = "done"
  /\ UNCHANGED <<stopped, box, backoff, closes, delay, fresh, lost>>

\* The box stops or starts answering.
BoxChanges ==
  /\ box => lost < MaxLost
  /\ box' = ~box
  /\ lost' = lost + IF box THEN 1 ELSE 0
  /\ UNCHANGED <<stopped, reg, backoff, closes, delay, fresh>>

Signal ==
  /\ ~stopped
  /\ stopped' = TRUE
  /\ UNCHANGED <<box, reg, backoff, closes, delay, fresh, lost>>

RegStep == LoopTop \/ Registers \/ RegisterReturns \/ Retries \/ WaitStopped

\* The daemon is stopping and its loop has ended.
Stopped == reg = "done" /\ UNCHANGED regVars

RegNext == RegStep \/ BoxChanges \/ Signal \/ Stopped

RegSpec == RegInit /\ [][RegNext]_regVars

---------------------------------------------------------------------------
\* The first wait after a registration is one second and each wait without
\* one doubles the last, up to the limit: an outage that ends leaves no
\* penalty for the next (agent.go:120, 129, 142-146).
BackoffLaw ==
  [][reg' = "wait" /\ reg # "wait" => delay' = IF fresh THEN 1 ELSE Doubled(delay)]_regVars

\* Registering again after an outage does not close the channel twice, which
\* would panic and take down the daemon (agent.go:130).
ReadyOnce == closes <= 1
===========================================================================
