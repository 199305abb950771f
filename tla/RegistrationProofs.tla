------------------------- MODULE RegistrationProofs -------------------------
(***************************************************************************)
(* The registration loop on its own, for every backoff limit and any number*)
(* of outages.  Agent and Daemon run this loop; what is proved here carries*)
(* over to both by refinement.                                             *)
(***************************************************************************)
EXTENDS Registration, TLAPS

\* While nothing has been waited since the last registration the backoff is
\* one second; while waiting it is the wait; afterwards it is its double.
BackoffInv ==
  /\ fresh => reg # "wait" /\ backoff = 1
  /\ ~fresh /\ reg = "wait" => backoff = delay
  /\ ~fresh /\ reg # "wait" => backoff = Doubled(delay)
  /\ reg = "registered" => fresh

RegInv ==
  /\ reg \in {"top", "attempt", "registered", "wait", "done"}
  /\ backoff \in 1..MaxBackoff /\ delay \in 0..MaxBackoff
  /\ closes \in Nat /\ ReadyOnce
  /\ reg # "done" => BackoffInv

LEMMA DoubledType == \A b \in 1..MaxBackoff : Doubled(b) \in 1..MaxBackoff
  BY RegistrationAssumption DEF Doubled

LEMMA RegInvHolds == RegSpec => []RegInv
<1>1. RegInit => RegInv
  BY RegistrationAssumption DEF RegInit, RegInv, ReadyOnce, BackoffInv
<1>2. RegInv /\ [RegNext]_regVars => RegInv'
  <2> SUFFICES ASSUME RegInv, [RegNext]_regVars PROVE RegInv'
    OBVIOUS
  <2> USE DEF RegInv, ReadyOnce, BackoffInv
  <2>1. CASE Registers
    BY <2>1, RegistrationAssumption DEF Registers, CloseReady, Ready
  <2>2. CASE RegisterReturns
    BY <2>2 DEF RegisterReturns
  <2>0. CASE LoopTop
    BY <2>0 DEF LoopTop
  <2>3. CASE Retries
    BY <2>3, DoubledType DEF Retries
  <2>4. CASE WaitStopped \/ Signal \/ Stopped
    BY <2>4 DEF WaitStopped, Signal, Stopped, regVars
  <2>5. CASE BoxChanges
    BY <2>5, RegistrationAssumption DEF BoxChanges
  <2>6. CASE UNCHANGED regVars
    BY <2>6 DEF regVars
  <2>7. QED
    BY <2>0, <2>1, <2>2, <2>3, <2>4, <2>5, <2>6 DEF RegNext, RegStep
<1>3. QED
  BY <1>1, <1>2, PTL DEF RegSpec

\* What BackoffInv leaves out of RegTypeOK.
RegFlags == stopped \in BOOLEAN /\ box \in BOOLEAN /\ fresh \in BOOLEAN
LostInRange == lost \in 0..MaxLost

\* Type correctness: the backoff stays between a second and the limit.
THEOREM RegistrationTypeOK == RegSpec => []RegTypeOK
<1>1. RegInit => RegFlags /\ LostInRange
  <2>1. RegInit => RegFlags
    BY Zenon DEF RegInit, RegFlags
  <2>2. RegInit => LostInRange
    BY RegistrationAssumption DEF RegInit, LostInRange
  <2> QED
    BY <2>1, <2>2
<1>2. RegFlags /\ LostInRange /\ [RegNext]_regVars => RegFlags' /\ LostInRange'
  <2> SUFFICES ASSUME RegFlags, LostInRange, [RegNext]_regVars
               PROVE RegFlags' /\ LostInRange'
    OBVIOUS
  <2> USE DEF RegNext, RegStep, LoopTop, Registers, RegisterReturns, Retries, WaitStopped,
              Signal, Stopped, regVars
  <2>1. RegFlags'
    BY ZenonT(60) DEF RegFlags, BoxChanges
  <2>2. CASE BoxChanges
    <3>1. \/ lost < MaxLost /\ lost' = lost + 1
          \/ lost' = lost + 0
      BY <2>2, Zenon DEF BoxChanges
    <3>2. LostInRange'
      BY ONLY <3>1, LostInRange, RegistrationAssumption DEF LostInRange
    <3> QED
      BY <2>1, <3>2
  <2>3. CASE lost' = lost
    BY <2>1, <2>3 DEF LostInRange
  <2> QED
    BY <2>2, <2>3
<1>3. RegInv /\ RegFlags /\ LostInRange => RegTypeOK
  BY Zenon DEF RegInv, RegTypeOK, RegFlags, LostInRange
<1> QED
  BY <1>1, <1>2, <1>3, RegInvHolds, PTL DEF RegSpec

\* The channel behind Ready is closed at most once, however often the box
\* comes and goes (agent.go:130).
THEOREM RegistrationReadyOnce == RegSpec => []ReadyOnce
<1>1. RegInv => ReadyOnce
  BY DEF RegInv
<1>2. QED
  BY <1>1, RegInvHolds, PTL

\* The waits are 1, 2, 4, ... up to the limit, from 1 again after every
\* registration (agent.go:120, 129, 142-146).
THEOREM RegistrationBackoffLaw == RegSpec => BackoffLaw
<1>1. RegInv /\ [RegNext]_regVars
        => [reg' = "wait" /\ reg # "wait"
              => delay' = IF fresh THEN 1 ELSE Doubled(delay)]_regVars
  <2> SUFFICES ASSUME RegInv, RegNext, reg' = "wait", reg # "wait"
               PROVE  delay' = IF fresh THEN 1 ELSE Doubled(delay)
    OBVIOUS
  <2>1. RegisterReturns /\ ~stopped
    BY DEF RegNext, RegStep, LoopTop, Registers, RegisterReturns, Retries, WaitStopped, BoxChanges,
           Signal, Stopped, regVars
  <2>2. delay' = backoff /\ reg # "done"
    BY <2>1 DEF RegisterReturns
  <2>3. QED
    BY <2>2 DEF RegInv, BackoffInv
<1>2. QED
  BY <1>1, RegInvHolds, PTL DEF RegSpec, BackoffLaw

\* What the loop's persistence rests on: nothing but the signal ends it, and a
\* registration holds while the box answers.
OnlySignalEnds == reg = "done" => stopped
HoldsOn == [][reg = "registered" /\ box /\ ~stopped => reg' = "registered"]_regVars

\* However many attempts fail and however long the backoff has become, the loop
\* tries again until the daemon is stopped (agent.go:92-94, 121-148).
THEOREM RegistrationPersists == RegSpec => []OnlySignalEnds /\ HoldsOn
<1> USE DEF RegNext, RegStep, LoopTop, Registers, RegisterReturns, Retries, WaitStopped,
            BoxChanges, Signal, Stopped, regVars
<1>1. RegInit => OnlySignalEnds
  BY DEF RegInit, OnlySignalEnds
<1>2. OnlySignalEnds /\ [RegNext]_regVars => OnlySignalEnds'
  BY DEF OnlySignalEnds
<1>3. [RegNext]_regVars => (reg = "registered" /\ box /\ ~stopped => reg' = "registered")
  OBVIOUS
<1> HIDE DEF RegNext, regVars
<1>4. QED
  BY <1>1, <1>2, <1>3, PTL DEF RegSpec, HoldsOn
=============================================================================
