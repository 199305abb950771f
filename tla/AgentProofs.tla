---------------------------- MODULE AgentProofs ----------------------------
(***************************************************************************)
(* The agent, proved for any set of calls, running at the same time.       *)
(***************************************************************************)
EXTENDS Agent, RegistrationProofs, RtpStats, TLAPS

\* Where a call's goroutine stands determines what it holds and has done.
Holding == {"echo", "dial", "bridge", "notify", "mail", "closeClient", "closeRec"}
Talking == {"bridge", "notify", "mail", "closeClient"}
After   == {"closeClient", "closeRec", "hangup", "returned"}
Dialled == Places \ {"none", "ringing", "answer", "invite", "returned"}

CallInv(c) ==
  /\ at[c] \in Places
  /\ rec[c] = "open" => at[c] \in Holding
  /\ client[c] = "open" => at[c] \in Talking
  /\ c \in Outbound /\ line[c] # "none" =>
       at[c] \in Dialled \/ (at[c] = "returned" /\ bye[c] /\ ctxDone[c])
  /\ c \in Outbound => at[c] \notin {"ringing", "answer"}
  /\ at[c] \in After => \/ spoke[c] /\ told[c] \in {"delivered", "late"}
                        \/ ~spoke[c] /\ told[c] = "no"
  /\ at[c] \notin After => told[c] = "no" /\ (spoke[c] => at[c] \in {"notify", "mail"})
  /\ at[c] \in {"notify", "mail"} => spoke[c]

Functions ==
  /\ DOMAIN at = Calls /\ DOMAIN line = Calls /\ DOMAIN rec = Calls
  /\ DOMAIN client = Calls /\ DOMAIN spoke = Calls /\ DOMAIN told = Calls
  /\ DOMAIN ctxDone = Calls /\ ctxDone = [c \in Calls |-> ctxDone[c]]
  /\ DOMAIN bye = Calls /\ bye = [c \in Calls |-> bye[c]]
  /\ at = [c \in Calls |-> at[c]] /\ line = [c \in Calls |-> line[c]]
  /\ rec = [c \in Calls |-> rec[c]] /\ client = [c \in Calls |-> client[c]]
  /\ spoke = [c \in Calls |-> spoke[c]] /\ told = [c \in Calls |-> told[c]]

AgentInv == Functions /\ \A c \in Calls : CallInv(c)

\* The variables a call has of its own.
Own(c) == <<at[c], line[c], ctxDone[c], rec[c], client[c], bye[c], spoke[c], told[c]>>

\* A step of one call leaves the others alone.
LEMMA CallsAreSeparate ==
  ASSUME Functions, NEW c \in Calls, CallStep(c) \/ World(c)
  PROVE  /\ Functions'
         /\ \A d \in Calls \ {c} : Own(d)' = Own(d)
<1> USE DEF Functions, Own
<1>1. CASE Incoming(c) \/ RingOver(c) \/ Answer(c) \/ TestCall(c) \/ Invite(c)
  BY <1>1 DEF Incoming, RingOver, Answer, TestCall, Invite, Go
<1>2. CASE SetUp(c) \/ Record(c) \/ EchoEnds(c) \/ DialOk(c) \/ DialFails(c)
  BY <1>2 DEF SetUp, Record, EchoEnds, DialOk, DialFails, Go
<1>3. CASE \/ \E turns \in BOOLEAN : BridgeReturns(c, turns)
           \/ MailHangs(c) \/ Notified(c) \/ CloseClient(c) \/ CloseRec(c)
  BY <1>3 DEF BridgeReturns, MailHangs, Notified, CloseClient, CloseRec, Go
<1>4. CASE HangUpOut(c) \/ World(c)
  BY <1>4 DEF HangUpOut, Ends, Go, World, PeerHangsUp, Released, ShutdownReaches
<1>5. QED
  BY <1>1, <1>2, <1>3, <1>4 DEF CallStep

LEMMA CallInvStep ==
  ASSUME AgentInv, NEW c \in Calls, CallStep(c) \/ World(c)
  PROVE  CallInv(c)'
<1> USE DEF AgentInv, Functions, CallInv, Places, Holding, Talking, After, Dialled, Go, Afterwards
<1>1. CASE Incoming(c)
  BY <1>1, AgentAssumption DEF Incoming
<1>2. CASE RingOver(c)
  BY <1>2 DEF RingOver
<1>3. CASE Answer(c)
  BY <1>3 DEF Answer
<1>4. CASE TestCall(c)
  BY <1>4 DEF TestCall
<1>5. CASE Invite(c)
  BY <1>5 DEF Invite
<1>6. CASE SetUp(c)
  BY <1>6 DEF SetUp
<1>7. CASE Record(c)
  BY <1>7 DEF Record
<1>8. CASE EchoEnds(c) \/ DialFails(c)
  BY <1>8 DEF EchoEnds, DialFails
<1>9. CASE DialOk(c)
  BY <1>9 DEF DialOk
<1>10. ASSUME NEW turns \in BOOLEAN, BridgeReturns(c, turns)
       PROVE  CallInv(c)'
  BY <1>10 DEF BridgeReturns
<1>11. CASE Notified(c)
  BY <1>11 DEF Notified, Cut
<1>12. CASE CloseClient(c)
  BY <1>12 DEF CloseClient
<1>13. CASE CloseRec(c)
  BY <1>13 DEF CloseRec
<1>14. CASE HangUpOut(c)
  BY <1>14 DEF HangUpOut, Ends
<1>15. CASE World(c)
  <2>1. UNCHANGED <<at, rec, client, bye, spoke, told>>
    BY <1>15 DEF World, PeerHangsUp, Released, ShutdownReaches
  <2>2. c \in Outbound /\ line'[c] # "none" => line[c] # "none"
    BY <1>15, AgentAssumption DEF World, PeerHangsUp, Released, ShutdownReaches
  <2>3. ctxDone[c] => ctxDone'[c]
    BY <1>15 DEF World, PeerHangsUp, Released, Ends, ShutdownReaches
  <2> QED
    BY <2>1, <2>2, <2>3
<1>16. CASE MailHangs(c)
  BY <1>16 DEF MailHangs
<1>17. QED
  BY <1>1, <1>2, <1>3, <1>4, <1>5, <1>6, <1>7, <1>8, <1>9, <1>10, <1>11, <1>12, <1>13,
     <1>14, <1>15, <1>16 DEF CallStep

LEMMA AgentInvHolds == Spec => []AgentInv
<1>1. Init => AgentInv
  BY DEF Init, AgentInv, Functions, CallInv, Places, Holding, Talking, After, Dialled
<1>2. AgentInv /\ [Next]_agentVars => AgentInv'
  <2> SUFFICES ASSUME AgentInv, [Next]_agentVars PROVE AgentInv'
    OBVIOUS
  <2>1. ASSUME NEW c \in Calls, CallStep(c) \/ World(c)
        PROVE  AgentInv'
    <3>1. Functions' /\ \A d \in Calls \ {c} : Own(d)' = Own(d)
      BY <2>1, CallsAreSeparate DEF AgentInv
    <3>2. ASSUME NEW d \in Calls \ {c} PROVE CallInv(d)'
      <4>1. /\ at'[d] = at[d] /\ line'[d] = line[d] /\ rec'[d] = rec[d]
            /\ client'[d] = client[d] /\ spoke'[d] = spoke[d] /\ told'[d] = told[d]
            /\ ctxDone'[d] = ctxDone[d] /\ bye'[d] = bye[d]
        BY <3>1 DEF Own
      <4>2. QED
        BY <4>1 DEF AgentInv, CallInv
    <3>3. CallInv(c)'
      BY <2>1, CallInvStep
    <3>4. QED
      BY <3>1, <3>2, <3>3 DEF AgentInv
  <2>2. CASE UNCHANGED callVars
    BY <2>2 DEF callVars, AgentInv, Functions, CallInv
  <2>3. QED
    BY <2>1, <2>2 DEF Next, Registering, Exit, Gone, agentVars
<1>3. QED
  BY <1>1, <1>2, PTL DEF Spec

\* Every path out of a call closes the recording and the session it opened, and
\* every test call that was answered comes to Hangup and to the close of its
\* dialog, whether or not the BYE gets through, for any number of calls at once
\* (agent.go:209-222, 273-277, 301).
THEOREM AgentNothingLeftOpen == Spec => []NothingLeftOpen
<1>1. AgentInv => NothingLeftOpen
  BY DEF AgentInv, CallInv, NothingLeftOpen, Holding, Talking, Dialled, Calls
<1>2. QED
  BY <1>1, AgentInvHolds, PTL

\* Every conversation is reported and nothing else is (agent.go:320-325).
THEOREM AgentConversationReported == Spec => []ConversationReported
<1>1. AgentInv => ConversationReported
  BY DEF AgentInv, CallInv, ConversationReported, After
<1>2. QED
  BY <1>1, AgentInvHolds, PTL

---------------------------------------------------------------------------
(* The registration loop goes on beside the calls. *)

\* A step of the agent is one of the loop or leaves it alone.
LEMMA NextOfRegistration == [Next]_agentVars => [RegNext]_regVars
<1> SUFFICES ASSUME [Next]_agentVars PROVE RegNext \/ regVars' = regVars
  BY Zenon
<1>1. ASSUME NEW c \in Calls, CallStep(c) \/ World(c) PROVE regVars' = regVars
  BY <1>1 DEF CallStep, World, Go, Incoming, RingOver, Answer, TestCall, Invite, SetUp,
     Record, EchoEnds, DialOk, DialFails, BridgeReturns, MailHangs, Notified, CloseClient, CloseRec,
     HangUpOut, PeerHangsUp, Released, Ends, ShutdownReaches
<1>2. CASE Registering
  BY <1>2, Zenon DEF Registering
<1>3. CASE Exit \/ Gone \/ UNCHANGED agentVars
  BY <1>3, Zenon DEF Exit, Gone, agentVars
<1>4. QED
  BY <1>1, <1>2, <1>3, Zenon DEF Next

\* The agent runs the registration loop of Registration, whatever its calls do
\* and until it exits (agent.go:112-148).
THEOREM AgentImplementsRegistration == Spec => RegSpec
<1>1. Init => RegInit
  BY DEF Init
<1> QED
  BY <1>1, NextOfRegistration, PTL DEF Spec, RegSpec

\* Calls that come and go do not disturb the registration: it is announced once,
\* backs off by the law and ends with the signal only (agent.go:112-148).
THEOREM AgentRegistration ==
  Spec => []ReadyOnce /\ BackoffLaw /\ []OnlySignalEnds /\ HoldsOn
  BY AgentImplementsRegistration, RegistrationReadyOnce, RegistrationBackoffLaw,
     RegistrationPersists, PTL

---------------------------------------------------------------------------
(* Types of the calls. *)

CallTypes ==
  /\ cfg \in Configs /\ exited \in BOOLEAN
  /\ at \in [Calls -> Places]
  /\ line \in [Calls -> {"none", "ringing", "up", "down"}]
  /\ ctxDone \in [Calls -> BOOLEAN]
  /\ rec \in [Calls -> {"none", "open", "closed"}]
  /\ client \in [Calls -> {"none", "open", "closed"}]
  /\ bye \in [Calls -> BOOLEAN]
  /\ spoke \in [Calls -> BOOLEAN]
  /\ told \in [Calls -> {"no", "delivered", "late", "cut"}]

LEMMA CallKeepsTypes ==
  ASSUME CallTypes, NEW c \in Calls, CallStep(c) \/ World(c)
  PROVE  CallTypes'
<1> USE DEF CallTypes, Go, Places, Afterwards
<1>1. CASE Incoming(c) \/ RingOver(c) \/ Answer(c) \/ TestCall(c) \/ Invite(c)
  BY <1>1 DEF Incoming, RingOver, Answer, TestCall, Invite
<1>2. CASE SetUp(c) \/ Record(c) \/ EchoEnds(c) \/ DialOk(c) \/ DialFails(c)
  BY <1>2 DEF SetUp, Record, EchoEnds, DialOk, DialFails
<1>3. CASE \E turns \in BOOLEAN : BridgeReturns(c, turns)
  BY <1>3 DEF BridgeReturns
<1>4. CASE MailHangs(c) \/ Notified(c)
  BY <1>4 DEF MailHangs, Notified, Cut
<1>6. CASE CloseClient(c) \/ CloseRec(c)
  BY <1>6 DEF CloseClient, CloseRec
<1>7. CASE HangUpOut(c)
  BY <1>7 DEF HangUpOut, Ends
<1>5. CASE World(c)
  BY <1>5 DEF World, PeerHangsUp, Released, Ends, ShutdownReaches
<1>8. QED
  BY <1>1, <1>2, <1>3, <1>4, <1>5, <1>6, <1>7 DEF CallStep

LEMMA AgentTypes == Spec => []CallTypes
<1>1. Init => CallTypes
  <2> SUFFICES ASSUME Init PROVE CallTypes
    OBVIOUS
  <2>1. /\ at \in [Calls -> Places]
        /\ line \in [Calls -> {"none", "ringing", "up", "down"}]
        /\ rec \in [Calls -> {"none", "open", "closed"}]
        /\ client \in [Calls -> {"none", "open", "closed"}]
        /\ told \in [Calls -> {"no", "delivered", "late", "cut"}]
    BY DEF Init, Places
  <2>2. ctxDone \in [Calls -> BOOLEAN] /\ bye \in [Calls -> BOOLEAN] /\ spoke \in [Calls -> BOOLEAN]
    BY DEF Init
  <2>3. cfg \in Configs /\ exited \in BOOLEAN
    BY Zenon DEF Init
  <2>4. QED
    BY <2>1, <2>2, <2>3, Zenon DEF CallTypes
<1>2. CallTypes /\ [Next]_agentVars => CallTypes'
  <2> SUFFICES ASSUME CallTypes, [Next]_agentVars PROVE CallTypes'
    OBVIOUS
  <2>1. CASE \E c \in Calls : CallStep(c) \/ World(c)
    BY <2>1, CallKeepsTypes
  <2>2. CASE Registering \/ Exit \/ Gone \/ UNCHANGED agentVars
    BY <2>2, Zenon DEF Registering, Exit, Gone, agentVars, CallTypes, callVars
  <2>3. QED
    BY <2>1, <2>2 DEF Next
<1>3. QED
  BY <1>1, <1>2, PTL DEF Spec

\* Type correctness of the agent, for any set of calls and any number of
\* outages.
THEOREM AgentTypeOK == Spec => []TypeOK
<1>1. RegTypeOK /\ CallTypes => TypeOK
  BY DEF CallTypes, TypeOK
<1>2. QED
  BY <1>1, AgentTypes, AgentImplementsRegistration, RegistrationTypeOK, PTL

---------------------------------------------------------------------------
(* The course of a call. *)

\* How far a call has come, and its line, recording and session with it.
PlaceRank(p) ==
  CASE p = "none" -> 0 [] p = "ringing" -> 1 [] p \in {"answer", "invite"} -> 2
    [] p = "setup" -> 3 [] p = "record" -> 4 [] p \in {"echo", "dial"} -> 5
    [] p = "bridge" -> 6 [] p = "notify" -> 7 [] p = "mail" -> 8
    [] p = "closeClient" -> 9 [] p = "closeRec" -> 10 [] p = "hangup" -> 11 [] OTHER -> 12

LineRank(l) == CASE l = "none" -> 0 [] l = "ringing" -> 1 [] l = "up" -> 2 [] OTHER -> 3
OpenRank(o) == CASE o = "none" -> 0 [] o = "open" -> 1 [] OTHER -> 2

\* What a step may do to call c.
Forward(c) ==
  /\ at'[c] = at[c] \/ PlaceRank(at[c]) < PlaceRank(at'[c])
  /\ line'[c] = line[c] \/ LineRank(line[c]) < LineRank(line'[c])
  /\ rec'[c] = rec[c] \/ OpenRank(rec[c]) < OpenRank(rec'[c])
  /\ client'[c] = client[c] \/ OpenRank(client[c]) < OpenRank(client'[c])
  /\ told'[c] = told[c] \/ told[c] = "no"
  /\ (ctxDone[c] => ctxDone'[c]) /\ (bye[c] => bye'[c])

NeverBack == [][\A c \in Calls : Forward(c)]_agentVars

\* A call is answered before anything of it is opened, the bridge runs on an
\* open session and a recorder that is not closed, and the recorder, which the
\* session's audio feeds, is closed after it; a call that we began is hung up
\* when both are closed.
InOrder ==
  \A c \in Calls :
    /\ rec[c] # "none" \/ client[c] # "none" => line[c] \in {"up", "down"}
    /\ client[c] = "open" <=> at[c] \in Talking
    /\ at[c] \in Talking => rec[c] # "closed"
    /\ bye[c] => rec[c] # "open" /\ client[c] # "open" /\ ctxDone[c]
    /\ line[c] = "down" => ctxDone[c]
    /\ cfg.echoTest => client[c] = "none" /\ told[c] = "no"
    /\ ~cfg.recording => rec[c] = "none"

Begun    == {"ringing", "answer"}
Answered == {"setup", "record", "echo", "dial", "bridge", "notify", "mail", "closeClient",
             "closeRec", "hangup"}

\* What InOrder needs at each place of a call.
CourseInv(c) ==
  /\ at[c] \in {"none", "invite"} => line[c] = "none"
  /\ at[c] \in Begun => line[c] \in {"ringing", "down"}
  /\ at[c] \in Answered => line[c] \in {"up", "down"}
  /\ rec[c] # "none" \/ client[c] # "none" =>
       at[c] \in Answered \union {"returned"} /\ line[c] \in {"up", "down"}
  /\ client[c] = "open" <=> at[c] \in Talking
  /\ client[c] = "closed" => at[c] \in {"closeRec", "hangup", "returned"}
  /\ rec[c] # "none" => at[c] \notin {"setup", "record"}
  /\ rec[c] = "closed" => at[c] \in {"hangup", "returned"}
  /\ told[c] # "no" => at[c] \in After
  /\ bye[c] => at[c] = "returned" /\ ctxDone[c]
  /\ line[c] = "down" => ctxDone[c]
  /\ cfg.echoTest => at[c] # "dial" /\ client[c] = "none" /\ told[c] = "no"
  /\ ~cfg.recording => rec[c] = "none"

LEMMA CourseStep ==
  ASSUME CallTypes, Functions, NEW c \in Calls, CourseInv(c), CallStep(c) \/ World(c)
  PROVE  CourseInv(c)' /\ Forward(c)
<1> DEFINE places == /\ at[c] \in Places /\ line[c] \in {"none", "ringing", "up", "down"}
                     /\ rec[c] \in {"none", "open", "closed"}
                     /\ client[c] \in {"none", "open", "closed"}
<1>0. places
  BY DEF CallTypes
<1> USE <1>0 DEF Functions, CourseInv, Forward, Places, Talking, After, Begun, Answered, Go,
                 Afterwards, PlaceRank, LineRank, OpenRank
<1>1. CASE Incoming(c)
  BY <1>1 DEF Incoming
<1>2. CASE RingOver(c)
  BY <1>2 DEF RingOver
<1>3. CASE Answer(c)
  BY <1>3 DEF Answer
<1>4. CASE TestCall(c)
  BY <1>4 DEF TestCall
<1>5. CASE Invite(c)
  BY <1>5 DEF Invite
<1>6. CASE SetUp(c)
  BY <1>6 DEF SetUp
<1>7. CASE Record(c)
  BY <1>7 DEF Record
<1>8. CASE EchoEnds(c) \/ DialFails(c)
  BY <1>8 DEF EchoEnds, DialFails
<1>9. CASE DialOk(c)
  BY <1>9 DEF DialOk
<1>10. ASSUME NEW turns \in BOOLEAN, BridgeReturns(c, turns)
       PROVE  CourseInv(c)' /\ Forward(c)
  BY <1>10 DEF BridgeReturns
<1>11. CASE Notified(c)
  BY <1>11 DEF Notified, Cut
<1>12. CASE CloseClient(c)
  BY <1>12 DEF CloseClient
<1>13. CASE CloseRec(c)
  BY <1>13 DEF CloseRec
<1>14. CASE HangUpOut(c)
  BY <1>14 DEF HangUpOut, Ends
<1>15. CASE World(c)
  BY <1>15 DEF World, PeerHangsUp, Released, Ends, ShutdownReaches
<1>16. CASE MailHangs(c)
  BY <1>16 DEF MailHangs
<1>17. QED
  BY <1>1, <1>2, <1>3, <1>4, <1>5, <1>6, <1>7, <1>8, <1>9, <1>10, <1>11, <1>12, <1>13,
     <1>14, <1>15, <1>16 DEF CallStep

LEMMA CourseHolds == Spec => [](\A c \in Calls : CourseInv(c)) /\ NeverBack
<1> DEFINE Course == \A c \in Calls : CourseInv(c)
<1>1. Init => Course
  BY DEF Init, CourseInv, Begun, Answered, Talking
<1>2. CallTypes /\ AgentInv /\ Course /\ [Next]_agentVars
      => Course' /\ \A c \in Calls : Forward(c)
  <2> SUFFICES ASSUME CallTypes, AgentInv, Course, [Next]_agentVars, NEW d \in Calls
               PROVE  CourseInv(d)' /\ Forward(d)
    BY DEF Course
  <2>1. CourseInv(d)
    OBVIOUS
  <2>2. ASSUME UNCHANGED callVars \/ UNCHANGED Own(d), cfg' = cfg
        PROVE  CourseInv(d)' /\ Forward(d)
    <3>1. /\ at'[d] = at[d] /\ line'[d] = line[d] /\ ctxDone'[d] = ctxDone[d] /\ rec'[d] = rec[d]
          /\ client'[d] = client[d] /\ bye'[d] = bye[d] /\ told'[d] = told[d]
      BY <2>2 DEF callVars, Own
    <3>2. QED
      BY <2>1, <2>2, <3>1 DEF CourseInv, Forward
  <2>3. ASSUME NEW c \in Calls, CallStep(c) \/ World(c)
        PROVE  CourseInv(d)' /\ Forward(d)
    <3>1. CASE c = d
      BY <2>1, <2>3, <3>1, CourseStep DEF AgentInv
    <3>2. CASE c # d
      <4>1. Own(d)' = Own(d)
        BY <2>3, <3>2, CallsAreSeparate DEF AgentInv
      <4>2. cfg' = cfg
        BY <2>3 DEF CallStep, World, Go, Incoming, RingOver, Answer, TestCall, Invite, SetUp,
           Record, EchoEnds, DialOk, DialFails, BridgeReturns, MailHangs, Notified, CloseClient, CloseRec,
           HangUpOut, PeerHangsUp, Released, Ends, ShutdownReaches
      <4>3. QED
        BY <2>2, <4>1, <4>2
    <3>3. QED
      BY <3>1, <3>2
  <2>4. CASE Registering \/ Exit \/ Gone \/ UNCHANGED agentVars
    <3>1. UNCHANGED callVars /\ cfg' = cfg
      BY <2>4 DEF Registering, Exit, Gone, agentVars
    <3>2. QED
      BY <2>2, <3>1
  <2>5. QED
    BY <2>3, <2>4 DEF Next
<1> HIDE DEF Course
<1>3. QED
  BY <1>1, <1>2, AgentTypes, AgentInvHolds, PTL DEF Spec, NeverBack, Course

\* No deferred clean-up or late failure takes a call back to an earlier stage,
\* reopens what was closed, revives a dialog or notifies twice: every step of a call's goroutine
\* is one of at most twelve (agent.go:157-326).
THEOREM AgentNeverBack == Spec => NeverBack
  BY CourseHolds, PTL

\* The order in which a call opens and closes what it needs and is hung up,
\* whichever step fails (agent.go:157-326).
THEOREM AgentInOrder == Spec => []InOrder
<1>1. CallTypes /\ AgentInv /\ (\A c \in Calls : CourseInv(c)) => InOrder
  BY DEF CallTypes, AgentInv, CallInv, InOrder, CourseInv, Holding, Talking, Answered, Places
<1>2. QED
  BY <1>1, AgentTypes, AgentInvHolds, CourseHolds, PTL

---------------------------------------------------------------------------
(* The quality report.  RtpStats against what really happened: a peer that *)
(* sends n packets numbered from f on, modulo 2^16, of which k arrive, the *)
(* last one read being numbered f + m.                                     *)

\* A number below 2^16 is its own remainder, and whole wraps do not show.
LEMMA NumberIsSmall == ASSUME NEW i \in Nat, i < Wrap PROVE Number(i) = i
  BY DEF Number, Wrap

LEMMA NumberForgetsWraps == ASSUME NEW i \in Nat, NEW w \in Nat PROVE Number(i + w * Wrap) = Number(i)
  BY DEF Number, Wrap

LEMMA NumberBounds == ASSUME NEW i \in Nat PROVE Number(i) \in Nat /\ Number(i) < Wrap
  BY DEF Number, Wrap

\* The span is the distance between two packets, but for whole wraps.
LEMMA SpanIsDistance ==
  ASSUME NEW f \in Nat, NEW m \in Nat
  PROVE  Span(Number(f), Number(f + m)) = Number(m)
<1>1. Number(f + m) \in {Number(f) + Number(m), Number(f) + Number(m) - Wrap}
  BY DEF Number, Wrap
<1>2. ASSUME NEW a \in Int, NEW b \in Int, NEW c \in Int, 0 <= b, b < Wrap, c = a + b
      PROVE  Span(a, c) = b
  BY <1>2 DEF Span, Wrap
<1>3. ASSUME NEW a \in Int, NEW b \in Int, NEW c \in Int, 0 <= b, b < Wrap, c = a + b - Wrap
      PROVE  Span(a, c) = b
  BY <1>3 DEF Span, Wrap
<1>4. Number(f) \in Int /\ Number(f + m) \in Int
  BY DEF Number, Wrap
<1>5. Number(m) \in Int /\ 0 <= Number(m) /\ Number(m) < Wrap
  BY DEF Number, Wrap
<1>6. CASE Number(f + m) = Number(f) + Number(m)
  BY <1>2, <1>4, <1>5, <1>6
<1>7. CASE Number(f + m) = Number(f) + Number(m) - Wrap
  BY <1>3, <1>4, <1>5, <1>7
<1> QED
  BY <1>1, <1>6, <1>7

\* A call that ends with its newest packet, before the numbers have wrapped onto
\* themselves (2^16 packets, 21.8 minutes of 20 ms), is reported exactly: what
\* is reported missing is what was sent and did not arrive (agent.go:338-347).
THEOREM ShortCallsAreExact ==
  ASSUME NEW f \in Nat, NEW n \in Nat, 0 < n, n <= Wrap, NEW k \in Nat
  PROVE  Missing(Number(f), Number(f + (n - 1)), k) = n - k
<1>1. n - 1 \in Nat /\ n - 1 < Wrap
  BY DEF Wrap
<1>2. Expected(Number(f), Number(f + (n - 1))) = n - 1 + 1
  BY <1>1, NumberIsSmall, SpanIsDistance DEF Expected
<1> QED
  BY <1>2 DEF Missing, Wrap

\* Beyond that every further 2^16 packets are left out of the reckoning: the
\* span counts one wrap at most (agent.go:339-341), so a long call that lost
\* packets is reported as if it had received more than were sent.
THEOREM LongCallsAreShort ==
  ASSUME NEW f \in Nat, NEW n \in Nat, 0 < n, n <= Wrap, NEW w \in Nat, NEW k \in Nat
  PROVE  LET sent == n + w * Wrap
         IN  Missing(Number(f), Number(f + (sent - 1)), k) = (sent - k) - w * Wrap
<1> DEFINE sent == n + w * Wrap
<1>1. n - 1 \in Nat /\ n - 1 < Wrap /\ w * Wrap \in Nat /\ n \in Int
  BY DEF Wrap
<1>2. sent - 1 = (n - 1) + w * Wrap /\ sent - 1 \in Nat
  BY <1>1
<1>3. Number(sent - 1) = n - 1
  BY <1>1, <1>2, NumberIsSmall, NumberForgetsWraps
<1>4. Span(Number(f), Number(f + (sent - 1))) = n - 1
  BY <1>2, <1>3, SpanIsDistance
<1> HIDE DEF sent
<1>5. Missing(Number(f), Number(f + (sent - 1)), k) = (n - 1) + 1 - k
  BY <1>4 DEF Missing, Expected
<1>6. (n - 1) + 1 - k = ((n + w * Wrap) - k) - w * Wrap
  BY <1>1
<1> QED
  BY <1>5, <1>6 DEF sent

\* A late packet in the place of the newest hides as many losses as it is late
\* by, and a call without loss is then reported with a negative one.
THEOREM LateLastPacketHidesLoss ==
  ASSUME NEW f \in Nat, NEW n \in Nat, n <= Wrap, NEW late \in Nat, late < n, NEW k \in Nat
  PROVE  Missing(Number(f), Number(f + (n - 1 - late)), k) = (n - k) - late
<1>1. n \in Int /\ late \in Int /\ k \in Int
  OBVIOUS
<1>2. n - 1 - late \in Nat /\ n - 1 - late < Wrap
  BY DEF Wrap
<1>3. Expected(Number(f), Number(f + (n - 1 - late))) = n - 1 - late + 1
  BY <1>2, NumberIsSmall, SpanIsDistance DEF Expected
<1> QED
  BY <1>1, <1>3 DEF Missing

\* The warning is never given for a call that received all it was sent, however
\* long it was and whichever packet came last, duplicates included.
THEOREM NoFalseAlarm ==
  ASSUME NEW f \in Nat, NEW m \in Nat, NEW k \in Nat, k > m
  PROVE  ~Warns(Number(f), Number(f + m), k)
<1> DEFINE e == Expected(Number(f), Number(f + m))
<1>1. Number(m) \in Nat /\ Number(m) <= m
  BY DEF Number, Wrap
<1>2. e = Number(m) + 1
  BY SpanIsDistance DEF Expected
<1>3. e \in Nat /\ e - k \in Int /\ e > 0 /\ e - k <= 0
  <2> HIDE DEF e
  <2> QED
    BY <1>1, <1>2
<1>4. ~(100 * (e - k) >= e)
  <2> HIDE DEF e
  <2> QED
    BY <1>3
<1> QED
  BY <1>4 DEF Warns, Missing
===========================================================================
