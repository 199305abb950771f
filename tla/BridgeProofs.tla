---------------------------- MODULE BridgeProofs ----------------------------
(***************************************************************************)
(* A call of any length, over a channel, a pacing buffer and frames of any *)
(* size: the safety properties of Bridge, from its type invariant and one  *)
(* strengthening for each.                                                 *)
(***************************************************************************)
EXTENDS Bridge, RingBufferTheorems

USE DEF Finish, Touch, AddTurn

---------------------------------------------------------------------------
(* The type invariant: one lemma per family of steps. *)

\* send on the reason channel never leaves it empty (bridge.go:397-402).
LEMMA SendType ==
  ASSUME CallTypeOK, NEW r \in Reasons, Send(r)
  PROVE  reason' \in Seq(Reasons) /\ Len(reason') <= 3 /\ reason' # << >>
<1>0. reason \in Seq(Reasons) /\ Len(reason) \in Nat /\ Len(reason) <= 3
  BY LenProperties DEF CallTypeOK
<1>1. CASE Len(reason) < 3
  <2>1. /\ Append(reason, r) \in Seq(Reasons)
        /\ Len(Append(reason, r)) = Len(reason) + 1
    BY <1>0, AppendProperties
  <2>2. reason' = Append(reason, r)
    BY <1>1 DEF Send
  <2>3. QED
    BY <1>0, <1>1, <2>1, <2>2
<1>2. CASE ~(Len(reason) < 3)
  <2>1. reason' = reason
    BY <1>2 DEF Send
  <2>2. QED
    BY <1>0, <1>2, <2>1
<1>3. QED
  BY <1>1, <1>2

LEMMA TypeInit == Init => TypeOK
<1> SUFFICES ASSUME Init PROVE TypeOK
  OBVIOUS
<1> USE BridgeAssumption, ClientAssumption DEF Init, ClientInit
<1>1. ClientTypeOK /\ CallTypeOK /\ PumpTypeOK
  BY DEF ClientTypeOK, CallTypeOK, PumpTypeOK, Turns
<1>2. EvTypeOK /\ AudioTypeOK
  BY DEF EvTypeOK, AudioTypeOK, Turns
<1>3. FlagsTypeOK
  BY DEF FlagsTypeOK
<1>4. ObsTypeOK
  BY DEF ObsTypeOK
<1>5. QED
  BY <1>1, <1>2, <1>3, <1>4 DEF TypeOK

\* What a step that leaves Run's own variables alone does to their types.
LEMMA CallSame ==
  ASSUME CallTypeOK, UNCHANGED <<timer, run, reason, result>>
  PROVE  CallTypeOK'
BY DEF CallTypeOK

LEMMA TypeRun ==
  ASSUME TypeOK, RunStep
  PROVE  TypeOK'
<1> USE DEF TypeOK, clientVars, upVars, downVars, evVars, shared
<1>1. CASE GreetOk
  <2>1. ClientTypeOK' /\ AudioTypeOK' /\ ObsTypeOK'
    BY <1>1 DEF GreetOk, ClientTypeOK, AudioTypeOK, ObsTypeOK
  <2>2. CallTypeOK' /\ PumpTypeOK' /\ EvTypeOK'
    BY <1>1 DEF GreetOk, CallTypeOK, PumpTypeOK, EvTypeOK
  <2>3. FlagsTypeOK'
    BY <1>1 DEF GreetOk, FlagsTypeOK
  <2>4. QED
    BY <2>1, <2>2, <2>3
<1>2. CASE GreetFails
  <2>1. ClientTypeOK'
    BY <1>2 DEF GreetFails, ClientTypeOK
  <2>2. PumpTypeOK' /\ EvTypeOK'
    BY <1>2 DEF GreetFails, PumpTypeOK, EvTypeOK
  <2>3. AudioTypeOK' /\ ObsTypeOK'
    BY <1>2 DEF GreetFails, AudioTypeOK, ObsTypeOK
  <2>4. CallTypeOK'
    BY <1>2 DEF GreetFails, CallTypeOK, EvTypeOK
  <2>5. FlagsTypeOK'
    BY <1>2 DEF GreetFails, FlagsTypeOK
  <2>6. QED
    BY <2>1, <2>2, <2>3, <2>4, <2>5
<1>3. CASE Return
  <2>1. ClientTypeOK'
    BY <1>3 DEF Return, ClientTypeOK
  <2>2. PumpTypeOK' /\ EvTypeOK'
    BY <1>3 DEF Return, PumpTypeOK, EvTypeOK
  <2>3. AudioTypeOK' /\ ObsTypeOK'
    BY <1>3 DEF Return, AudioTypeOK, ObsTypeOK
  <2>4. CallTypeOK'
    <3>1. reason # << >> => /\ Head(reason) \in Reasons
                            /\ Tail(reason) \in Seq(Reasons)
                            /\ Len(Tail(reason)) = Len(reason) - 1
      BY HeadTailProperties DEF CallTypeOK
    <3>2. reason' \in Seq(Reasons) /\ Len(reason') <= 3
      <4>1. reason \in Seq(Reasons) /\ Len(reason) \in Nat /\ Len(reason) <= 3
        BY LenProperties DEF CallTypeOK
      <4>2. reason' = IF reason = << >> THEN reason ELSE Tail(reason)
        BY <1>3 DEF Return
      <4>3. QED
        BY <3>1, <4>1, <4>2
    <3>3. result' \in [turns : Turns, why : Reasons \union {"running", "greeting failed", "call ended"}]
      BY <1>3, <3>1 DEF Return, CallTypeOK, EvTypeOK
    <3>4. QED
      BY <1>3, <3>2, <3>3 DEF Return, CallTypeOK
  <2>5. FlagsTypeOK'
    BY <1>3 DEF Return, FlagsTypeOK
  <2>6. QED
    BY <2>1, <2>2, <2>3, <2>4, <2>5
<1>4. QED
  BY <1>1, <1>2, <1>3 DEF RunStep

LEMMA TypeUp ==
  ASSUME TypeOK, UpStep
  PROVE  TypeOK'
<1> USE DEF TypeOK, clientVars, callVars, upVars, downVars, evVars, shared
<1>1. UNCHANGED <<conn, loop, held, events, nread>> \/ UpWriteFails
  BY DEF UpStep, UpCheck, UpRead, UpLock, UpWriteOk, UpLeave, Lock, WriteOk
<1>2. ClientTypeOK'
  BY DEF UpStep, UpCheck, UpRead, UpLock, UpWriteOk, UpWriteFails, UpLeave, Lock, WriteOk,
         WriteFails, ClientTypeOK, Writers
<1>3. EvTypeOK' /\ AudioTypeOK' /\ ObsTypeOK'
  BY DEF UpStep, UpCheck, UpRead, UpLock, UpWriteOk, UpWriteFails, UpLeave,
         EvTypeOK, AudioTypeOK, ObsTypeOK
<1>4. PumpTypeOK'
  BY DEF UpStep, UpCheck, UpRead, UpLock, UpWriteOk, UpWriteFails, UpLeave, PumpTypeOK
<1>5. FlagsTypeOK'
  <2>1. CASE \E some, err \in BOOLEAN : UpRead(some, err)
    BY <2>1 DEF UpRead, FlagsTypeOK
  <2>2. CASE UpCheck \/ UpLock \/ UpWriteOk \/ UpWriteFails \/ UpLeave
    BY <2>2, ZenonT(60) DEF UpCheck, UpLock, UpWriteOk, UpWriteFails, UpLeave, Lock, WriteOk,
         WriteFails, FlagsTypeOK
  <2>3. QED
    BY <2>1, <2>2 DEF UpStep
<1>6. CallTypeOK'
  BY SendType
     DEF UpStep, UpCheck, UpRead, UpLock, UpWriteOk, UpWriteFails, UpLeave, CallTypeOK, Reasons
<1>7. QED
  BY <1>2, <1>3, <1>4, <1>5, <1>6

LEMMA TypeDown ==
  ASSUME TypeOK, DownStep
  PROVE  TypeOK'
<1> USE DEF TypeOK, clientVars, callVars, upVars, downVars, evVars, shared
<1>1. ClientTypeOK' /\ EvTypeOK'
  BY DEF DownStep, PaceStop, PaceTick, PaceLoad, PaceWriteOk, PaceWriteFails, PaceLeave,
         ClientTypeOK, EvTypeOK
<1>2. PumpTypeOK'
  <2>1. buf \in Seq({Audio}) /\ FrameSize \in Nat
    BY BridgeAssumption DEF AudioTypeOK
  <2>2. TakeCount(buf, FrameSize) \in 0..FrameSize
    <3>1. /\ TakeCount(buf, FrameSize) \in Nat
          /\ TakeCount(buf, FrameSize) <= FrameSize
      BY <2>1, TakeProperties
    <3>2. QED
      BY <2>1, <3>1
  <2>3. CASE PaceTick
    BY <2>2, <2>3 DEF PaceTick, PumpTypeOK, FlagsTypeOK
  <2>4. CASE PaceWriteOk
    BY <2>4, BridgeAssumption DEF PaceWriteOk, PumpTypeOK
  <2>5. CASE PaceStop \/ PaceLoad \/ PaceWriteFails \/ PaceLeave
    BY <2>5 DEF PaceStop, PaceLoad, PaceWriteFails, PaceLeave, PumpTypeOK
  <2>6. QED
    BY <2>3, <2>4, <2>5 DEF DownStep
<1>3. AudioTypeOK'
  <2>1. /\ buf \in Seq({Audio}) /\ FrameSize \in Nat /\ Len(buf) \in Nat
        /\ Len(buf) <= BufferCap /\ BufferCap \in Nat
    BY BridgeAssumption, LenProperties DEF AudioTypeOK
  <2>2. /\ TakeRest(buf, FrameSize) \in Seq({Audio})
        /\ Len(TakeRest(buf, FrameSize)) <= BufferCap
    <3>1. /\ TakeRest(buf, FrameSize) \in Seq({Audio})
          /\ TakeCount(buf, FrameSize) \in Nat
          /\ Len(TakeRest(buf, FrameSize)) = Len(buf) - TakeCount(buf, FrameSize)
      BY <2>1, TakeProperties
    <3>2. QED
      BY <2>1, <3>1
  <2>3. CASE PaceTick
    BY <2>2, <2>3 DEF PaceTick, AudioTypeOK
  <2>4. CASE PaceLoad
    BY <2>4, BridgeAssumption DEF PaceLoad, AudioTypeOK, Lesser
  <2>5. CASE PaceStop \/ PaceWriteOk \/ PaceWriteFails \/ PaceLeave
    BY <2>5 DEF PaceStop, PaceWriteOk, PaceWriteFails, PaceLeave, AudioTypeOK
  <2>6. QED
    BY <2>3, <2>4, <2>5 DEF DownStep
<1>4. FlagsTypeOK'
  BY ZenonT(60) DEF DownStep, PaceStop, PaceTick, PaceLoad, PaceWriteOk, PaceWriteFails, PaceLeave,
         FlagsTypeOK
<1>5. ObsTypeOK'
  <2>1. CASE PaceLoad
    BY <2>1 DEF PaceLoad, ObsTypeOK
  <2>2. CASE PaceWriteOk
    BY <2>2 DEF PaceWriteOk, ObsTypeOK, Lesser
  <2>3. CASE PaceStop \/ PaceTick \/ PaceWriteFails \/ PaceLeave
    BY <2>3 DEF PaceStop, PaceTick, PaceWriteFails, PaceLeave, ObsTypeOK
  <2>4. QED
    BY <2>1, <2>2, <2>3 DEF DownStep
<1>6. CallTypeOK'
  <2>1. CASE PaceWriteFails
    BY <2>1, SendType DEF PaceWriteFails, CallTypeOK, Reasons
  <2>2. CASE PaceStop \/ PaceTick \/ PaceLoad \/ PaceWriteOk \/ PaceLeave
    BY <2>2 DEF PaceStop, PaceTick, PaceLoad, PaceWriteOk, PaceLeave, CallTypeOK
  <2>3. QED
    BY <2>1, <2>2 DEF DownStep
<1>7. QED
  BY <1>1, <1>2, <1>3, <1>4, <1>5, <1>6

\* Receiving touches the channel only.
LEMMA ReceiveType ==
  ASSUME TypeOK, NEW k, Receive(k)
  PROVE  /\ ClientTypeOK' /\ CallTypeOK' /\ PumpTypeOK'
         /\ buf' = buf /\ dropped' = dropped /\ starved' = starved
<1> USE DEF TypeOK, callVars, upVars, downVars
<1>1. ClientTypeOK'
  <2>1. /\ events \in Seq(EventKinds) /\ Len(events) \in Nat /\ Len(events) <= ChanCap
        /\ events # << >>
    BY LenProperties DEF ClientTypeOK, Receive
  <2>2. Tail(events) \in Seq(EventKinds) /\ Len(Tail(events)) = Len(events) - 1
    BY <2>1, HeadTailProperties
  <2>3. events' \in Seq(EventKinds) /\ Len(events') <= ChanCap
    BY <2>1, <2>2, ClientAssumption DEF Receive
  <2>4. QED
    BY <2>3 DEF Receive, ClientTypeOK
<1>2. CallTypeOK'
  BY CallSame DEF Receive
<1>3. PumpTypeOK'
  BY DEF Receive, PumpTypeOK
<1>4. QED
  BY <1>1, <1>2, <1>3 DEF Receive

LEMMA TypeEvent ==
  ASSUME TypeOK, EvEvent
  PROVE  TypeOK'
<1> USE DEF TypeOK
<1>1. PICK k : Receive(k)
  BY DEF EvEvent, EvCreated, EvDelta, EvAudioDone, EvRespDone, EvStarted, EvStopped, EvInText,
         EvOutText, EvIgnored
<1>2. /\ ClientTypeOK' /\ CallTypeOK' /\ PumpTypeOK'
      /\ buf' = buf /\ dropped' = dropped /\ starved' = starved
  BY <1>1, ReceiveType
<1>3. AudioTypeOK'
  BY <1>2 DEF AudioTypeOK
<1>4. FlagsTypeOK'
  <2>1. UNCHANGED <<dialDone, fault, mediaOpen, ctxDone, upErr, idleTick>>
    BY <1>1 DEF Receive, callVars, upVars
  <2>2. QED
    BY <2>1, Zenon DEF FlagsTypeOK, EvEvent, EvCreated, EvDelta, EvAudioDone, EvRespDone,
         EvStarted, EvStopped, EvInText, EvOutText, EvIgnored
<1>5. EvTypeOK'
  <2>1. CASE EvInText \/ EvOutText
    <3>1. /\ Append(turns, "caller") \in Turns
          /\ Append(turns, "assistant") \in Turns
      BY AppendProperties DEF EvTypeOK, Turns
    <3>2. /\ turns' \in {turns, Append(turns, "caller"), Append(turns, "assistant")}
          /\ quiet' \in {0, quiet}
          /\ ev' = ev /\ bargeIns' = bargeIns /\ selfBargeIns' = selfBargeIns
      BY <2>1 DEF EvInText, EvOutText
    <3>3. turns' \in Turns
      BY <3>1, <3>2 DEF EvTypeOK
    <3>4. QED
      BY <3>2, <3>3, BridgeAssumption DEF EvTypeOK
  <2>2. CASE EvCreated \/ EvDelta \/ EvAudioDone \/ EvRespDone \/ EvStopped \/ EvIgnored
    BY <2>2, BridgeAssumption
       DEF EvCreated, EvDelta, EvAudioDone, EvRespDone, EvStopped, EvIgnored, EvTypeOK
  <2>3. CASE EvStarted
    BY <2>3 DEF EvStarted, EvTypeOK
  <2>4. QED
    BY <2>1, <2>2, <2>3 DEF EvEvent
<1>6. ObsTypeOK'
  <2>1. CASE EvCreated
    <3>1. obs.created + 1 \in Nat
      BY DEF ObsTypeOK
    <3>2. QED
      BY <2>1, <3>1 DEF EvCreated, ObsTypeOK
  <2>2. CASE EvDelta
    BY <2>2 DEF EvDelta, ObsTypeOK
  <2>3. CASE EvStarted \/ EvStopped
    BY <2>3 DEF EvStarted, EvStopped, ObsTypeOK
  <2>4. CASE EvAudioDone \/ EvRespDone \/ EvInText \/ EvOutText \/ EvIgnored
    BY <2>4 DEF EvAudioDone, EvRespDone, EvInText, EvOutText, EvIgnored, ObsTypeOK
  <2>5. QED
    BY <2>1, <2>2, <2>3, <2>4 DEF EvEvent
<1>7. QED
  BY <1>2, <1>3, <1>4, <1>5, <1>6

LEMMA TypeEv ==
  ASSUME TypeOK, EvStep
  PROVE  TypeOK'
<1> USE DEF TypeOK, clientVars, callVars, upVars, downVars
<1>1. CASE EvStop \/ EvLeave
  <2>1. ClientTypeOK' /\ AudioTypeOK' /\ ObsTypeOK'
    BY <1>1 DEF EvStop, EvLeave, ClientTypeOK, AudioTypeOK, ObsTypeOK, shared
  <2>2. CallTypeOK' /\ PumpTypeOK' /\ EvTypeOK'
    <3>1. CallTypeOK'
      BY <1>1, CallSame DEF EvStop, EvLeave
    <3>2. PumpTypeOK' /\ EvTypeOK'
      BY <1>1 DEF EvStop, EvLeave, PumpTypeOK, EvTypeOK
    <3>3. QED
      BY <3>1, <3>2
  <2>3. FlagsTypeOK'
    BY <1>1, Zenon DEF EvStop, EvLeave, FlagsTypeOK, shared
  <2>4. QED
    BY <2>1, <2>2, <2>3
<1>2. CASE EvTick \/ EvClosed
  <2>1. ClientTypeOK' /\ AudioTypeOK' /\ ObsTypeOK'
    BY <1>2 DEF EvTick, EvClosed, ClientTypeOK, AudioTypeOK, ObsTypeOK, shared
  <2>2. PumpTypeOK' /\ EvTypeOK'
    BY <1>2 DEF EvTick, EvClosed, PumpTypeOK, EvTypeOK
  <2>3. CallTypeOK'
    BY <1>2, SendType DEF EvTick, EvClosed, CallTypeOK, Reasons
  <2>4. FlagsTypeOK'
    BY <1>2, Zenon DEF EvTick, EvClosed, FlagsTypeOK, shared
  <2>5. QED
    BY <2>1, <2>2, <2>3, <2>4
<1>3. CASE EvEvent
  BY <1>3, TypeEvent
<1>4. CASE EvBuffer
  <2>1. AudioTypeOK'
    <3> DEFINE p == [i \in 1..DeltaSize |-> Audio]
    <3>1. p \in Seq({Audio})
      BY BridgeAssumption, SeqDef
    <3>2. buf' = WriteBuf(buf, p, BufferCap) /\ dropped' = dropped + DroppedBy(buf, p, BufferCap)
      BY <1>4 DEF EvBuffer
    <3>3. buf \in Seq({Audio}) /\ BufferCap \in Nat /\ dropped \in Nat
      BY BridgeAssumption DEF AudioTypeOK
    <3> HIDE DEF p
    <3>4. /\ WriteBuf(buf, p, BufferCap) \in Seq({Audio})
          /\ DroppedBy(buf, p, BufferCap) \in Nat
          /\ Len(WriteBuf(buf, p, BufferCap)) <= BufferCap
      BY <3>1, <3>3, WriteBufLength
    <3>5. buf' \in Seq({Audio}) /\ dropped' \in Nat /\ Len(buf') <= BufferCap
      BY <3>2, <3>3, <3>4
    <3>6. QED
      BY <1>4, <3>5 DEF EvBuffer, AudioTypeOK
  <2>2. ClientTypeOK' /\ ObsTypeOK'
    BY <1>4 DEF EvBuffer, ClientTypeOK, ObsTypeOK
  <2>3. CallTypeOK' /\ PumpTypeOK' /\ EvTypeOK'
    <3>1. CallTypeOK'
      BY <1>4, CallSame DEF EvBuffer
    <3>2. PumpTypeOK' /\ EvTypeOK'
      BY <1>4 DEF EvBuffer, PumpTypeOK, EvTypeOK
    <3>3. QED
      BY <3>1, <3>2
  <2>4. FlagsTypeOK'
    BY <1>4, Zenon DEF EvBuffer, FlagsTypeOK
  <2>5. QED
    BY <2>1, <2>2, <2>3, <2>4
<1>5. CASE EvFlush
  <2>1. ClientTypeOK'
    BY <1>5 DEF EvFlush, ClientTypeOK
  <2>2. ObsTypeOK'
    <3>1. [obs EXCEPT !.tail = 0]
            \in [created : Nat, cancels : Nat, tail : 0..2, fed : BOOLEAN,
                 rises : Nat, miscounts : Nat, talking : BOOLEAN]
      BY DEF ObsTypeOK
    <3>2. obs' = [[obs EXCEPT !.tail = 0] EXCEPT !.fed = FALSE]
      BY <1>5 DEF EvFlush
    <3>3. QED
      BY <3>1, <3>2 DEF ObsTypeOK
  <2>3. CallTypeOK' /\ PumpTypeOK'
    <3>1. CallTypeOK'
      BY <1>5, CallSame DEF EvFlush
    <3>2. PumpTypeOK'
      BY <1>5 DEF EvFlush, PumpTypeOK
    <3>3. QED
      BY <3>1, <3>2
  <2>4. EvTypeOK'
    BY <1>5, BridgeAssumption DEF EvFlush, CancelOnce, EvTypeOK
  <2>5. AudioTypeOK'
    BY <1>5, BridgeAssumption DEF EvFlush, ResetBuf, AudioTypeOK
  <2>6. FlagsTypeOK'
    BY <1>5, Zenon DEF EvFlush, CancelOnce, FlagsTypeOK
  <2>7. QED
    BY <2>1, <2>2, <2>3, <2>4, <2>5, <2>6
<1>6. CASE EvLock \/ EvWrite
  <2>1. ClientTypeOK'
    BY <1>6 DEF EvLock, EvWrite, Lock, WriteOk, WriteFails, Writers, ClientTypeOK
  <2>2. CallTypeOK' /\ PumpTypeOK'
    <3>1. CallTypeOK'
      BY <1>6, CallSame DEF EvLock, EvWrite
    <3>2. PumpTypeOK'
      BY <1>6 DEF EvLock, EvWrite, PumpTypeOK
    <3>3. QED
      BY <3>1, <3>2
  <2>3. EvTypeOK' /\ AudioTypeOK'
    BY <1>6, BridgeAssumption DEF EvLock, EvWrite, EvTypeOK, AudioTypeOK, shared
  <2>4. FlagsTypeOK'
    BY <1>6, Zenon DEF EvLock, EvWrite, Lock, WriteOk, WriteFails, FlagsTypeOK, shared
  <2>5. ObsTypeOK'
    BY <1>6 DEF EvLock, EvWrite, ObsTypeOK
  <2>6. QED
    BY <2>1, <2>2, <2>3, <2>4, <2>5
<1>7. QED
  BY <1>1, <1>2, <1>3, <1>4, <1>5, <1>6 DEF EvStep

\* The read loop and the world around the call.
LEMMA TypeLoop ==
  ASSUME TypeOK, LoopStep \/ SessionFault \/ \E k \in EventKinds : ReadEvent(k)
  PROVE  TypeOK'
<1> USE DEF TypeOK, LoopStep, SessionFault, ReadEvent
<1>1. UNCHANGED bridgeVars /\ UNCHANGED <<mediaOpen, ctxDone>>
  OBVIOUS
<1>2. CallTypeOK' /\ PumpTypeOK' /\ EvTypeOK' /\ AudioTypeOK' /\ ObsTypeOK'
  <2>1. CallTypeOK' /\ PumpTypeOK'
    <3>1. CallTypeOK'
      BY <1>1, CallSame DEF bridgeVars
    <3>2. PumpTypeOK'
      BY <1>1 DEF bridgeVars, upVars, downVars, PumpTypeOK
    <3>3. QED
      BY <3>1, <3>2
  <2>2. EvTypeOK' /\ AudioTypeOK'
    BY <1>1 DEF bridgeVars, evVars, shared, EvTypeOK, AudioTypeOK
  <2>3. ObsTypeOK'
    BY <1>1 DEF bridgeVars, ObsTypeOK
  <2>4. QED
    BY <2>1, <2>2, <2>3
<1>3. FlagsTypeOK'
  <2>1. CASE LoopFails \/ LoopPush \/ LoopQuits \/ LoopGarbled \/ ConnDrops
    BY <1>1, <2>1, Zenon DEF bridgeVars, upVars, evVars, shared, FlagsTypeOK, LoopFails, LoopPush,
                LoopQuits, LoopGarbled, ConnDrops
  <2>2. ASSUME NEW k \in EventKinds, LoopRead(k)
        PROVE  FlagsTypeOK'
    <3>1. UNCHANGED <<dialDone, fault>>
      BY <2>2 DEF LoopRead
    <3>2. QED
      BY <1>1, <3>1, Zenon DEF bridgeVars, upVars, evVars, shared, FlagsTypeOK
  <2>3. QED
    BY <2>1, <2>2
<1>4. ClientTypeOK'
  <2>1. CASE LoopPush
    <3>1. /\ events \in Seq(EventKinds) /\ Len(events) \in Nat /\ held \in EventKinds
      BY <2>1, LenProperties DEF ClientTypeOK, LoopPush
    <3>2. Append(events, held) \in Seq(EventKinds) /\ Len(Append(events, held)) = Len(events) + 1
      BY <3>1, AppendProperties
    <3>3. events' \in Seq(EventKinds) /\ Len(events') <= ChanCap
      BY <2>1, <3>1, <3>2, ClientAssumption DEF LoopPush
    <3>4. QED
      BY <2>1, <3>3 DEF LoopPush, ClientTypeOK
  <2>2. CASE LoopFails \/ LoopQuits \/ LoopGarbled \/ ConnDrops
    BY <2>2 DEF LoopFails, LoopQuits, LoopGarbled, ConnDrops, ClientTypeOK
  <2>3. CASE \E k \in EventKinds : LoopRead(k)
    BY <2>3, ClientAssumption DEF LoopRead, ClientTypeOK
  <2>4. QED
    BY <2>1, <2>2, <2>3
<1>5. QED
  BY <1>2, <1>3, <1>4

LEMMA TypeWorld ==
  ASSUME TypeOK, TimerFires \/ HangUp \/ MediaCloses \/ Second \/ Close
  PROVE  TypeOK'
<1> USE DEF TypeOK, TimerFires, HangUp, MediaCloses, Second, Close, DialogCancelled, ClientClose,
            clientVars, callVars, upVars, downVars, evVars, shared, bridgeVars
<1>1. ClientTypeOK'
  BY DEF ClientTypeOK
<1>2. CallTypeOK'
  BY DEF CallTypeOK
<1>3. PumpTypeOK'
  BY DEF PumpTypeOK
<1>4. EvTypeOK'
  BY BridgeAssumption DEF EvTypeOK, Lesser
<1>5. AudioTypeOK' /\ ObsTypeOK'
  BY DEF AudioTypeOK, ObsTypeOK
<1>6. FlagsTypeOK'
  BY ZenonT(60) DEF FlagsTypeOK
<1>7. QED
  BY <1>1, <1>2, <1>3, <1>4, <1>5, <1>6

LEMMA TypeStutter ==
  ASSUME TypeOK, UNCHANGED vars
  PROVE  TypeOK'
<1> USE DEF TypeOK, vars, clientVars, callVars, upVars, downVars, evVars, shared
<1>1. ClientTypeOK' /\ PumpTypeOK'
  BY DEF ClientTypeOK, PumpTypeOK
<1>2. CallTypeOK'
  BY DEF CallTypeOK
<1>3. EvTypeOK' /\ AudioTypeOK' /\ ObsTypeOK'
  BY DEF EvTypeOK, AudioTypeOK, ObsTypeOK
<1>4. FlagsTypeOK'
  BY Zenon DEF FlagsTypeOK
<1>5. QED
  BY <1>1, <1>2, <1>3, <1>4

\* Types of the whole call: the pacing buffer within its cap, the channels
\* within their capacity, every frame a frame (bridge.go, client.go).
THEOREM BridgeTypeOK == Spec => []TypeOK
<1>1. TypeOK /\ [Next]_vars => TypeOK'
  BY TypeRun, TypeUp, TypeDown, TypeEv, TypeLoop, TypeWorld, TypeStutter
     DEF Next, Internal, Environment, Finished
<1>2. QED
  BY <1>1, TypeInit, PTL DEF Spec

---------------------------------------------------------------------------
(* The goroutines of a call. *)

\* The goroutines are started together, and Run waits for all of them.
LifeInv ==
  /\ up = "idle" <=> down = "idle"
  /\ up = "idle" <=> ev = "idle"
  /\ run = "greet" => up = "idle"
  /\ run = "wait" => up # "idle"
  /\ run = "returned" => /\ up # "idle" => up = "done" /\ down = "done" /\ ev = "done"
                         /\ result.turns = turns

LEMMA LifeStep == LifeInv /\ [Next]_vars => LifeInv'
<1> SUFFICES ASSUME LifeInv, [Next]_vars PROVE LifeInv'
  OBVIOUS
<1> USE DEF clientVars, callVars, upVars, downVars, evVars, shared, bridgeVars, LifeInv
<1>1. CASE GreetOk \/ GreetFails
  <2>1. CASE GreetOk
    BY <2>1 DEF GreetOk
  <2>2. CASE GreetFails
    <3>1. /\ run = "greet" /\ run' = "returned" /\ result'.turns = turns /\ turns' = turns
          /\ up' = up /\ down' = down /\ ev' = ev
      BY <2>2 DEF GreetFails
    <3>2. QED
      BY <3>1
  <2>3. QED
    BY <1>1, <2>1, <2>2
<1>2. CASE Return
  BY <1>2 DEF Return
<1>3. CASE UpStep
  <2>1. /\ run' = run /\ result' = result /\ down' = down /\ ev' = ev /\ turns' = turns
        /\ up \notin {"idle", "done"} /\ up' # "idle"
    BY <1>3 DEF UpStep, UpCheck, UpRead, UpLock, UpWriteOk, UpWriteFails, UpLeave
  <2>2. QED
    BY <2>1
<1>4. CASE DownStep
  <2>1. /\ run' = run /\ result' = result /\ up' = up /\ ev' = ev /\ turns' = turns
        /\ down \notin {"idle", "done"} /\ down' # "idle"
    BY <1>4 DEF DownStep, PaceStop, PaceTick, PaceLoad, PaceWriteOk, PaceWriteFails, PaceLeave
  <2>2. QED
    BY <2>1
<1>5. CASE EvStep
  <2>1. run' = run /\ result' = result /\ up' = up /\ down' = down
    BY <1>5 DEF EvStep, EvEvent, EvCreated, EvDelta, EvAudioDone, EvRespDone, EvStarted,
         EvStopped, EvInText, EvOutText, EvIgnored, Receive, EvStop, EvTick, EvClosed, EvBuffer,
         EvFlush, EvLock, EvWrite, EvLeave
  <2>2. ev \notin {"idle", "done"} /\ ev' # "idle"
    BY <1>5 DEF EvStep, EvEvent, EvCreated, EvDelta, EvAudioDone, EvRespDone, EvStarted,
         EvStopped, EvInText, EvOutText, EvIgnored, Receive, EvStop, EvTick, EvClosed, EvBuffer,
         EvFlush, EvLock, EvWrite, EvLeave, CancelOnce
  <2>3. QED
    BY <2>1, <2>2
<1>6. CASE LoopStep \/ SessionFault \/ \E k \in EventKinds : ReadEvent(k)
  BY <1>6 DEF LoopStep, SessionFault, ReadEvent
<1>7. CASE TimerFires \/ HangUp \/ MediaCloses \/ Second \/ Close \/ UNCHANGED vars
  BY <1>7 DEF TimerFires, HangUp, MediaCloses, Second, Close, vars
<1>8. QED
  BY <1>1, <1>2, <1>3, <1>4, <1>5, <1>6, <1>7 DEF Next, Internal, Environment, Finished, RunStep

LEMMA LifeHolds == Spec => []LifeInv
<1>1. Init => LifeInv
  BY DEF Init, LifeInv
<1>2. QED
  BY <1>1, LifeStep, PTL DEF Spec

---------------------------------------------------------------------------
(* Mutual exclusion of the websocket's writers. *)

\* Whoever writes owns the mutex, and whoever owns it writes.
MutexInv == /\ up = "write" <=> writeMu = "up"
            /\ ev = "write" <=> writeMu = "ev"

LEMMA MutexStep == LifeInv /\ MutexInv /\ [Next]_vars => MutexInv'
<1> SUFFICES ASSUME LifeInv, MutexInv, [Next]_vars PROVE MutexInv'
  OBVIOUS
<1> USE DEF MutexInv, clientVars, callVars, upVars, downVars, evVars, shared, bridgeVars
<1>1. CASE RunStep
  BY <1>1 DEF RunStep, GreetOk, GreetFails, Return, LifeInv
<1>2. CASE UpStep
  BY <1>2, ClientAssumption
     DEF UpStep, UpCheck, UpRead, UpLock, UpWriteOk, UpWriteFails, UpLeave, Lock, WriteOk,
         WriteFails, Writers
<1>3. CASE DownStep
  BY <1>3 DEF DownStep, PaceStop, PaceTick, PaceLoad, PaceWriteOk, PaceWriteFails, PaceLeave
<1>4. CASE EvStep
  <2>1. CASE EvEvent
    BY <2>1 DEF EvEvent, EvCreated, EvDelta, EvAudioDone, EvRespDone, EvStarted, EvStopped,
         EvInText, EvOutText, EvIgnored, Receive
  <2>2. CASE EvLock \/ EvWrite
    BY <2>2, ClientAssumption DEF EvLock, EvWrite, Lock, WriteOk, WriteFails, Writers
  <2>3. CASE EvStop \/ EvTick \/ EvClosed \/ EvBuffer \/ EvFlush \/ EvLeave
    BY <2>3 DEF EvStop, EvTick, EvClosed, EvBuffer, EvFlush, CancelOnce, EvLeave
  <2>4. QED
    BY <1>4, <2>1, <2>2, <2>3 DEF EvStep
<1>5. CASE LoopStep \/ SessionFault \/ \E k \in EventKinds : ReadEvent(k)
  BY <1>5 DEF LoopStep, SessionFault, ReadEvent, LoopFails, LoopPush, LoopQuits, LoopGarbled,
              ConnDrops, LoopRead
<1>6. CASE TimerFires \/ HangUp \/ MediaCloses \/ Second \/ Close
  BY <1>6 DEF TimerFires, HangUp, MediaCloses, Second, Close, DialogCancelled, ClientClose
<1>7. CASE UNCHANGED vars
  BY <1>7 DEF vars
<1>8. QED
  BY <1>1, <1>2, <1>3, <1>4, <1>5, <1>6, <1>7 DEF Next, Internal, Environment, Finished

LEMMA MutexHolds == Spec => []MutexInv
<1>1. Init => MutexInv
  BY ClientAssumption DEF Init, ClientInit, MutexInv, Writers
<1>2. QED
  BY <1>1, MutexStep, LifeHolds, PTL DEF Spec

\* The websocket never has two writers (client.go:174-177).
THEOREM BridgeWriteExclusive == Spec => []WriteExclusive
<1>1. MutexInv => WriteExclusive
  BY DEF MutexInv, WriteExclusive
<1>2. QED
  BY <1>1, MutexHolds, PTL

---------------------------------------------------------------------------
(* The gate in front of response.cancel. *)

\* A response may be cancelled while it is active; one whose cancel is on its
\* way is spoken for.
Spent == IF responseActive \/ ev \in {"lock", "write"} THEN 1 ELSE 0

\* The flag and a pending cancel exclude each other: the swap cleared it.
CancelInv == /\ obs.cancels + Spent <= obs.created
             /\ ev \in {"lock", "write"} => ~responseActive

LEMMA CancelStep == TypeOK /\ CancelInv /\ [Next]_vars => CancelInv'
<1> SUFFICES ASSUME TypeOK, CancelInv, [Next]_vars PROVE CancelInv'
  OBVIOUS
<1> USE DEF CancelInv, clientVars, callVars, upVars, downVars, evVars, shared, bridgeVars
<1>0. /\ obs.cancels \in Nat /\ obs.created \in Nat
      /\ DOMAIN obs = {"created", "cancels", "tail", "fed", "rises", "miscounts", "talking"}
  BY DEF TypeOK, ObsTypeOK
<1>1. CASE RunStep
  <2>1. obs' = obs /\ responseActive' = responseActive /\ ev' \in {ev, "select"}
    BY <1>1 DEF RunStep, GreetOk, GreetFails, Return
  <2>2. QED
    BY <1>0, <2>1 DEF Spent
<1>2. CASE UpStep
  <2>1. obs' = obs /\ responseActive' = responseActive /\ ev' = ev
    BY <1>2 DEF UpStep, UpCheck, UpRead, UpLock, UpWriteOk, UpWriteFails, UpLeave
  <2>2. QED
    BY <1>0, <2>1 DEF Spent
<1>3. CASE DownStep
  <2>1. /\ UNCHANGED evVars
        /\ obs'.cancels = obs.cancels /\ obs'.created = obs.created
    BY <1>0, <1>3 DEF DownStep, PaceStop, PaceTick, PaceLoad, PaceWriteOk, PaceWriteFails, PaceLeave
  <2>2. QED
    BY <2>1 DEF Spent
<1>4. CASE EvStep
  <2>1. CASE EvCreated
    BY <1>0, <2>1 DEF EvCreated, Receive, Spent
  <2>2. CASE EvRespDone
    BY <1>0, <2>2 DEF EvRespDone, Receive, Spent
  <2>3. CASE EvDelta \/ EvAudioDone \/ EvStarted \/ EvStopped \/ EvInText \/ EvOutText \/ EvIgnored
    BY <1>0, <2>3 DEF EvDelta, EvAudioDone, EvStarted, EvStopped, EvInText, EvOutText,
         EvIgnored, Receive, Spent
  <2>4. CASE EvFlush
    BY <1>0, <2>4 DEF EvFlush, CancelOnce, Spent
  <2>5. CASE EvLock
    BY <1>0, <2>5 DEF EvLock, Spent
  <2>6. CASE EvWrite
    BY <1>0, <2>6 DEF EvWrite, Spent
  <2>7. CASE EvStop \/ EvTick \/ EvClosed \/ EvBuffer \/ EvLeave
    <3>1. /\ obs'.cancels = obs.cancels /\ obs'.created = obs.created
          /\ responseActive' = responseActive
          /\ ev' \in {ev, "select", "leave", "done"}
      BY <1>0, <2>7 DEF EvStop, EvTick, EvClosed, EvBuffer, EvLeave
    <3>2. QED
      BY <1>0, <3>1 DEF Spent
  <2>8. QED
    BY <1>4, <2>1, <2>2, <2>3, <2>4, <2>5, <2>6, <2>7 DEF EvStep, EvEvent
<1>5. CASE LoopStep \/ SessionFault \/ \E k \in EventKinds : ReadEvent(k)
  BY <1>5 DEF LoopStep, SessionFault, ReadEvent, Spent
<1>6. CASE TimerFires \/ HangUp \/ MediaCloses \/ Second \/ Close
  BY <1>6 DEF TimerFires, HangUp, MediaCloses, Second, Close, Spent
<1>7. CASE UNCHANGED vars
  BY <1>7 DEF vars, Spent
<1>8. QED
  BY <1>1, <1>2, <1>3, <1>4, <1>5, <1>6, <1>7 DEF Next, Internal, Environment, Finished

\* However barge-ins, responses and the end of the call interleave, no cancel
\* is sent twice or without a response (bridge.go:297-305).
THEOREM BridgeCancelGate == Spec => []CancelGate
<1>1. Init => CancelInv
  BY DEF Init, CancelInv, Spent
<1>2. CancelInv => CancelGate
  BY DEF CancelInv, CancelGate, Spent
<1>3. QED
  BY <1>1, <1>2, CancelStep, BridgeTypeOK, PTL DEF Spec

---------------------------------------------------------------------------
(* Barge-in and the frame in flight. *)

\* After a flush, and until audio is buffered again, there is no audio but
\* what was heard since and what the RTP clock holds: one frame together.
QuietInv ==
  obs.fed \/ /\ Len(buf) = 0
             /\ obs.tail + (IF frame.n > 0 THEN 1 ELSE 0) <= 1

LEMMA QuietStep == TypeOK /\ QuietInv /\ [Next]_vars => QuietInv'
<1> SUFFICES ASSUME TypeOK, QuietInv, [Next]_vars PROVE QuietInv'
  OBVIOUS
<1> USE DEF clientVars, callVars, upVars, downVars, evVars, shared, bridgeVars
<1>0. /\ obs.tail \in 0..2 /\ frame.n \in Nat
      /\ DOMAIN obs = {"created", "cancels", "tail", "fed", "rises", "miscounts", "talking"}
      /\ buf \in Seq({Audio}) /\ Len(buf) \in Nat /\ FrameSize \in Nat
  BY BridgeAssumption, LenProperties DEF TypeOK, ObsTypeOK, PumpTypeOK, AudioTypeOK
\* A step that leaves the audio alone, or feeds the buffer, is harmless.
<1>1. ASSUME buf' = buf, frame' = frame, obs'.tail = obs.tail, obs'.fed = obs.fed
      PROVE  QuietInv'
  BY <1>1 DEF QuietInv
<1>2. CASE RunStep \/ UpStep
  <2>1. buf' = buf /\ frame' = frame /\ obs' = obs
    BY <1>2 DEF RunStep, GreetOk, GreetFails, Return, UpStep, UpCheck, UpRead, UpLock, UpWriteOk,
                UpWriteFails, UpLeave
  <2>2. QED
    BY <1>1, <2>1
<1>3. CASE DownStep
  <2>1. CASE PaceTick
    <3>1. /\ TakeCount(buf, FrameSize) \in Nat
          /\ TakeCount(buf, FrameSize) <= Len(buf)
          /\ Len(TakeRest(buf, FrameSize)) = Len(buf) - TakeCount(buf, FrameSize)
      BY <1>0, TakeProperties
    <3>2. frame'.n = TakeCount(buf, FrameSize) /\ buf' = TakeRest(buf, FrameSize) /\ obs' = obs
      BY <2>1 DEF PaceTick
    <3>3. CASE obs.fed
      BY <3>2, <3>3 DEF QuietInv
    <3>4. CASE ~obs.fed
      BY <1>0, <3>1, <3>2, <3>4 DEF QuietInv
    <3>5. QED
      BY <3>3, <3>4
  <2>2. CASE PaceWriteOk
    <3>1. /\ buf' = buf /\ frame'.n = 0 /\ obs'.fed = obs.fed
          /\ obs'.tail = IF frame.n > 0 THEN Lesser(obs.tail + 1, 2) ELSE obs.tail
      BY <1>0, <2>2 DEF PaceWriteOk
    <3>2. QED
      BY <1>0, <3>1 DEF QuietInv, Lesser
  <2>3. CASE PaceStop \/ PaceLoad \/ PaceWriteFails \/ PaceLeave
    BY <1>0, <1>1, <2>3 DEF PaceStop, PaceLoad, PaceWriteFails, PaceLeave
  <2>4. QED
    BY <1>3, <2>1, <2>2, <2>3 DEF DownStep
<1>4. CASE EvStep
  <2>1. CASE EvEvent
    <3>1. buf' = buf /\ frame' = frame /\ obs'.tail = obs.tail /\ obs'.fed = obs.fed
      BY <1>0, <2>1 DEF EvEvent, EvCreated, EvDelta, EvAudioDone, EvRespDone, EvStarted,
           EvStopped, EvInText, EvOutText, EvIgnored, Receive
    <3>2. QED
      BY <1>1, <3>1
  <2>2. CASE EvBuffer
    BY <1>0, <2>2 DEF EvBuffer, QuietInv
  <2>3. CASE EvFlush
    <3>1. Len(buf') = 0 /\ obs'.tail = 0 /\ frame' = frame
      BY <1>0, <2>3, EmptySeq DEF EvFlush, ResetBuf
    <3>2. QED
      BY <1>0, <3>1 DEF QuietInv
  <2>4. CASE EvStop \/ EvTick \/ EvClosed \/ EvLock \/ EvWrite \/ EvLeave
    BY <1>0, <1>1, <2>4 DEF EvStop, EvTick, EvClosed, EvLock, EvWrite, EvLeave
  <2>5. QED
    BY <1>4, <2>1, <2>2, <2>3, <2>4 DEF EvStep
<1>5. CASE LoopStep \/ SessionFault \/ \E k \in EventKinds : ReadEvent(k)
  BY <1>1, <1>5 DEF LoopStep, SessionFault, ReadEvent
<1>6. CASE TimerFires \/ HangUp \/ MediaCloses \/ Second \/ Close
  BY <1>1, <1>6 DEF TimerFires, HangUp, MediaCloses, Second, Close
<1>7. CASE UNCHANGED vars
  BY <1>1, <1>7 DEF vars
<1>8. QED
  BY <1>2, <1>3, <1>4, <1>5, <1>6, <1>7 DEF Next, Internal, Environment, Finished

\* A barge-in is heard within one frame, for every frame size, buffer size
\* and position of the RTP clock (bridge.go:273-296).
THEOREM BridgeQuietWithinOneFrame == Spec => []QuietWithinOneFrame
<1>1. Init => QuietInv
  BY DEF Init, QuietInv
<1>2. TypeOK /\ QuietInv => QuietWithinOneFrame
  BY DEF TypeOK, ObsTypeOK, QuietInv, QuietWithinOneFrame
<1>3. QED
  BY <1>1, <1>2, QuietStep, BridgeTypeOK, PTL DEF Spec

---------------------------------------------------------------------------
(* The starvation counter. *)

\* A frame that is about to be miscounted: the model began to speak between
\* the Take and the Load.
Doomed == IF down = "load" /\ ~frame.wasSpeaking /\ speaking THEN 1 ELSE 0

MiscountInv == obs.miscounts + Doomed <= obs.rises

LEMMA MiscountStep == TypeOK /\ MiscountInv /\ [Next]_vars => MiscountInv'
<1> SUFFICES ASSUME TypeOK, MiscountInv, [Next]_vars PROVE MiscountInv'
  OBVIOUS
<1> USE DEF clientVars, callVars, upVars, downVars, evVars, shared, bridgeVars
<1>0. /\ obs.miscounts \in Nat /\ obs.rises \in Nat
      /\ DOMAIN obs = {"created", "cancels", "tail", "fed", "rises", "miscounts", "talking"}
  BY DEF TypeOK, ObsTypeOK
\* Nothing happens to the counters while the clock stays, or the model does
\* not begin to speak.
<1>1. ASSUME obs'.miscounts = obs.miscounts, obs'.rises = obs.rises,
             frame' = frame, down' = down \/ down' \in {"select", "write", "leave", "done"},
             speaking' => speaking
      PROVE  MiscountInv'
  BY <1>0, <1>1 DEF MiscountInv, Doomed
<1>2. CASE RunStep \/ UpStep
  <2>1. /\ obs' = obs /\ frame' = frame /\ speaking' = speaking
        /\ down' = down \/ down' = "select"
    BY <1>2 DEF RunStep, GreetOk, GreetFails, Return, UpStep, UpCheck, UpRead, UpLock, UpWriteOk,
                UpWriteFails, UpLeave
  <2>2. QED
    BY <1>1, <2>1
<1>3. CASE DownStep
  <2>1. CASE PaceTick
    <3>1. obs' = obs /\ speaking' = speaking /\ frame'.wasSpeaking = speaking
      BY <2>1 DEF PaceTick
    <3>2. QED
      BY <1>0, <3>1 DEF MiscountInv, Doomed
  <2>2. CASE PaceLoad
    <3>1. /\ down = "load" /\ down' = "write" /\ obs'.rises = obs.rises
          /\ obs'.miscounts = obs.miscounts
               + IF (frame.n < FrameSize /\ speaking) /\ ~frame.wasSpeaking THEN 1 ELSE 0
      BY <1>0, <2>2 DEF PaceLoad
    <3>2. QED
      BY <1>0, <3>1 DEF MiscountInv, Doomed
  <2>3. CASE PaceWriteOk
    <3>1. /\ down' = "select" /\ obs'.rises = obs.rises /\ obs'.miscounts = obs.miscounts
      BY <1>0, <2>3 DEF PaceWriteOk
    <3>2. QED
      BY <1>0, <3>1 DEF MiscountInv, Doomed
  <2>4. CASE PaceStop \/ PaceWriteFails \/ PaceLeave
    BY <1>0, <1>1, <2>4 DEF PaceStop, PaceWriteFails, PaceLeave
  <2>5. QED
    BY <1>3, <2>1, <2>2, <2>3, <2>4 DEF DownStep
<1>4. CASE EvStep
  <2>1. CASE EvDelta
    <3>1. /\ obs'.miscounts = obs.miscounts
          /\ obs'.rises = obs.rises + IF speaking THEN 0 ELSE 1
          /\ frame' = frame /\ down' = down
      BY <1>0, <2>1 DEF EvDelta, Receive
    <3>2. QED
      BY <1>0, <3>1 DEF MiscountInv, Doomed
  <2>2. CASE EvEvent /\ ~EvDelta
    <3>1. /\ obs'.miscounts = obs.miscounts /\ obs'.rises = obs.rises
          /\ frame' = frame /\ down' = down
      BY <1>0, <2>2 DEF EvEvent, EvCreated, EvAudioDone, EvRespDone, EvStarted,
           EvStopped, EvInText, EvOutText, EvIgnored, Receive
    <3>2. speaking' => speaking
      BY <2>2, Zenon DEF EvEvent, EvCreated, EvAudioDone, EvRespDone, EvStarted,
           EvStopped, EvInText, EvOutText, EvIgnored
    <3>3. QED
      BY <1>1, <3>1, <3>2
  <2>3. CASE EvStop \/ EvTick \/ EvClosed \/ EvLock \/ EvWrite \/ EvLeave
    BY <1>0, <1>1, <2>3 DEF EvStop, EvTick, EvClosed, EvLock, EvWrite, EvLeave
  <2>4. CASE EvBuffer \/ EvFlush
    BY <1>0, <1>1, <2>4 DEF EvBuffer, EvFlush
  <2>5. QED
    BY <1>4, <2>1, <2>2, <2>3, <2>4 DEF EvStep
<1>5. CASE LoopStep \/ SessionFault \/ \E k \in EventKinds : ReadEvent(k)
  BY <1>1, <1>5 DEF LoopStep, SessionFault, ReadEvent
<1>6. CASE TimerFires \/ HangUp \/ MediaCloses \/ Second \/ Close
  BY <1>1, <1>6 DEF TimerFires, HangUp, MediaCloses, Second, Close
<1>7. CASE UNCHANGED vars
  BY <1>1, <1>7 DEF vars
<1>8. QED
  BY <1>2, <1>3, <1>4, <1>5, <1>6, <1>7 DEF Next, Internal, Environment, Finished

\* A miscounted frame costs an utterance of its own (bridge.go:201-207, 262).
THEOREM BridgeFewMiscounts == Spec => []FewMiscounts
<1>1. Init => MiscountInv
  BY DEF Init, MiscountInv, Doomed
<1>2. TypeOK /\ MiscountInv => FewMiscounts
  BY DEF TypeOK, ObsTypeOK, MiscountInv, FewMiscounts, Doomed
<1>3. QED
  BY <1>1, <1>2, MiscountStep, BridgeTypeOK, PTL DEF Spec

---------------------------------------------------------------------------
(* Why a call ended. *)

\* Someone has asked for the call to end, or left a reason.
Told == reason # << >> \/ dialDone \/ timer = "fired"

\* While Run waits, a goroutine only leaves, and the context is only
\* cancelled, if there is a reason in the channel or a request from outside.
EndInv ==
  /\ run # "returned" => \/ Told
                         \/ /\ ~ctxDone
                            /\ up \notin {"leave", "done"}
                            /\ down \notin {"leave", "done"}
                            /\ ev \notin {"leave", "done"}
  /\ NamedEnd

LEMMA EndStep == TypeOK /\ EndInv /\ [Next]_vars => EndInv'
<1> SUFFICES ASSUME TypeOK, EndInv, [Next]_vars PROVE EndInv'
  OBVIOUS
<1> USE DEF clientVars, callVars, upVars, downVars, evVars, shared, bridgeVars
\* A step that neither ends anything nor forgets a reason.
<1>1. ASSUME run' = run, result' = result, reason' = reason,
             dialDone' = dialDone, timer' = timer, ctxDone' = ctxDone,
             up' \in {"leave", "done"} => up \in {"leave", "done"},
             down' \in {"leave", "done"} => down \in {"leave", "done"},
             ev' \in {"leave", "done"} => ev \in {"leave", "done"}
      PROVE  EndInv'
  <2>1. Told' <=> Told
    BY <1>1 DEF Told
  <2>2. NamedEnd'
    BY <1>1 DEF EndInv, NamedEnd
  <2>3. QED
    BY <1>1, <2>1, <2>2 DEF EndInv
\* A step that leaves a reason.
<1>2. ASSUME NEW r \in Reasons, Send(r), run' = run, result' = result,
             dialDone' = dialDone, timer' = timer
      PROVE  EndInv'
  <2>1. reason' # << >>
    BY <1>2, SendType DEF TypeOK
  <2>2. QED
    BY <1>2, <2>1 DEF EndInv, NamedEnd, Told
<1>3. CASE RunStep
  <2>1. CASE GreetOk
    BY <2>1 DEF GreetOk, EndInv, NamedEnd, Told
  <2>2. CASE GreetFails
    BY <2>2 DEF GreetFails, EndInv, NamedEnd
  <2>3. CASE Return
    <3>1. run' = "returned" /\ dialDone' = dialDone /\ (timer = "fired" => timer' = "fired")
      BY <2>3 DEF Return
    <3>2. result'.why = IF reason = << >> THEN "call ended" ELSE Head(reason)
      BY <2>3 DEF Return
    <3>3. Told
      BY <2>3 DEF Return, EndInv
    <3>4. reason # << >> => Head(reason) \in Reasons
      BY HeadTailProperties DEF TypeOK, CallTypeOK
    <3>5. NamedEnd'
      BY <3>1, <3>2, <3>3, <3>4 DEF NamedEnd, Told, Reasons
    <3>6. QED
      BY <3>1, <3>5 DEF EndInv
  <2>4. QED
    BY <1>3, <2>1, <2>2, <2>3 DEF RunStep
<1>4. CASE UpStep
  <2>1. CASE UpCheck
    BY <2>1 DEF UpCheck, EndInv, NamedEnd, Told
  <2>2. ASSUME NEW some \in BOOLEAN, NEW err \in BOOLEAN, UpRead(some, err)
        PROVE  EndInv'
    <3>1. CASE err /\ ~some
      BY <1>2, <2>2, <3>1 DEF UpRead, Reasons
    <3>2. CASE ~(err /\ ~some)
      BY <1>1, <2>2, <3>2 DEF UpRead
    <3>3. QED
      BY <3>1, <3>2
  <2>3. CASE UpLock
    BY <1>1, <2>3 DEF UpLock, Lock
  <2>4. CASE UpWriteOk
    <3>1. CASE upErr
      BY <1>2, <2>4, <3>1 DEF UpWriteOk, WriteOk, Reasons
    <3>2. CASE ~upErr
      BY <1>1, <2>4, <3>2 DEF UpWriteOk, WriteOk
    <3>3. QED
      BY <3>1, <3>2
  <2>5. CASE UpWriteFails
    <3>1. CASE ctxDone
      <4>1. run' = run /\ result' = result /\ reason' = reason /\ dialDone' = dialDone
            /\ timer' = timer /\ ctxDone' = ctxDone /\ down' = down /\ ev' = ev /\ up = "write"
        BY <2>5, <3>1 DEF UpWriteFails, WriteFails
      <4>2. run # "returned" => Told
        BY <3>1 DEF EndInv
      <4>3. QED
        BY <3>1, <4>1, <4>2 DEF EndInv, NamedEnd, Told
    <3>2. CASE ~ctxDone
      BY <1>2, <2>5, <3>2 DEF UpWriteFails, WriteFails, Reasons
    <3>3. QED
      BY <3>1, <3>2
  <2>6. CASE UpLeave
    BY <2>6 DEF UpLeave, EndInv, NamedEnd, Told
  <2>7. QED
    BY <1>4, <2>1, <2>2, <2>3, <2>4, <2>5, <2>6 DEF UpStep
<1>5. CASE DownStep
  <2>1. CASE PaceWriteFails
    <3>1. CASE ctxDone
      <4>1. run' = run /\ result' = result /\ reason' = reason /\ dialDone' = dialDone
            /\ timer' = timer /\ ctxDone' = ctxDone /\ up' = up /\ ev' = ev
        BY <2>1, <3>1 DEF PaceWriteFails
      <4>2. run # "returned" => Told
        BY <3>1 DEF EndInv
      <4>3. QED
        BY <3>1, <4>1, <4>2 DEF EndInv, NamedEnd, Told
    <3>2. CASE ~ctxDone
      BY <1>2, <2>1, <3>2 DEF PaceWriteFails, Reasons
    <3>3. QED
      BY <3>1, <3>2
  <2>2. CASE PaceStop
    BY <2>2 DEF PaceStop, EndInv, NamedEnd, Told
  <2>3. CASE PaceLeave
    BY <2>3 DEF PaceLeave, EndInv, NamedEnd, Told
  <2>4. CASE PaceTick \/ PaceLoad \/ PaceWriteOk
    BY <1>1, <2>4 DEF PaceTick, PaceLoad, PaceWriteOk
  <2>5. QED
    BY <1>5, <2>1, <2>2, <2>3, <2>4 DEF DownStep
<1>6. CASE EvStep
  <2>1. CASE EvEvent
    <3>1. /\ UNCHANGED callVars /\ UNCHANGED <<up, down, dialDone>> /\ ev = "select"
          /\ ev' \notin {"leave", "done"}
      BY <2>1 DEF EvEvent, EvCreated, EvDelta, EvAudioDone, EvRespDone, EvStarted, EvStopped,
           EvInText, EvOutText, EvIgnored, Receive
    <3>2. QED
      BY <1>1, <3>1
  <2>2. CASE EvStop
    BY <2>2 DEF EvStop, EndInv, NamedEnd, Told
  <2>3. CASE EvLeave
    BY <2>3 DEF EvLeave, EndInv, NamedEnd, Told
  <2>4. CASE EvClosed
    BY <1>2, <2>4 DEF EvClosed, Reasons
  <2>5. CASE EvTick
    <3>1. CASE SilenceTimeout > 0 /\ quiet > SilenceTimeout
      BY <1>2, <2>5, <3>1 DEF EvTick, Reasons
    <3>2. CASE ~(SilenceTimeout > 0 /\ quiet > SilenceTimeout)
      BY <1>1, <2>5, <3>2 DEF EvTick
    <3>3. QED
      BY <3>1, <3>2
  <2>6. CASE EvBuffer \/ EvFlush
    BY <1>1, <2>6 DEF EvBuffer, EvFlush, CancelOnce
  <2>7. CASE EvLock \/ EvWrite
    BY <1>1, <2>7 DEF EvLock, EvWrite, Lock, WriteOk, WriteFails
  <2>8. QED
    BY <1>6, <2>1, <2>2, <2>3, <2>4, <2>5, <2>6, <2>7 DEF EvStep
<1>7. CASE LoopStep \/ SessionFault \/ \E k \in EventKinds : ReadEvent(k)
  BY <1>1, <1>7 DEF LoopStep, SessionFault, ReadEvent, LoopFails, LoopPush, LoopQuits,
                    LoopGarbled, ConnDrops, LoopRead
<1>8. CASE TimerFires \/ HangUp
  BY <1>8 DEF TimerFires, HangUp, DialogCancelled, EndInv, NamedEnd, Told
<1>9. CASE MediaCloses \/ Second \/ Close
  BY <1>1, <1>9 DEF MediaCloses, Second, Close, ClientClose
<1>10. CASE UNCHANGED vars
  BY <1>1, <1>10 DEF vars
<1>11. QED
  BY <1>3, <1>4, <1>5, <1>6, <1>7, <1>8, <1>9, <1>10 DEF Next, Internal, Environment, Finished

\* No failure inside the call goes unnamed: "call ended" is a hang-up or the
\* call limit, never a goroutine that quietly died (bridge.go:148-152).
THEOREM BridgeNamedEnd == Spec => []NamedEnd
<1>1. Init => EndInv
  BY DEF Init, EndInv, NamedEnd
<1>2. EndInv => NamedEnd
  BY DEF EndInv
<1>3. QED
  BY <1>1, <1>2, EndStep, BridgeTypeOK, PTL DEF Spec

---------------------------------------------------------------------------
(* The reasons are true. *)

\* What a reason claims, once true, stays true.
Lasting ==
  /\ conn = "closed" => conn' = "closed"
  /\ loop = "done" => loop' = "done" /\ (events = << >> => events' = << >>)
  /\ ~mediaOpen => ~mediaOpen'

LEMMA ClientStaysClosed ==
  ASSUME [Next]_vars
  PROVE  /\ conn = "closed" => conn' = "closed"
         /\ loop = "done" => loop' = "done" /\ (events = << >> => events' = << >>)
<1> USE DEF clientVars, callVars, upVars, downVars, evVars, shared, bridgeVars
<1>1. CASE RunStep
  BY <1>1 DEF RunStep, GreetOk, GreetFails, Return
<1>2. CASE UpStep
  BY <1>2 DEF UpStep, UpCheck, UpRead, UpLock, UpWriteOk, UpWriteFails, UpLeave, Lock, WriteOk,
              WriteFails
<1>3. CASE DownStep
  BY <1>3 DEF DownStep, PaceStop, PaceTick, PaceLoad, PaceWriteOk, PaceWriteFails, PaceLeave
<1>4. CASE EvEvent
  BY <1>4 DEF EvEvent, EvCreated, EvDelta, EvAudioDone, EvRespDone, EvStarted, EvStopped,
              EvInText, EvOutText, EvIgnored, Receive
<1>5. CASE EvStep /\ ~EvEvent
  BY <1>5 DEF EvStep, EvStop, EvTick, EvClosed, EvBuffer, EvFlush, EvLock, EvWrite, EvLeave,
              Lock, WriteOk, WriteFails
<1>6. CASE LoopStep \/ SessionFault \/ \E k \in EventKinds : ReadEvent(k)
  BY <1>6 DEF LoopStep, SessionFault, ReadEvent, LoopFails, LoopPush, LoopQuits, LoopGarbled,
              ConnDrops, LoopRead
<1>7. CASE TimerFires \/ HangUp \/ MediaCloses \/ Second \/ Close \/ UNCHANGED vars
  BY <1>7 DEF TimerFires, HangUp, MediaCloses, Second, Close, DialogCancelled, ClientClose, vars
<1>8. QED
  BY <1>1, <1>2, <1>3, <1>4, <1>5, <1>6, <1>7 DEF Next, Internal, Environment, Finished

LEMMA MediaStaysClosed ==
  ASSUME [Next]_vars, ~mediaOpen
  PROVE  ~mediaOpen'
<1> USE DEF clientVars, callVars, upVars, downVars, evVars, shared, bridgeVars
<1>1. CASE RunStep
  BY <1>1, Zenon DEF RunStep, GreetOk, GreetFails, Return
<1>2. CASE UpStep
  BY <1>2, Zenon DEF UpStep, UpCheck, UpRead, UpLock, UpWriteOk, UpWriteFails, UpLeave, Lock, WriteOk,
              WriteFails
<1>3. CASE DownStep
  BY <1>3, Zenon DEF DownStep, PaceStop, PaceTick, PaceLoad, PaceWriteOk, PaceWriteFails, PaceLeave
<1>4. CASE EvEvent
  BY <1>4, Zenon DEF EvEvent, EvCreated, EvDelta, EvAudioDone, EvRespDone, EvStarted, EvStopped,
              EvInText, EvOutText, EvIgnored, Receive
<1>5. CASE EvStep /\ ~EvEvent
  BY <1>5, Zenon DEF EvStep, EvStop, EvTick, EvClosed, EvBuffer, EvFlush, EvLock, EvWrite, EvLeave,
              Lock, WriteOk, WriteFails
<1>6. CASE LoopStep \/ SessionFault \/ \E k \in EventKinds : ReadEvent(k)
  BY <1>6, Zenon DEF LoopStep, SessionFault, ReadEvent, LoopFails, LoopPush, LoopQuits, LoopGarbled,
              ConnDrops, LoopRead
<1>7. CASE TimerFires \/ HangUp \/ MediaCloses \/ Second \/ Close \/ UNCHANGED vars
  BY <1>7, Zenon DEF TimerFires, HangUp, MediaCloses, Second, Close, DialogCancelled, ClientClose, vars
<1>8. QED
  BY <1>1, <1>2, <1>3, <1>4, <1>5, <1>6, <1>7 DEF Next, Internal, Environment, Finished

LEMMA NothingReopens == [Next]_vars => Lasting
  BY ClientStaysClosed, MediaStaysClosed DEF Lasting

LEMMA TrueStays ==
  ASSUME Lasting, NEW r, TrueReason(r)
  PROVE  TrueReason(r)'
  BY DEF Lasting, TrueReason

LEMMA KeepsReasons ==
  ASSUME ReasonsAreTrue, Lasting, reason' = reason, result'.why = result.why
  PROVE  ReasonsAreTrue'
  BY TrueStays DEF ReasonsAreTrue

LEMMA AddsReason ==
  ASSUME TypeOK, ReasonsAreTrue, Lasting, result'.why = result.why,
         NEW r \in Reasons, Send(r), TrueReason(r)'
  PROVE  ReasonsAreTrue'
<1>1. reason \in Seq(Reasons) /\ Len(reason) \in Nat
  BY LenProperties DEF TypeOK, CallTypeOK
<1>2. CASE reason' = reason
  BY <1>2, KeepsReasons
<1>3. CASE reason' = Append(reason, r)
  <2>1. /\ Len(reason') = Len(reason) + 1
        /\ reason'[Len(reason) + 1] = r
        /\ \A i \in 1..Len(reason) : reason'[i] = reason[i]
    BY <1>1, <1>3, AppendProperties
  <2>2. \A i \in 1..Len(reason') : TrueReason(reason[i])'
    <3> SUFFICES ASSUME NEW i \in 1..Len(reason') PROVE TrueReason(reason[i])'
      OBVIOUS
    <3>1. CASE i = Len(reason) + 1
      BY <2>1, <3>1
    <3>2. CASE i \in 1..Len(reason)
      <4>1. TrueReason(reason[i])
        BY <3>2 DEF ReasonsAreTrue
      <4>2. QED
        BY <2>1, <3>2, <4>1, TrueStays
    <3>3. QED
      BY <1>1, <2>1, <3>1, <3>2
  <2>3. TrueReason(result.why)'
    BY TrueStays DEF ReasonsAreTrue
  <2>4. QED
    BY <2>2, <2>3 DEF ReasonsAreTrue
<1>4. QED
  BY <1>2, <1>3 DEF Send

LEMMA ReasonStep == TypeOK /\ ReasonsAreTrue /\ [Next]_vars => ReasonsAreTrue'
<1> SUFFICES ASSUME TypeOK, ReasonsAreTrue, [Next]_vars PROVE ReasonsAreTrue'
  OBVIOUS
<1> USE DEF clientVars, callVars, upVars, downVars, evVars, shared, bridgeVars
<1>1. Lasting
  BY NothingReopens
<1>2. CASE GreetOk
  BY <1>1, <1>2, KeepsReasons DEF GreetOk
<1>3. CASE GreetFails
  <2>1. reason' = reason /\ result'.why = "greeting failed"
    BY <1>3 DEF GreetFails
  <2>2. QED
    BY <1>1, <2>1, TrueStays DEF ReasonsAreTrue, TrueReason
<1>4. CASE Return
  <2>1. /\ reason' = IF reason = << >> THEN reason ELSE Tail(reason)
        /\ result'.why = IF reason = << >> THEN "call ended" ELSE Head(reason)
    BY <1>4 DEF Return
  <2>2. CASE reason = << >>
    BY <1>1, <2>1, <2>2, TrueStays DEF ReasonsAreTrue, TrueReason
  <2>3. CASE reason # << >>
    <3>1. /\ Head(reason) = reason[1] /\ Len(reason) \in Nat /\ Len(reason) >= 1
          /\ Len(Tail(reason)) = Len(reason) - 1
          /\ \A i \in 1..Len(Tail(reason)) : Tail(reason)[i] = reason[i + 1]
      <4>1. reason \in Seq(Reasons)
        BY DEF TypeOK, CallTypeOK
      <4>2. Len(reason) \in Nat /\ Len(reason) >= 1
        BY <2>3, <4>1, EmptySeq
      <4>3. Head(reason) = reason[1]
        BY <4>1, <4>2
      <4>4. QED
        BY <2>3, <4>1, <4>2, <4>3, HeadTailProperties
    <3>2. TrueReason(result.why)'
      BY <1>1, <2>1, <2>3, <3>1, TrueStays DEF ReasonsAreTrue
    <3>3. ASSUME NEW i \in 1..Len(reason') PROVE TrueReason(reason[i])'
      <4>1. reason'[i] = reason[i + 1] /\ i + 1 \in 1..Len(reason)
        BY <2>1, <2>3, <3>1, <3>3
      <4>2. TrueReason(reason[i + 1])
        BY <4>1 DEF ReasonsAreTrue
      <4>3. QED
        BY <1>1, <4>1, <4>2, TrueStays
    <3>4. QED
      BY <3>2, <3>3 DEF ReasonsAreTrue
  <2>4. QED
    BY <2>2, <2>3
<1>5. CASE UpStep
  <2>1. CASE UpCheck \/ UpLock \/ UpLeave
    BY <1>1, <2>1, KeepsReasons DEF UpCheck, UpLock, UpLeave
  <2>2. ASSUME NEW some \in BOOLEAN, NEW err \in BOOLEAN, UpRead(some, err)
        PROVE  ReasonsAreTrue'
    <3>1. result' = result /\ (Send("caller hung up") \/ reason' = reason)
      BY <2>2 DEF UpRead
    <3>2. QED
      BY <1>1, <3>1, KeepsReasons, AddsReason DEF Reasons, TrueReason
  <2>3. CASE UpWriteOk
    <3>1. result' = result /\ (Send("caller hung up") \/ reason' = reason)
      BY <2>3 DEF UpWriteOk
    <3>2. QED
      BY <1>1, <3>1, KeepsReasons, AddsReason DEF Reasons, TrueReason
  <2>4. CASE UpWriteFails
    <3>1. CASE ctxDone
      BY <1>1, <2>4, <3>1, KeepsReasons DEF UpWriteFails
    <3>2. CASE ~ctxDone
      <4>1. result' = result /\ Send("model connection lost") /\ conn' = "closed"
        BY <2>4, <3>2 DEF UpWriteFails, WriteFails
      <4>2. QED
        BY <1>1, <4>1, AddsReason DEF Reasons, TrueReason
    <3>3. QED
      BY <3>1, <3>2
  <2>5. QED
    BY <1>5, <2>1, <2>2, <2>3, <2>4 DEF UpStep
<1>6. CASE DownStep
  <2>1. CASE PaceWriteFails
    <3>1. result' = result /\ (Send("media write failed") \/ reason' = reason)
      BY <2>1 DEF PaceWriteFails
    <3>2. ~mediaOpen
      BY <2>1 DEF PaceWriteFails
    <3>3. CASE reason' = reason
      BY <1>1, <3>1, <3>3, KeepsReasons
    <3>4. CASE Send("media write failed")
      <4>1. ~mediaOpen'
        BY <1>1, <3>2 DEF Lasting
      <4>2. QED
        BY <1>1, <3>1, <3>4, <4>1, AddsReason DEF Reasons, TrueReason
    <3>5. QED
      BY <3>1, <3>3, <3>4
  <2>2. CASE PaceStop \/ PaceTick \/ PaceLoad \/ PaceWriteOk \/ PaceLeave
    BY <1>1, <2>2, KeepsReasons DEF PaceStop, PaceTick, PaceLoad, PaceWriteOk, PaceLeave
  <2>3. QED
    BY <1>6, <2>1, <2>2 DEF DownStep
<1>7. CASE EvEvent
  <2>1. reason' = reason /\ result' = result
    BY <1>7 DEF EvEvent, EvCreated, EvDelta, EvAudioDone, EvRespDone, EvStarted, EvStopped,
                EvInText, EvOutText, EvIgnored, Receive
  <2>2. QED
    BY <1>1, <2>1, KeepsReasons
<1>8. CASE EvTick
  <2>1. CASE SilenceTimeout > 0 /\ quiet > SilenceTimeout
    BY <1>1, <1>8, <2>1, AddsReason DEF EvTick, Reasons, TrueReason
  <2>2. CASE ~(SilenceTimeout > 0 /\ quiet > SilenceTimeout)
    BY <1>1, <1>8, <2>2, KeepsReasons DEF EvTick
  <2>3. QED
    BY <2>1, <2>2
<1>9. CASE EvClosed
  <2>1. /\ result' = result /\ Send("model session closed")
        /\ loop' = "done" /\ events' = << >>
    BY <1>9 DEF EvClosed
  <2>2. QED
    BY <1>1, <2>1, AddsReason DEF Reasons, TrueReason
<1>10. CASE EvStop \/ EvBuffer \/ EvFlush \/ EvLock \/ EvWrite \/ EvLeave
  BY <1>1, <1>10, KeepsReasons DEF EvStop, EvBuffer, EvFlush, EvLock, EvWrite, EvLeave
<1>11. CASE LoopStep \/ SessionFault \/ \E k \in EventKinds : ReadEvent(k)
  BY <1>1, <1>11, KeepsReasons DEF LoopStep, SessionFault, ReadEvent
<1>12. CASE TimerFires \/ HangUp \/ MediaCloses \/ Second \/ Close \/ UNCHANGED vars
  BY <1>1, <1>12, KeepsReasons DEF TimerFires, HangUp, MediaCloses, Second, Close, vars
<1>13. QED
  BY <1>2, <1>3, <1>4, <1>5, <1>6, <1>7, <1>8, <1>9, <1>10, <1>11, <1>12
     DEF Next, Internal, Environment, Finished, RunStep, EvStep

\* Whatever ends a call, and in whatever order things fail at once, the
\* reason reported names something that happened (bridge.go:166-247, 397-402).
THEOREM BridgeReasonsAreTrue == Spec => []ReasonsAreTrue
<1>1. Init => ReasonsAreTrue
  BY DEF Init, ReasonsAreTrue, TrueReason
<1>2. QED
  BY <1>1, ReasonStep, BridgeTypeOK, PTL DEF Spec

---------------------------------------------------------------------------
(* The result is final. *)

\* When Run returns, its three goroutines are gone and the transcript it
\* returns is the last word (bridge.go:135-155).
THEOREM BridgeResultIsFinal == Spec => []ResultIsFinal
<1>1. LifeInv => ResultIsFinal
  BY DEF LifeInv, ResultIsFinal
<1>2. QED
  BY <1>1, LifeHolds, PTL

---------------------------------------------------------------------------
(* The model is not blamed for the failures of others. *)

\* What closes a session without a reason having been left first.
Outside == fault \/ dialDone \/ timer = "fired"

BlameInv ==
  /\ run # "returned" /\ (conn = "closed" \/ loop = "done") => reason # << >> \/ Outside
  /\ run # "returned" /\ reason # << >> /\ reason[1] = "model session closed" => Outside
  /\ SessionBlamed

\* send never changes the first reason (bridge.go:397-402).
LEMMA FirstKept ==
  ASSUME CallTypeOK, NEW r \in Reasons, Send(r)
  PROVE  /\ reason = << >> => reason'[1] = r
         /\ reason # << >> => reason'[1] = reason[1]
<1>1. reason \in Seq(Reasons) /\ Len(reason) \in Nat /\ (reason # << >> => Len(reason) >= 1)
  <2>1. reason \in Seq(Reasons)
    BY DEF CallTypeOK
  <2>2. QED
    BY <2>1, LenProperties, EmptySeq
<1>2. CASE reason' = Append(reason, r)
  <2>1. /\ \A i \in 1..Len(reason) : Append(reason, r)[i] = reason[i]
        /\ Append(reason, r)[Len(reason) + 1] = r
    BY <1>1, AppendProperties
  <2>2. CASE reason = << >>
    BY <1>2, <2>1, <2>2
  <2>3. CASE reason # << >>
    BY <1>1, <1>2, <2>1, <2>3
  <2>4. QED
    BY <2>2, <2>3
<1>3. CASE reason' = reason /\ ~(Len(reason) < 3)
  BY <1>1, <1>3, EmptySeq
<1>4. QED
  BY <1>2, <1>3 DEF Send

LEMMA BlameStep == TypeOK /\ EndInv /\ BlameInv /\ [Next]_vars => BlameInv'
<1> SUFFICES ASSUME TypeOK, EndInv, BlameInv, [Next]_vars PROVE BlameInv'
  OBVIOUS
<1> USE DEF clientVars, callVars, upVars, downVars, evVars, shared, bridgeVars
\* A step that leaves the session and the reasons alone.
<1>1. ASSUME UNCHANGED <<run, result, reason, conn, loop>>, Outside => Outside'
      PROVE  BlameInv'
  BY <1>1, Zenon DEF BlameInv, SessionBlamed, Outside
\* A step that leaves a reason other than the session's end.
<1>2. ASSUME NEW r \in Reasons \ {"model session closed"}, Send(r),
             UNCHANGED <<run, result, fault, dialDone, timer>>
      PROVE  BlameInv'
  <2>1. CallTypeOK
    BY DEF TypeOK
  <2>2. reason' # << >> /\ (Outside' <=> Outside)
    BY <1>2, <2>1, SendType DEF Outside
  <2>3. reason'[1] = "model session closed" => reason # << >> /\ reason[1] = "model session closed"
    BY <1>2, <2>1, FirstKept
  <2>4. SessionBlamed'
    BY <1>2 DEF BlameInv, SessionBlamed
  <2>5. QED
    BY <1>2, <2>2, <2>3, <2>4, Zenon DEF BlameInv
\* A step that closes the session while somebody is answerable for it.
<1>3. ASSUME UNCHANGED <<run, result, reason>>, Outside => Outside',
             run # "returned" => reason # << >> \/ Outside'
      PROVE  BlameInv'
  BY <1>3, Zenon DEF BlameInv, SessionBlamed, Outside
<1>4. CASE GreetOk
  BY <1>1, <1>4 DEF GreetOk, BlameInv, SessionBlamed, Outside
<1>5. CASE GreetFails
  <2>1. run' = "returned" /\ result'.why = "greeting failed"
    BY <1>5 DEF GreetFails
  <2>2. QED
    BY <2>1 DEF BlameInv, SessionBlamed
<1>6. CASE Return
  <2>1. /\ run = "wait" /\ run' = "returned" /\ fault' = fault /\ dialDone' = dialDone
        /\ (timer = "fired" => timer' = "fired")
        /\ result'.why = IF reason = << >> THEN "call ended" ELSE Head(reason)
    BY <1>6 DEF Return
  <2>2. reason # << >> => Head(reason) = reason[1]
    <3>1. reason \in Seq(Reasons)
      BY DEF TypeOK, CallTypeOK
    <3>2. reason # << >> => Len(reason) \in Nat /\ Len(reason) >= 1
      BY <3>1, EmptySeq
    <3>3. QED
      BY <3>1, <3>2
  <2>3. result'.why = "model session closed" => Outside
    BY <2>1, <2>2 DEF BlameInv
  <2>4. QED
    BY <2>1, <2>3 DEF BlameInv, SessionBlamed, Outside
<1>7. CASE UpStep
  <2>1. CASE UpCheck \/ UpLock \/ UpLeave
    BY <1>1, <2>1 DEF UpCheck, UpLock, UpLeave, Lock, Outside
  <2>2. ASSUME NEW some \in BOOLEAN, NEW err \in BOOLEAN, UpRead(some, err)
        PROVE  BlameInv'
    <3>1. CASE err /\ ~some
      BY <1>2, <2>2, <3>1 DEF UpRead, Reasons
    <3>2. CASE ~(err /\ ~some)
      BY <1>1, <2>2, <3>2 DEF UpRead, Outside
    <3>3. QED
      BY <3>1, <3>2
  <2>3. CASE UpWriteOk
    <3>1. CASE upErr
      BY <1>2, <2>3, <3>1 DEF UpWriteOk, WriteOk, Reasons
    <3>2. CASE ~upErr
      BY <1>1, <2>3, <3>2 DEF UpWriteOk, WriteOk, Outside
    <3>3. QED
      BY <3>1, <3>2
  <2>4. CASE UpWriteFails
    <3>1. CASE ctxDone
      <4>1. UNCHANGED <<run, result, reason, fault, dialDone, timer>>
        BY <2>4, <3>1 DEF UpWriteFails, WriteFails
      <4>2. run # "returned" => reason # << >> \/ Outside
        BY <3>1 DEF EndInv, Told, Outside
      <4>3. QED
        BY <1>3, <4>1, <4>2 DEF Outside
    <3>2. CASE ~ctxDone
      BY <1>2, <2>4, <3>2 DEF UpWriteFails, WriteFails, Reasons
    <3>3. QED
      BY <3>1, <3>2
  <2>5. QED
    BY <1>7, <2>1, <2>2, <2>3, <2>4 DEF UpStep
<1>8. CASE DownStep
  <2>1. CASE PaceWriteFails /\ ~ctxDone
    BY <1>2, <2>1 DEF PaceWriteFails, Reasons
  <2>2. CASE PaceWriteFails /\ ctxDone
    BY <1>1, <2>2 DEF PaceWriteFails, Outside
  <2>3. CASE PaceStop \/ PaceTick \/ PaceLoad \/ PaceWriteOk \/ PaceLeave
    BY <1>1, <2>3 DEF PaceStop, PaceTick, PaceLoad, PaceWriteOk, PaceLeave, Outside
  <2>4. QED
    BY <1>8, <2>1, <2>2, <2>3 DEF DownStep
<1>9. CASE EvEvent
  <2>1. UNCHANGED <<callVars, conn, loop, dialDone, fault>>
    BY <1>9 DEF EvEvent, EvCreated, EvDelta, EvAudioDone, EvRespDone, EvStarted, EvStopped,
                EvInText, EvOutText, EvIgnored, Receive
  <2>2. QED
    BY <1>1, <2>1 DEF Outside
<1>10. CASE EvTick
  <2>1. CASE SilenceTimeout > 0 /\ quiet > SilenceTimeout
    BY <1>2, <1>10, <2>1 DEF EvTick, Reasons
  <2>2. CASE ~(SilenceTimeout > 0 /\ quiet > SilenceTimeout)
    BY <1>1, <1>10, <2>2 DEF EvTick, Outside
  <2>3. QED
    BY <2>1, <2>2
\* The session's end is the first reason only if it had no other.
<1>11. CASE EvClosed
  <2>1. /\ loop = "done" /\ Send("model session closed") /\ "model session closed" \in Reasons
        /\ UNCHANGED <<run, result, fault, dialDone, timer>>
    BY <1>11 DEF EvClosed, Reasons
  <2>2. CallTypeOK
    BY DEF TypeOK
  <2>3. /\ reason' # << >> /\ (reason = << >> => reason'[1] = "model session closed")
        /\ reason # << >> => reason'[1] = reason[1]
    BY <2>1, <2>2, SendType, FirstKept
  <2>4. run # "returned" /\ reason'[1] = "model session closed" => Outside
    BY <2>1, <2>3 DEF BlameInv
  <2>5. SessionBlamed' /\ (Outside' <=> Outside)
    BY <2>1 DEF BlameInv, SessionBlamed, Outside
  <2>6. QED
    BY <2>1, <2>3, <2>4, <2>5 DEF BlameInv
<1>12. CASE EvStop \/ EvBuffer \/ EvFlush \/ EvLock \/ EvLeave
  BY <1>1, <1>12 DEF EvStop, EvBuffer, EvFlush, EvLock, EvLeave, Lock, Outside
<1>13. CASE EvWrite
  <2>1. UNCHANGED <<run, result, reason, fault, dialDone, timer, loop>>
    BY <1>13 DEF EvWrite, WriteOk, WriteFails
  <2>2. CASE conn' = conn
    BY <1>1, <2>1, <2>2 DEF Outside
  <2>3. CASE conn' # conn
    <3>1. ctxDone
      BY <1>13, <2>3 DEF EvWrite, WriteOk, WriteFails
    <3>2. run # "returned" => reason # << >> \/ Outside
      BY <3>1 DEF EndInv, Told, Outside
    <3>3. QED
      BY <1>3, <2>1, <3>2 DEF Outside
  <2>4. QED
    BY <2>2, <2>3
<1>14. CASE LoopStep
  <2>1. UNCHANGED <<run, result, reason, fault, dialDone, timer>>
    BY <1>14 DEF LoopStep, LoopFails, LoopPush, LoopQuits
  <2>2. CASE LoopFails \/ LoopQuits
    <3>1. conn = "closed" \/ dialDone
      BY <2>2 DEF LoopFails, LoopQuits
    <3>2. run # "returned" => reason # << >> \/ Outside
      BY <3>1 DEF BlameInv, Outside
    <3>3. QED
      BY <1>3, <2>1, <3>2 DEF Outside
  <2>3. CASE LoopPush
    <3>1. loop' # "done" /\ conn' = conn /\ (Outside' <=> Outside)
      BY <2>1, <2>3 DEF LoopPush, Outside
    <3>2. QED
      BY <2>1, <3>1, Zenon DEF BlameInv, SessionBlamed
  <2>4. QED
    BY <1>14, <2>2, <2>3 DEF LoopStep
<1>15. CASE SessionFault
  <2>1. UNCHANGED <<run, result, reason>> /\ fault' = TRUE
    BY <1>15 DEF SessionFault, LoopGarbled, ConnDrops
  <2>2. QED
    BY <1>3, <2>1 DEF Outside
<1>16. CASE \E k \in EventKinds : ReadEvent(k)
  <2>1. UNCHANGED <<run, result, reason, fault, dialDone, timer, conn>> /\ loop' # "done"
    BY <1>16 DEF ReadEvent, LoopRead
  <2>2. QED
    BY <2>1, Zenon DEF BlameInv, SessionBlamed, Outside
<1>17. CASE TimerFires \/ HangUp
  BY <1>3, <1>17 DEF TimerFires, HangUp, DialogCancelled, Outside
<1>18. CASE MediaCloses \/ Second \/ UNCHANGED vars
  BY <1>1, <1>18 DEF MediaCloses, Second, vars, Outside
<1>19. CASE Close
  BY <1>3, <1>19 DEF Close, ClientClose, Outside
<1>20. QED
  BY <1>4, <1>5, <1>6, <1>7, <1>8, <1>9, <1>10, <1>11, <1>12, <1>13, <1>14, <1>15, <1>16,
     <1>17, <1>18, <1>19 DEF Next, Internal, Environment, Finished, RunStep, EvStep

\* A failure elsewhere in the call cancels the context, which may close the
\* connection and end the read loop: by then the real reason is in the
\* channel, ahead of the session's (bridge.go:148-152, 242).
THEOREM BridgeSessionBlamed == Spec => []SessionBlamed
<1>1. Init => EndInv /\ BlameInv
  BY DEF Init, ClientInit, EndInv, NamedEnd, BlameInv, SessionBlamed
<1>2. BlameInv => SessionBlamed
  BY DEF BlameInv
<1>3. QED
  BY <1>1, <1>2, EndStep, BlameStep, BridgeTypeOK, PTL DEF Spec

---------------------------------------------------------------------------
(* Bridge implements CallLifecycle. *)

CycleInv == LifeInv /\ (run = "greet" => reason = << >>)

LEMMA CycleInvStep == CycleInv /\ [Next]_vars => CycleInv'
<1> SUFFICES ASSUME CycleInv, [Next]_vars PROVE CycleInv'
  OBVIOUS
<1> USE DEF clientVars, callVars, upVars, downVars, evVars, shared, bridgeVars
<1>1. LifeInv'
  BY LifeStep DEF CycleInv
<1>2. CASE RunStep
  BY <1>1, <1>2 DEF RunStep, GreetOk, GreetFails, Return, CycleInv
<1>3. CASE UpStep \/ DownStep \/ EvStep
  <2>1. up # "idle" \/ down # "idle" \/ ev # "idle"
    BY <1>3 DEF UpStep, UpCheck, UpRead, UpLock, UpWriteOk, UpWriteFails, UpLeave,
         DownStep, PaceStop, PaceTick, PaceLoad, PaceWriteOk, PaceWriteFails, PaceLeave,
         EvStep, EvEvent, EvCreated, EvDelta, EvAudioDone, EvRespDone, EvStarted, EvStopped,
         EvInText, EvOutText, EvIgnored, Receive, EvStop, EvTick, EvClosed, EvBuffer, EvFlush,
         EvLock, EvWrite, EvLeave
  <2>2. run # "greet"
    BY <2>1 DEF CycleInv, LifeInv
  <2>3. run' = run
    BY <1>3 DEF UpStep, UpCheck, UpRead, UpLock, UpWriteOk, UpWriteFails, UpLeave,
         DownStep, PaceStop, PaceTick, PaceLoad, PaceWriteOk, PaceWriteFails, PaceLeave,
         EvStep, EvEvent, EvCreated, EvDelta, EvAudioDone, EvRespDone, EvStarted, EvStopped,
         EvInText, EvOutText, EvIgnored, Receive, EvStop, EvTick, EvClosed, EvBuffer, EvFlush,
         EvLock, EvWrite, EvLeave
  <2>4. QED
    BY <1>1, <2>2, <2>3 DEF CycleInv
<1>4. CASE LoopStep \/ SessionFault \/ \E k \in EventKinds : ReadEvent(k)
  BY <1>1, <1>4 DEF LoopStep, SessionFault, ReadEvent, CycleInv
<1>5. CASE TimerFires \/ HangUp \/ MediaCloses \/ Second \/ Close \/ UNCHANGED vars
  BY <1>1, <1>5 DEF TimerFires, HangUp, MediaCloses, Second, Close, vars, CycleInv
<1>6. QED
  BY <1>2, <1>3, <1>4, <1>5 DEF Next, Internal, Environment, Finished

LEMMA CycleStep ==
  TypeOK /\ CycleInv /\ [Next]_vars => [Lifecycle!Next]_(Lifecycle!vars)
<1> SUFFICES ASSUME TypeOK, CycleInv, [Next]_vars PROVE [Lifecycle!Next]_(Lifecycle!vars)
  OBVIOUS
<1> USE DEF clientVars, callVars, upVars, downVars, evVars, shared, bridgeVars
<1>0. CallTypeOK /\ reason \in Seq(Reasons) /\ turns \in Turns
  BY DEF TypeOK, CallTypeOK, EvTypeOK
\* A goroutine of the call only runs while the call is up.
<1>a. (up \notin {"idle", "done"} \/ down \notin {"idle", "done"} \/ ev \notin {"idle", "done"})
      => run = "wait"
  BY DEF CycleInv, LifeInv, TypeOK, CallTypeOK
\* A step the owner of the call does not see.
<1>1. ASSUME UNCHANGED <<run, turns, reason, result>>
      PROVE  [Lifecycle!Next]_(Lifecycle!vars)
  BY <1>1 DEF Lifecycle!vars, Phase, FirstReason
\* A step that leaves a reason: the first one counts.
<1>2. ASSUME NEW r \in Reasons, Send(r), run = "wait", UNCHANGED <<run, turns, result>>
      PROVE  [Lifecycle!Next]_(Lifecycle!vars)
  <2>1. reason' # << >> /\ Phase = "up" /\ Phase' = "up" /\ FirstReason' = reason'[1]
    BY <1>0, <1>2, SendType DEF Phase, FirstReason
  <2>2. CASE reason = << >>
    <3>1. FirstReason = "none" /\ FirstReason' = r
      BY <1>0, <1>2, <2>1, <2>2, FirstKept DEF FirstReason
    <3>2. Lifecycle!Blames(r)
      BY <1>2, <2>1, <3>1 DEF Lifecycle!Blames
    <3>3. QED
      BY <3>2 DEF Lifecycle!Next
  <2>3. CASE reason # << >>
    <3>1. FirstReason' = FirstReason
      BY <1>0, <1>2, <2>1, <2>3, FirstKept DEF FirstReason
    <3>2. QED
      BY <1>2, <2>1, <3>1 DEF Lifecycle!vars
  <2>4. QED
    BY <2>2, <2>3
\* A step that adds a turn.
<1>3. ASSUME NEW s \in {"caller", "assistant"}, AddTurn(s), run = "wait",
             UNCHANGED <<run, reason, result>>
      PROVE  [Lifecycle!Next]_(Lifecycle!vars)
  <2>1. Phase = "up" /\ Phase' = "up" /\ FirstReason' = FirstReason
    BY <1>3 DEF Phase, FirstReason
  <2>2. Lifecycle!Says(s)
    BY <1>3, <2>1 DEF Lifecycle!Says
  <2>3. QED
    BY <2>2 DEF Lifecycle!Next
<1>4. CASE GreetOk
  <2>1. Phase = "greeting" /\ Phase' = "up" /\ UNCHANGED <<turns, FirstReason, result>>
    BY <1>4 DEF GreetOk, Phase, FirstReason
  <2>2. QED
    BY <2>1 DEF Lifecycle!Next, Lifecycle!Greeted
<1>5. CASE GreetFails
  <2>1. run = "greet" /\ run' = "returned" /\ turns' = turns
        /\ result' = [turns |-> turns, why |-> "greeting failed"]
    BY <1>5 DEF GreetFails
  <2>2. reason = << >>
    BY <2>1 DEF CycleInv
  <2>3. Phase = "greeting" /\ Phase' = "over" /\ FirstReason = "none" /\ FirstReason' = "none"
    BY <2>1, <2>2 DEF Phase, FirstReason, Reasons
  <2>4. QED
    BY <2>1, <2>3 DEF Lifecycle!Next, Lifecycle!GivenUp
<1>6. CASE Return
  <2>1. run = "wait" /\ run' = "returned" /\ turns' = turns
        /\ result' = [turns |-> turns, why |-> IF reason = << >> THEN "call ended" ELSE Head(reason)]
    BY <1>6 DEF Return
  <2>2. Phase = "up" /\ Phase' = "over"
    BY <2>1 DEF Phase
  <2>3. CASE reason = << >>
    <3>1. FirstReason = "none" /\ FirstReason' = "none" /\ result'.why = "call ended"
      BY <2>1, <2>3 DEF FirstReason, Reasons
    <3>2. QED
      BY <2>1, <2>2, <2>3, <3>1 DEF Lifecycle!Next, Lifecycle!Ends
  <2>4. CASE reason # << >>
    <3>1. Len(reason) \in Nat /\ Len(reason) >= 1
      BY <1>0, <2>4, EmptySeq
    <3>2. Head(reason) = reason[1] /\ reason[1] \in Reasons
      BY <1>0, <3>1, ElementOfSeq
    <3>3. FirstReason = reason[1] /\ FirstReason' = reason[1] /\ reason[1] # "none"
      BY <2>1, <2>4, <3>2 DEF FirstReason, Reasons
    <3>4. QED
      BY <2>1, <2>2, <2>4, <3>2, <3>3 DEF Lifecycle!Next, Lifecycle!Ends
  <2>5. QED
    BY <2>3, <2>4
<1>7. CASE UpStep
  <2>0. run = "wait"
    BY <1>7, <1>a DEF UpStep, UpCheck, UpRead, UpLock, UpWriteOk, UpWriteFails, UpLeave
  <2>1. CASE UpCheck \/ UpLock \/ UpLeave
    BY <1>1, <2>1 DEF UpCheck, UpLock, UpLeave
  <2>2. ASSUME NEW some \in BOOLEAN, NEW err \in BOOLEAN, UpRead(some, err)
        PROVE  [Lifecycle!Next]_(Lifecycle!vars)
    <3>1. CASE err /\ ~some
      BY <1>2, <2>0, <2>2, <3>1 DEF UpRead, Reasons
    <3>2. CASE ~(err /\ ~some)
      BY <1>1, <2>2, <3>2 DEF UpRead
    <3>3. QED
      BY <3>1, <3>2
  <2>3. CASE UpWriteOk
    <3>1. CASE upErr
      BY <1>2, <2>0, <2>3, <3>1 DEF UpWriteOk, Reasons
    <3>2. CASE ~upErr
      BY <1>1, <2>3, <3>2 DEF UpWriteOk
    <3>3. QED
      BY <3>1, <3>2
  <2>4. CASE UpWriteFails
    <3>1. CASE ctxDone
      BY <1>1, <2>4, <3>1 DEF UpWriteFails
    <3>2. CASE ~ctxDone
      BY <1>2, <2>0, <2>4, <3>2 DEF UpWriteFails, Reasons
    <3>3. QED
      BY <3>1, <3>2
  <2>5. QED
    BY <1>7, <2>1, <2>2, <2>3, <2>4 DEF UpStep
<1>8. CASE DownStep
  <2>1. CASE PaceWriteFails /\ ~ctxDone
    BY <1>2, <1>a, <2>1 DEF PaceWriteFails, Reasons
  <2>2. CASE PaceWriteFails /\ ctxDone
    BY <1>1, <2>2 DEF PaceWriteFails
  <2>3. CASE PaceStop \/ PaceTick \/ PaceLoad \/ PaceWriteOk \/ PaceLeave
    BY <1>1, <2>3 DEF PaceStop, PaceTick, PaceLoad, PaceWriteOk, PaceLeave
  <2>4. QED
    BY <1>8, <2>1, <2>2, <2>3 DEF DownStep
<1>9. CASE EvInText
  <2>1. run = "wait" /\ UNCHANGED <<run, reason, result>>
    BY <1>9, <1>a DEF EvInText, Receive
  <2>2. AddTurn("caller") \/ turns' = turns
    BY <1>9 DEF EvInText
  <2>3. QED
    BY <1>1, <1>3, <2>1, <2>2
<1>10. CASE EvOutText
  BY <1>3, <1>10, <1>a DEF EvOutText, Receive
<1>11. CASE EvEvent /\ ~EvInText /\ ~EvOutText
  BY <1>1, <1>11 DEF EvEvent, EvCreated, EvDelta, EvAudioDone, EvRespDone, EvStarted, EvStopped,
                     EvIgnored, Receive
<1>12. CASE EvTick
  <2>1. CASE SilenceTimeout > 0 /\ quiet > SilenceTimeout
    BY <1>2, <1>12, <1>a, <2>1 DEF EvTick, Reasons
  <2>2. CASE ~(SilenceTimeout > 0 /\ quiet > SilenceTimeout)
    BY <1>1, <1>12, <2>2 DEF EvTick
  <2>3. QED
    BY <2>1, <2>2
<1>13. CASE EvClosed
  BY <1>2, <1>13, <1>a DEF EvClosed, Reasons
<1>14. CASE EvStop \/ EvBuffer \/ EvFlush \/ EvLock \/ EvWrite \/ EvLeave
  BY <1>1, <1>14 DEF EvStop, EvBuffer, EvFlush, EvLock, EvWrite, EvLeave
<1>15. CASE LoopStep \/ SessionFault \/ \E k \in EventKinds : ReadEvent(k)
  BY <1>1, <1>15 DEF LoopStep, SessionFault, ReadEvent
<1>16. CASE TimerFires \/ HangUp \/ MediaCloses \/ Second \/ Close \/ UNCHANGED vars
  BY <1>1, <1>16 DEF TimerFires, HangUp, MediaCloses, Second, Close, vars
<1>17. QED
  BY <1>4, <1>5, <1>6, <1>7, <1>8, <1>9, <1>10, <1>11, <1>12, <1>13, <1>14, <1>15, <1>16
     DEF Next, Internal, Environment, Finished, RunStep, EvStep

\* Three goroutines, a channel of reasons and a shared transcript amount to
\* one call that accumulates words, has one first cause of its end and
\* reports both exactly once (bridge.go:115-156, 389-402).
THEOREM BridgeImplementsLifecycle == Spec => LifecycleSpec
<1>1. Init => CycleInv /\ Lifecycle!Init
  BY DEF Init, CycleInv, LifeInv, Lifecycle!Init, Phase, FirstReason
<1>2. Spec => []CycleInv
  BY <1>1, CycleInvStep, PTL DEF Spec
<1>3. QED
  BY <1>1, <1>2, CycleStep, BridgeTypeOK, PTL DEF Spec, LifecycleSpec, Lifecycle!Spec

---------------------------------------------------------------------------
(* The transcript. *)

Texts == {"inText", "outText"}
Word(k) == IF k = "inText" THEN "caller" ELSE "assistant"

\* The events between the connection and the handler, oldest first.
Pending == events \o (IF loop = "push" THEN <<held>> ELSE << >>)

\* The turns t are the beginning of what was said, s, and the transcripts in
\* the queue q are what follows, up to the m-th: f says where.
Kept(t, s, q, m, f) ==
  /\ t \in Turns /\ s \in Turns /\ q \in Seq(EventKinds)
  /\ m \in Len(t)..Len(s)
  /\ \A i \in 1..Len(t) : t[i] = s[i]
  /\ \A j \in (Len(t) + 1)..m :
       f[j] \in 1..Len(q) /\ q[f[j]] \in Texts /\ s[j] = Word(q[f[j]])
  /\ \A j, k \in (Len(t) + 1)..m : j < k => f[j] < f[k]
  /\ \A i \in 1..Len(q) : q[i] \in Texts => \E j \in (Len(t) + 1)..m : f[j] = i

LEMMA KeptTaken ==
  ASSUME NEW t, NEW s, NEW q, NEW m, NEW f, Kept(t, s, q, m, f), q # << >>
  PROVE  /\ Head(q) \notin Texts => \E g : Kept(t, s, Tail(q), m, g)
         /\ Head(q) \in Texts => \E g : Kept(Append(t, Word(Head(q))), s, Tail(q), m, g)
<1> DEFINE g == [j \in (Len(t) + 1)..m |-> f[j] - 1]
           r == Tail(q)
           w == Word(Head(q))
<1>1. /\ t \in Turns /\ s \in Turns /\ q \in Seq(EventKinds)
      /\ Len(t) \in Nat /\ Len(s) \in Nat /\ Len(q) \in Nat /\ Len(q) >= 1
      /\ m \in Len(t)..Len(s)
  BY LenProperties, EmptySeq DEF Kept, Turns
<1>2. /\ r \in Seq(EventKinds) /\ Len(r) = Len(q) - 1 /\ Head(q) = q[1]
      /\ \A i \in 1..Len(r) : r[i] = q[i + 1]
  BY <1>1, HeadTailProperties
<1>3. \A j \in (Len(t) + 1)..m : g[j] = f[j] - 1
  OBVIOUS
<1>4. /\ \A j \in (Len(t) + 1)..m :
           f[j] \in 1..Len(q) /\ q[f[j]] \in Texts /\ s[j] = Word(q[f[j]])
      /\ \A j, k \in (Len(t) + 1)..m : j < k => f[j] < f[k]
      /\ \A i \in 1..Len(q) : q[i] \in Texts => \E j \in (Len(t) + 1)..m : f[j] = i
      /\ \A i \in 1..Len(t) : t[i] = s[i]
  BY DEF Kept
<1> HIDE DEF g, r
<1>5. ASSUME NEW j \in (Len(t) + 1)..m, f[j] # 1
      PROVE  g[j] \in 1..Len(r) /\ r[g[j]] = q[f[j]]
  <2>1. f[j] \in 1..Len(q) /\ g[j] = f[j] - 1
    BY <1>3, <1>4
  <2>2. g[j] \in 1..Len(r) /\ g[j] + 1 = f[j]
    BY <1>1, <1>2, <1>5, <2>1
  <2>3. QED
    BY <1>2, <2>2
<1>6. ASSUME Head(q) \notin Texts
      PROVE  Kept(t, s, r, m, g)
  <2>1. \A j \in (Len(t) + 1)..m : f[j] # 1
    BY <1>2, <1>4, <1>6
  <2>2. \A j \in (Len(t) + 1)..m :
          g[j] \in 1..Len(r) /\ r[g[j]] \in Texts /\ s[j] = Word(r[g[j]])
    BY <1>4, <1>5, <2>1
  <2>3. ASSUME NEW j \in (Len(t) + 1)..m, NEW k \in (Len(t) + 1)..m, j < k
        PROVE  g[j] < g[k]
    <3>1. f[j] \in Int /\ f[k] \in Int /\ f[j] < f[k]
      BY <1>4, <2>3
    <3>2. g[j] = f[j] - 1 /\ g[k] = f[k] - 1
      BY <1>3
    <3>3. QED
      BY <3>1, <3>2
  <2>4. ASSUME NEW i \in 1..Len(r), r[i] \in Texts
        PROVE  \E j \in (Len(t) + 1)..m : g[j] = i
    <3>1. i + 1 \in 1..Len(q) /\ q[i + 1] \in Texts
      BY <1>1, <1>2, <2>4
    <3>2. PICK j \in (Len(t) + 1)..m : f[j] = i + 1
      BY <1>4, <3>1
    <3>3. g[j] = i
      BY <1>3, <3>2
    <3>4. QED
      BY <3>3
  <2>5. QED
    BY <1>1, <1>2, <1>4, <2>2, <2>3, <2>4 DEF Kept
<1>7. ASSUME Head(q) \in Texts
      PROVE  Kept(Append(t, w), s, r, m, g)
  <2> DEFINE u == Append(t, w)
  <2>1. w \in {"caller", "assistant"}
    BY DEF Word
  <2>2. /\ u \in Turns /\ Len(u) = Len(t) + 1 /\ u[Len(t) + 1] = w
        /\ \A i \in 1..Len(t) : u[i] = t[i]
    BY <1>1, <2>1, AppendProperties DEF Turns
  <2> HIDE DEF u
  <2>3. PICK n \in (Len(t) + 1)..m : f[n] = 1
    BY <1>1, <1>2, <1>4, <1>7
  <2>4. n = Len(t) + 1
    <3>1. ASSUME Len(t) + 1 < n PROVE FALSE
      <4>1. Len(t) + 1 \in (Len(t) + 1)..m
        BY <1>1
      <4>2. f[Len(t) + 1] < f[n] /\ f[Len(t) + 1] \in 1..Len(q)
        BY <1>4, <2>3, <3>1, <4>1
      <4>3. QED
        BY <1>1, <2>3, <4>2
    <3>2. QED
      BY <1>1, <3>1
  <2>5. s[Len(t) + 1] = w
    BY <1>2, <1>4, <2>3, <2>4
  <2>6. m \in Len(u)..Len(s)
    BY <1>1, <2>2, <2>3, <2>4
  <2>7. \A i \in 1..Len(u) : u[i] = s[i]
    BY <1>1, <1>4, <2>2, <2>5
  <2>8. ASSUME NEW j \in (Len(u) + 1)..m
        PROVE  j \in (Len(t) + 1)..m /\ f[j] # 1
    <3>1. j \in (Len(t) + 1)..m /\ Len(t) + 1 < j
      BY <1>1, <2>2
    <3>2. f[Len(t) + 1] < f[j]
      BY <1>1, <1>4, <2>3, <2>4, <3>1
    <3>3. QED
      BY <2>3, <2>4, <3>1, <3>2
  <2>9. \A j \in (Len(u) + 1)..m :
          g[j] \in 1..Len(r) /\ r[g[j]] \in Texts /\ s[j] = Word(r[g[j]])
    BY <1>4, <1>5, <2>8
  <2>10. ASSUME NEW j \in (Len(u) + 1)..m, NEW k \in (Len(u) + 1)..m, j < k
         PROVE  g[j] < g[k]
    <3>1. j \in (Len(t) + 1)..m /\ k \in (Len(t) + 1)..m
      BY <2>8
    <3>2. f[j] \in Int /\ f[k] \in Int /\ f[j] < f[k]
      BY <1>4, <2>10, <3>1
    <3>3. g[j] = f[j] - 1 /\ g[k] = f[k] - 1
      BY <1>3, <3>1
    <3>4. QED
      BY <3>2, <3>3
  <2>11. ASSUME NEW i \in 1..Len(r), r[i] \in Texts
         PROVE  \E j \in (Len(u) + 1)..m : g[j] = i
    <3>1. i + 1 \in 1..Len(q) /\ q[i + 1] \in Texts
      BY <1>1, <1>2, <2>11
    <3>2. PICK j \in (Len(t) + 1)..m : f[j] = i + 1
      BY <1>4, <3>1
    <3>3. j # Len(t) + 1
      BY <2>3, <2>4, <2>11, <3>2
    <3>4. j \in (Len(u) + 1)..m
      BY <1>1, <2>2, <3>3
    <3>5. g[j] = i
      BY <1>3, <3>2
    <3>6. QED
      BY <3>4, <3>5
  <2>12. QED
    BY <1>1, <1>2, <2>2, <2>6, <2>7, <2>9, <2>10, <2>11 DEF Kept, u
<1>8. QED
  BY <1>6, <1>7 DEF r

LEMMA KeptRead ==
  ASSUME NEW t, NEW s, NEW q, NEW f, Kept(t, s, q, Len(s), f), NEW k \in EventKinds
  PROVE  /\ k \notin Texts => Kept(t, s, Append(q, k), Len(s), f)
         /\ k \in Texts =>
              \E g : Kept(t, Append(s, Word(k)), Append(q, k), Len(Append(s, Word(k))), g)
<1> DEFINE p == Append(q, k)
           w == Word(k)
           z == Append(s, w)
           g == [j \in (Len(t) + 1)..(Len(s) + 1) |-> IF j = Len(s) + 1 THEN Len(q) + 1 ELSE f[j]]
<1>1. /\ t \in Turns /\ s \in Turns /\ q \in Seq(EventKinds)
      /\ Len(t) \in Nat /\ Len(s) \in Nat /\ Len(q) \in Nat
      /\ Len(t) <= Len(s)
  BY LenProperties DEF Kept, Turns
<1>2. /\ p \in Seq(EventKinds) /\ Len(p) = Len(q) + 1 /\ p[Len(q) + 1] = k
      /\ \A i \in 1..Len(q) : p[i] = q[i]
  BY <1>1, AppendProperties
<1>3. w \in {"caller", "assistant"}
  BY DEF Word
<1>4. /\ z \in Turns /\ Len(z) = Len(s) + 1 /\ z[Len(s) + 1] = w
      /\ \A i \in 1..Len(s) : z[i] = s[i]
  BY <1>1, <1>3, AppendProperties DEF Turns
<1>5. /\ \A j \in (Len(t) + 1)..Len(s) :
           f[j] \in 1..Len(q) /\ q[f[j]] \in Texts /\ s[j] = Word(q[f[j]])
      /\ \A i, j \in (Len(t) + 1)..Len(s) : i < j => f[i] < f[j]
      /\ \A i \in 1..Len(q) : q[i] \in Texts => \E j \in (Len(t) + 1)..Len(s) : f[j] = i
      /\ \A i \in 1..Len(t) : t[i] = s[i]
  BY DEF Kept
<1>6. /\ g[Len(s) + 1] = Len(q) + 1
      /\ \A j \in (Len(t) + 1)..Len(s) : g[j] = f[j]
  BY <1>1
<1> HIDE DEF p, g, z, w
<1>7. ASSUME k \notin Texts PROVE Kept(t, s, p, Len(s), f)
  <2>1. \A j \in (Len(t) + 1)..Len(s) :
          f[j] \in 1..Len(p) /\ p[f[j]] \in Texts /\ s[j] = Word(p[f[j]])
    BY <1>1, <1>2, <1>5
  <2>2. \A i \in 1..Len(p) : p[i] \in Texts => \E j \in (Len(t) + 1)..Len(s) : f[j] = i
    BY <1>1, <1>2, <1>5, <1>7
  <2>3. Len(s) \in Len(t)..Len(s)
    BY <1>1
  <2>4. QED
    BY <1>1, <1>2, <1>5, <2>1, <2>2, <2>3 DEF Kept
<1>8. ASSUME k \in Texts PROVE Kept(t, z, p, Len(z), g)
  <2>1. ASSUME NEW j \in (Len(t) + 1)..Len(z)
        PROVE  g[j] \in 1..Len(p) /\ p[g[j]] \in Texts /\ z[j] = Word(p[g[j]])
    <3>1. CASE j = Len(s) + 1
      BY <1>1, <1>2, <1>4, <1>6, <1>8, <3>1 DEF w
    <3>2. CASE j # Len(s) + 1
      <4>1. j \in (Len(t) + 1)..Len(s) /\ j \in 1..Len(s)
        BY <1>1, <1>4, <3>2
      <4>2. g[j] = f[j] /\ z[j] = s[j] /\ f[j] \in 1..Len(q) /\ f[j] \in 1..Len(p)
        BY <1>1, <1>2, <1>4, <1>5, <1>6, <4>1
      <4>3. QED
        BY <1>2, <1>5, <4>1, <4>2
    <3>3. QED
      BY <3>1, <3>2
  <2>2. ASSUME NEW i \in (Len(t) + 1)..Len(z), NEW j \in (Len(t) + 1)..Len(z), i < j
        PROVE  g[i] < g[j]
    <3>1. i \in (Len(t) + 1)..Len(s) /\ g[i] = f[i] /\ f[i] \in 1..Len(q)
      BY <1>1, <1>4, <1>5, <1>6, <2>2
    <3>2. CASE j = Len(s) + 1
      BY <1>1, <1>6, <3>1, <3>2
    <3>3. CASE j # Len(s) + 1
      <4>1. j \in (Len(t) + 1)..Len(s)
        BY <1>1, <1>4, <3>3
      <4>2. g[j] = f[j] /\ f[i] < f[j]
        BY <1>5, <1>6, <2>2, <3>1, <4>1
      <4>3. QED
        BY <3>1, <4>2
    <3>4. QED
      BY <3>2, <3>3
  <2>3. ASSUME NEW i \in 1..Len(p), p[i] \in Texts
        PROVE  \E j \in (Len(t) + 1)..Len(z) : g[j] = i
    <3>1. CASE i = Len(q) + 1
      <4>1. Len(s) + 1 \in (Len(t) + 1)..Len(z)
        BY <1>1, <1>4
      <4>2. QED
        BY <1>6, <3>1, <4>1
    <3>2. CASE i # Len(q) + 1
      <4>1. i \in 1..Len(q) /\ q[i] \in Texts
        BY <1>1, <1>2, <2>3, <3>2
      <4>2. PICK j \in (Len(t) + 1)..Len(s) : f[j] = i
        BY <1>5, <4>1
      <4>3. j \in (Len(t) + 1)..Len(z) /\ g[j] = i
        BY <1>1, <1>4, <1>6, <4>2
      <4>4. QED
        BY <4>3
    <3>3. QED
      BY <3>1, <3>2
  <2>4. Len(z) \in Len(t)..Len(z) /\ \A i \in 1..Len(t) : t[i] = z[i]
    BY <1>1, <1>4, <1>5
  <2>5. QED
    BY <1>1, <1>2, <1>4, <2>1, <2>2, <2>3, <2>4 DEF Kept
<1>9. QED
  BY <1>7, <1>8 DEF p, z, w

\* The end of the queue may be lost without a gap in what is kept.
LEMMA KeptDropped ==
  ASSUME NEW t, NEW s, NEW q \in Seq(EventKinds), NEW k \in EventKinds, NEW m, NEW f,
         Kept(t, s, Append(q, k), m, f)
  PROVE  \E n : Kept(t, s, q, n, f)
<1> DEFINE p == Append(q, k)
<1>1. /\ t \in Turns /\ s \in Turns
      /\ Len(t) \in Nat /\ Len(s) \in Nat /\ Len(q) \in Nat
      /\ m \in Len(t)..Len(s)
  BY LenProperties DEF Kept, Turns
<1>2. /\ Len(p) = Len(q) + 1 /\ p[Len(q) + 1] = k
      /\ \A i \in 1..Len(q) : p[i] = q[i]
  BY AppendProperties
<1>3. /\ \A j \in (Len(t) + 1)..m :
           f[j] \in 1..Len(p) /\ p[f[j]] \in Texts /\ s[j] = Word(p[f[j]])
      /\ \A i, j \in (Len(t) + 1)..m : i < j => f[i] < f[j]
      /\ \A i \in 1..Len(p) : p[i] \in Texts => \E j \in (Len(t) + 1)..m : f[j] = i
      /\ \A i \in 1..Len(t) : t[i] = s[i]
  BY DEF Kept
<1> HIDE DEF p
<1>4. CASE \E j \in (Len(t) + 1)..m : f[j] = Len(q) + 1
  <2>1. PICK l \in (Len(t) + 1)..m : f[l] = Len(q) + 1
    BY <1>4
  <2>2. l = m
    <3>1. ASSUME l < m PROVE FALSE
      <4>1. m \in (Len(t) + 1)..m
        BY <1>1, <3>1
      <4>2. f[l] < f[m] /\ f[m] \in 1..Len(p)
        BY <1>3, <3>1, <4>1
      <4>3. QED
        BY <1>1, <1>2, <2>1, <4>2
    <3>2. QED
      BY <1>1, <3>1
  <2> DEFINE n == m - 1
  <2>3. n \in Len(t)..Len(s) /\ (\A j \in (Len(t) + 1)..n : j \in (Len(t) + 1)..m /\ j < m)
    BY <1>1, <2>1, <2>2
  <2>4. ASSUME NEW j \in (Len(t) + 1)..n
        PROVE  f[j] \in 1..Len(q) /\ q[f[j]] \in Texts /\ s[j] = Word(q[f[j]])
    <3>1. f[j] < Len(q) + 1 /\ f[j] \in 1..Len(p)
      BY <1>3, <2>1, <2>2, <2>3
    <3>2. f[j] \in 1..Len(q)
      BY <1>1, <1>2, <3>1
    <3>3. QED
      BY <1>2, <1>3, <2>3, <3>2
  <2>5. ASSUME NEW i \in 1..Len(q), q[i] \in Texts
        PROVE  \E j \in (Len(t) + 1)..n : f[j] = i
    <3>1. i \in 1..Len(p) /\ p[i] \in Texts
      BY <1>1, <1>2, <2>5
    <3>2. PICK j \in (Len(t) + 1)..m : f[j] = i
      BY <1>3, <3>1
    <3>3. j # m
      BY <1>1, <2>1, <2>2, <3>2
    <3>4. j \in (Len(t) + 1)..n
      BY <1>1, <3>3
    <3>5. QED
      BY <3>2, <3>4
  <2> HIDE DEF n
  <2>6. QED
    BY <1>1, <1>3, <2>3, <2>4, <2>5 DEF Kept
<1>5. CASE ~\E j \in (Len(t) + 1)..m : f[j] = Len(q) + 1
  <2>1. ASSUME NEW j \in (Len(t) + 1)..m
        PROVE  f[j] \in 1..Len(q) /\ q[f[j]] \in Texts /\ s[j] = Word(q[f[j]])
    <3>1. f[j] \in 1..Len(p) /\ f[j] # Len(q) + 1
      BY <1>3, <1>5
    <3>2. f[j] \in 1..Len(q)
      BY <1>1, <1>2, <3>1
    <3>3. QED
      BY <1>2, <1>3, <3>2
  <2>2. \A i \in 1..Len(q) : q[i] \in Texts => \E j \in (Len(t) + 1)..m : f[j] = i
    BY <1>1, <1>2, <1>3
  <2>3. QED
    BY <1>1, <1>3, <2>1, <2>2 DEF Kept
<1>6. QED
  BY <1>4, <1>5

LEMMA KeptAll ==
  ASSUME NEW t, NEW s, NEW f, Kept(t, s, << >>, Len(s), f)
  PROVE  t = s
<1>1. /\ t \in Turns /\ s \in Turns /\ Len(t) \in Nat /\ Len(s) \in Nat
      /\ Len(s) \in Len(t)..Len(s)
      /\ \A j \in (Len(t) + 1)..Len(s) : f[j] \in 1..0
      /\ \A i \in 1..Len(t) : t[i] = s[i]
  BY LenProperties DEF Kept, Turns
<1>2. Len(t) = Len(s)
  BY <1>1
<1>3. t \in Seq({"caller", "assistant"}) /\ s \in Seq({"caller", "assistant"})
  BY <1>1 DEF Turns
<1>4. QED
  BY <1>1, <1>2, <1>3, SeqEqual

\* Only the end of the dialog makes readLoop throw an event away.
KeptInv ==
  \E m, f : /\ Kept(turns, said, Pending, m, f)
            /\ m = Len(said) \/ (dialDone /\ loop = "done")

LEMMA PendingType ==
  ASSUME TypeOK
  PROVE  /\ events \in Seq(EventKinds) /\ Pending \in Seq(EventKinds)
         /\ loop = "push" => held \in EventKinds /\ Pending = Append(events, held)
         /\ loop # "push" => Pending = events
<1>1. events \in Seq(EventKinds) /\ (loop = "push" => held \in EventKinds)
  BY DEF TypeOK, ClientTypeOK
<1>2. CASE loop = "push"
  <2>1. Pending = events \o <<held>>
    BY <1>2 DEF Pending
  <2>2. Append(events, held) = events \o <<held>> /\ Append(events, held) \in Seq(EventKinds)
    BY <1>1, <1>2, AppendIsConcat, AppendProperties
  <2>3. QED
    BY <1>1, <1>2, <2>1, <2>2
<1>3. CASE loop # "push"
  <2>1. Pending = events \o << >>
    BY <1>3 DEF Pending
  <2>2. QED
    BY <1>1, <1>3, <2>1, ConcatEmptySeq
<1>4. QED
  BY <1>2, <1>3

\* Taking the oldest event from the channel takes it from the queue.
LEMMA PendingTaken ==
  ASSUME TypeOK, NEW k, Receive(k)
  PROVE  Pending # << >> /\ Head(Pending) = k /\ Pending' = Tail(Pending)
<1>1. /\ events # << >> /\ Head(events) = k /\ events' = Tail(events)
      /\ UNCHANGED <<loop, held>>
  BY DEF Receive
<1>2. events \in Seq(EventKinds) /\ Len(events) \in Nat /\ Len(events) >= 1
      /\ (loop = "push" => held \in EventKinds)
  BY <1>1, PendingType, LenProperties, EmptySeq
<1>3. /\ Tail(events) \in Seq(EventKinds) /\ Len(Tail(events)) = Len(events) - 1
      /\ \A i \in 1..Len(Tail(events)) : Tail(events)[i] = events[i + 1]
      /\ events[1] = k
  BY <1>1, <1>2, HeadTailProperties
<1>4. CASE loop = "push"
  <2> DEFINE p == Append(events, held)
             r == Append(Tail(events), held)
  <2>1. Pending = p /\ Pending' = r
    <3>1. Pending = p /\ Pending' = Tail(events) \o <<held>>
      BY <1>1, <1>4, PendingType DEF Pending
    <3>2. QED
      BY <1>2, <1>3, <1>4, <3>1, AppendIsConcat
  <2>2. /\ p \in Seq(EventKinds) /\ Len(p) = Len(events) + 1 /\ p[Len(events) + 1] = held
        /\ \A i \in 1..Len(events) : p[i] = events[i]
    BY <1>2, <1>4, AppendProperties
  <2>3. /\ r \in Seq(EventKinds) /\ Len(r) = Len(events) /\ r[Len(events)] = held
        /\ \A i \in 1..(Len(events) - 1) : r[i] = events[i + 1]
    BY <1>2, <1>3, <1>4, AppendProperties
  <2> HIDE DEF p, r
  <2>4. p # << >> /\ Head(p) = k
    BY <1>2, <1>3, <2>2, EmptySeq
  <2>5. /\ Tail(p) \in Seq(EventKinds) /\ Len(Tail(p)) = Len(p) - 1
        /\ \A i \in 1..Len(Tail(p)) : Tail(p)[i] = p[i + 1]
    BY <2>2, <2>4, HeadTailProperties
  <2>6. \A i \in 1..Len(r) : r[i] = Tail(p)[i]
    BY <1>2, <2>2, <2>3, <2>5
  <2>7. r = Tail(p)
    BY <1>2, <2>2, <2>3, <2>5, <2>6, SeqEqual
  <2>8. QED
    BY <2>1, <2>4, <2>7
<1>5. CASE loop # "push"
  <2>1. Pending' = Tail(events) \o << >>
    BY <1>1, <1>5 DEF Pending
  <2>2. Pending' = Tail(events)
    BY <1>3, <2>1, ConcatEmptySeq
  <2>3. QED
    BY <1>1, <1>5, <2>2, PendingType
<1>6. QED
  BY <1>4, <1>5

LEMMA KeptStep == TypeOK /\ KeptInv /\ [Next]_vars => KeptInv'
<1> SUFFICES ASSUME TypeOK, KeptInv, [Next]_vars PROVE KeptInv'
  OBVIOUS
<1> USE DEF clientVars, callVars, upVars, downVars, evVars, shared, bridgeVars
<1>0. PICK m, f : /\ Kept(turns, said, Pending, m, f)
                  /\ m = Len(said) \/ (dialDone /\ loop = "done")
  BY DEF KeptInv
<1>1. ASSUME UNCHANGED <<turns, said, Pending>>, dialDone /\ loop = "done" => (dialDone /\ loop = "done")'
      PROVE  KeptInv'
  BY <1>0, <1>1, Zenon DEF KeptInv
\* A step that keeps what is said, recorded and pending.
<1>2. ASSUME UNCHANGED <<turns, said, events, loop, held>>, dialDone => dialDone'
      PROVE  KeptInv'
  <2>1. Pending' = Pending
    BY <1>2 DEF Pending
  <2>2. QED
    BY <1>1, <1>2, <2>1, Zenon
<1>3. CASE RunStep
  <2>1. UNCHANGED <<turns, said, events, loop, held, dialDone>>
    BY <1>3 DEF RunStep, GreetOk, GreetFails, Return
  <2>2. QED
    BY <1>2, <2>1, Zenon
<1>4. CASE UpStep
  <2>1. UNCHANGED <<turns, said, events, loop, held, dialDone>>
    BY <1>4 DEF UpStep, UpCheck, UpRead, UpLock, UpWriteOk, UpWriteFails, UpLeave, Lock, WriteOk,
                WriteFails
  <2>2. QED
    BY <1>2, <2>1, Zenon
<1>5. CASE DownStep
  <2>1. UNCHANGED <<turns, said, events, loop, held, dialDone>>
    BY <1>5 DEF DownStep, PaceStop, PaceTick, PaceLoad, PaceWriteOk, PaceWriteFails, PaceLeave
  <2>2. QED
    BY <1>2, <2>1, Zenon
<1>6. CASE EvStep /\ ~EvEvent
  <2>1. UNCHANGED <<turns, said, events, loop, held, dialDone>>
    BY <1>6 DEF EvStep, EvStop, EvTick, EvClosed, EvBuffer, EvFlush, EvLock, EvWrite, EvLeave,
                Lock, WriteOk, WriteFails, CancelOnce
  <2>2. QED
    BY <1>2, <2>1, Zenon
\* The handler records the transcript it takes, and only that.
<1>7. CASE EvEvent
  <2>1. PICK k : Receive(k) /\ turns' = IF k \in Texts THEN Append(turns, Word(k)) ELSE turns
    <3>1. CASE EvInText
      BY <3>1 DEF EvInText, Texts, Word
    <3>2. CASE EvOutText
      BY <3>2 DEF EvOutText, Texts, Word
    <3>3. CASE ~EvInText /\ ~EvOutText
      BY <1>7, <3>3 DEF EvEvent, EvCreated, EvDelta, EvAudioDone, EvRespDone, EvStarted, EvStopped,
                        EvIgnored, Texts
    <3>4. QED
      BY <3>1, <3>2, <3>3
  <2>2. Pending # << >> /\ Head(Pending) = k /\ Pending' = Tail(Pending)
    BY <2>1, PendingTaken
  <2>3. UNCHANGED <<said, dialDone, loop>>
    BY <2>1 DEF Receive
  <2>4. \E g : Kept(turns', said, Tail(Pending), m, g)
    BY <1>0, <2>1, <2>2, KeptTaken
  <2>5. QED
    BY <1>0, <2>2, <2>3, <2>4, Zenon DEF KeptInv
\* readLoop: an event is read, handed over, or lost.
<1>8. ASSUME NEW k \in EventKinds, ReadEvent(k) PROVE KeptInv'
  <2>1. /\ loop = "read" /\ loop' = "push" /\ held' = k /\ UNCHANGED <<events, turns, dialDone>>
        /\ said' = IF k \in Texts THEN Append(said, Word(k)) ELSE said
    BY <1>8 DEF ReadEvent, LoopRead, Texts, Word
  <2>2. Pending = events /\ Pending' = events \o <<k>>
    BY <2>1, PendingType DEF Pending
  <2>3. Pending' = Append(Pending, k)
    BY <2>2, PendingType, AppendIsConcat
  <2>4. m = Len(said)
    BY <1>0, <2>1
  <2>5. \E g : Kept(turns, said', Pending', Len(said'), g)
    BY <1>0, <2>1, <2>3, <2>4, KeptRead
  <2>6. QED
    BY <2>1, <2>5, Zenon DEF KeptInv
<1>9. CASE LoopStep
  <2>1. CASE LoopPush
    <3>1. /\ loop = "push" /\ loop' = "read" /\ events' = Append(events, held)
          /\ UNCHANGED <<said, turns, dialDone>>
      BY <1>9, <2>1 DEF LoopStep, LoopPush
    <3>2. Pending = Append(events, held) /\ Pending \in Seq(EventKinds)
      BY <3>1, PendingType
    <3>3. Pending' = Pending \o << >>
      BY <3>1, <3>2 DEF Pending
    <3>4. Pending' = Pending
      BY <3>2, <3>3, ConcatEmptySeq
    <3>5. loop # "done"
      BY <3>1
    <3>6. QED
      BY <1>1, <3>1, <3>4, <3>5, Zenon
  <2>2. CASE LoopQuits
    <3>1. /\ loop = "push" /\ loop' = "done" /\ dialDone /\ dialDone' = dialDone
          /\ UNCHANGED <<events, said, turns>>
      BY <1>9, <2>2, Zenon DEF LoopStep, LoopQuits
    <3>2. Pending = Append(events, held) /\ held \in EventKinds /\ events \in Seq(EventKinds)
      BY <3>1, PendingType
    <3>3. Pending' = events
      <4>1. Pending' = events \o << >>
        BY <3>1 DEF Pending
      <4>2. QED
        BY <3>2, <4>1, ConcatEmptySeq
    <3>4. \E n : Kept(turns, said, events, n, f)
      BY <1>0, <3>2, KeptDropped
    <3>5. QED
      BY <3>1, <3>3, <3>4, Zenon DEF KeptInv
  <2>3. CASE LoopFails
    <3>1. /\ loop = "read" /\ loop' = "done" /\ UNCHANGED <<events, said, turns, held>>
      BY <1>9, <2>3 DEF LoopStep, LoopFails
    <3>2. Pending' = Pending /\ loop # "done"
      BY <3>1 DEF Pending
    <3>3. QED
      BY <1>1, <3>1, <3>2, Zenon
  <2>4. QED
    BY <1>9, <2>1, <2>2, <2>3 DEF LoopStep
<1>10. CASE SessionFault
  <2>1. CASE LoopGarbled
    <3>1. /\ loop = "read" /\ loop' = "done" /\ UNCHANGED <<events, said, turns, held>>
      BY <1>10, <2>1 DEF SessionFault, LoopGarbled
    <3>2. Pending' = Pending /\ loop # "done"
      BY <3>1 DEF Pending
    <3>3. QED
      BY <1>1, <3>1, <3>2, Zenon
  <2>2. CASE ConnDrops
    <3>1. UNCHANGED <<turns, said, events, loop, held, dialDone>>
      BY <1>10, <2>2 DEF SessionFault, ConnDrops
    <3>2. QED
      BY <1>2, <3>1, Zenon
  <2>3. QED
    BY <1>10, <2>1, <2>2 DEF SessionFault
<1>11. CASE HangUp
  <2>1. UNCHANGED <<turns, said, events, loop, held>>
    BY <1>11 DEF HangUp, DialogCancelled
  <2>2. dialDone'
    BY <1>11, Zenon DEF HangUp, DialogCancelled
  <2>3. QED
    BY <1>2, <2>1, <2>2, Zenon
<1>12. CASE TimerFires \/ MediaCloses \/ Second \/ Close \/ UNCHANGED vars
  <2>1. UNCHANGED <<turns, said, events, loop, held, dialDone>>
    BY <1>12 DEF TimerFires, MediaCloses, Second, Close, ClientClose, vars
  <2>2. QED
    BY <1>2, <2>1, Zenon
<1>13. QED
  BY <1>3, <1>4, <1>5, <1>6, <1>7, <1>8, <1>9, <1>10, <1>11, <1>12
     DEF Next, Internal, Environment, Finished

\* Run says nothing of the call before it returns.
Unreported == run # "returned" => result.why = "running"

LEMMA UnreportedStep == Unreported /\ [Next]_vars => Unreported'
<1> SUFFICES ASSUME Unreported, [Next]_vars PROVE Unreported'
  OBVIOUS
<1> USE DEF callVars, bridgeVars, Unreported
<1>1. CASE RunStep
  BY <1>1 DEF RunStep, GreetOk, GreetFails, Return
<1>2. CASE ~RunStep
  <2>1. run' = run /\ result' = result
    <3>1. CASE UpStep
      BY <3>1 DEF UpStep, UpCheck, UpRead, UpLock, UpWriteOk, UpWriteFails, UpLeave
    <3>2. CASE DownStep
      BY <3>2 DEF DownStep, PaceStop, PaceTick, PaceLoad, PaceWriteOk, PaceWriteFails, PaceLeave
    <3>3. CASE EvStep
      BY <3>3 DEF EvStep, EvEvent, EvCreated, EvDelta, EvAudioDone, EvRespDone, EvStarted,
           EvStopped, EvInText, EvOutText, EvIgnored, Receive, EvStop, EvTick, EvClosed, EvBuffer,
           EvFlush, EvLock, EvWrite, EvLeave
    <3>4. CASE LoopStep \/ SessionFault \/ \E k \in EventKinds : ReadEvent(k)
      BY <3>4 DEF LoopStep, SessionFault, ReadEvent
    <3>5. CASE TimerFires \/ HangUp \/ MediaCloses \/ Second \/ Close \/ UNCHANGED vars
      BY <3>5 DEF TimerFires, HangUp, MediaCloses, Second, Close, vars
    <3>6. QED
      BY <1>2, <3>1, <3>2, <3>3, <3>4, <3>5 DEF Next, Internal, Environment, Finished
  <2>2. QED
    BY <2>1
<1>3. QED
  BY <1>1, <1>2

\* The transcript has no gap and no invention, and when the session ends by
\* itself every word that arrived is in it (bridge.go:232-247, 312-327).
THEOREM BridgeTranscriptKept == Spec => []TranscriptKept
<1>1. Init => KeptInv
  <2> SUFFICES ASSUME Init PROVE KeptInv
    OBVIOUS
  <2>1. turns = << >> /\ said = << >> /\ Pending = << >>
    BY DEF Init, ClientInit, Pending
  <2>2. Kept(<< >>, << >>, << >>, 0, << >>)
    <3> DEFINE e == << >>
    <3>1. e \in Seq({"caller", "assistant"}) /\ e \in Seq(EventKinds) /\ Len(e) = 0
      OBVIOUS
    <3> HIDE DEF e
    <3>2. Kept(e, e, e, 0, e)
      BY <3>1 DEF Kept, Turns
    <3>3. QED
      BY <3>2 DEF e
  <2>3. Len(said) = 0
    BY <2>1
  <2>4. QED
    BY <2>1, <2>2, <2>3 DEF KeptInv
<1>2. TypeOK /\ KeptInv /\ ReasonsAreTrue /\ ResultIsFinal /\ Unreported => TranscriptKept
  <2> SUFFICES ASSUME TypeOK, KeptInv, ReasonsAreTrue, ResultIsFinal, Unreported
               PROVE  TranscriptKept
    OBVIOUS
  <2>1. PICK m, f : /\ Kept(turns, said, Pending, m, f)
                    /\ m = Len(said) \/ (dialDone /\ loop = "done")
    BY DEF KeptInv
  <2>2. /\ turns \in Seq({"caller", "assistant"}) /\ said \in Seq({"caller", "assistant"})
        /\ Len(turns) \in Nat /\ Len(said) \in Nat /\ Len(turns) <= Len(said)
        /\ \A i \in 1..Len(turns) : turns[i] = said[i]
    BY <2>1, LenProperties DEF Kept, Turns
  <2>3. turns = SubSeq(said, 1, Len(turns))
    <3>1. /\ SubSeq(said, 1, Len(turns)) \in Seq({"caller", "assistant"})
          /\ Len(SubSeq(said, 1, Len(turns))) = Len(turns)
          /\ \A i \in 1..Len(turns) : SubSeq(said, 1, Len(turns))[i] = said[i]
      BY <2>2, SubSeqProperties
    <3>2. QED
      BY <2>2, <3>1, SeqEqual
  <2>4. ASSUME result.why = "model session closed", ~dialDone PROVE turns = said
    <3>1. loop = "done" /\ events = << >>
      BY <2>4 DEF ReasonsAreTrue, TrueReason
    <3>2. Pending = << >>
      BY <3>1, PendingType
    <3>3. m = Len(said)
      BY <2>1, <2>4, Zenon
    <3>4. QED
      BY <2>1, <3>2, <3>3, KeptAll
  <2>5. result.why = "model session closed" => result.turns = turns
    BY DEF ResultIsFinal, Unreported
  <2>6. Len(turns) <= Len(said)
    BY <2>2
  <2>7. QED
    BY <2>3, <2>4, <2>5, <2>6 DEF TranscriptKept
<1>3. Init => Unreported
  BY DEF Init, Unreported
<1>4. QED
  BY <1>1, <1>2, <1>3, KeptStep, UnreportedStep, BridgeTypeOK, BridgeReasonsAreTrue,
     BridgeResultIsFinal, PTL DEF Spec

---------------------------------------------------------------------------
(* The end of a call.  That a call ends is liveness and is left to the      *)
(* model checker; proved here is what it rests on: nobody waits in a        *)
(* circle, the pump comes closer to its end with every step, and nothing    *)
(* moves any more once Run has returned.                                    *)

\* The place a goroutine stands at lets it go on without waiting for another,
\* given that the call's context is cancelled.
UpCanGo   == \/ up \in {"top", "write", "leave"}
             \/ up = "lock" /\ writeMu = Nobody
             \/ up = "read" /\ ~mediaOpen
DownCanGo == down \in {"select", "load", "write", "leave"}
EvCanGo   == \/ ev \in {"select", "buffer", "flush", "write", "leave"}
             \/ ev = "lock" /\ writeMu = Nobody

\* In a call that is ending each goroutine is gone, or can go on, or waits for
\* the mutex of one that can; but for the pump, which may be inside Read.
OnlyReadWaits ==
  run = "wait" /\ ctxDone =>
    /\ up = "done"   \/ UpCanGo \/ (up = "read" /\ mediaOpen) \/ (up = "lock" /\ ev = "write")
    /\ down = "done" \/ DownCanGo
    /\ ev = "done"   \/ EvCanGo \/ (ev = "lock" /\ up = "write")

\* No lock is left behind and nobody waits in a circle: in a call that is
\* ending only a Read of the caller's packets, which no context interrupts,
\* can keep Run waiting (bridge.go:135-146, 163-187; client.go:174-188).
THEOREM BridgeOnlyReadWaits == Spec => []OnlyReadWaits
<1>1. TypeOK /\ LifeInv /\ MutexInv => OnlyReadWaits
  BY DEF TypeOK, ClientTypeOK, PumpTypeOK, EvTypeOK, Writers, LifeInv, MutexInv, OnlyReadWaits,
         UpCanGo, DownCanGo, EvCanGo
<1>2. QED
  BY <1>1, BridgeTypeOK, LifeHolds, MutexHolds, PTL

\* How many steps of its own the pump has left when the context is cancelled.
UpRank == CASE up = "read" -> 5 [] up = "lock" -> 4 [] up = "write" -> 3
            [] up = "top" -> 2 [] up = "leave" -> 1 [] OTHER -> 0

\* Under a cancelled context the pump only comes closer to its end.
PumpWindsDown == [][ctxDone /\ up # "idle" => up' = up \/ UpRank' < UpRank]_vars

\* A cancelled call sends at most the packet its pump is reading or writing,
\* and at most five of the pump's steps separate it from its end
\* (bridge.go:163-187).
THEOREM BridgePumpWindsDown == Spec => PumpWindsDown
<1> USE DEF clientVars, callVars, upVars, downVars, evVars, shared, bridgeVars
<1>1. LifeInv /\ [Next]_vars => (ctxDone /\ up # "idle" => up' = up \/ UpRank' < UpRank)
  <2> SUFFICES ASSUME LifeInv, [Next]_vars, ctxDone, up # "idle"
               PROVE  up' = up \/ UpRank' < UpRank
    OBVIOUS
  <2>1. CASE UpStep
    <3>1. \/ up = "read"  /\ up' \in {"lock", "leave", "top"}
          \/ up = "lock"  /\ up' = "write"
          \/ up = "write" /\ up' \in {"leave", "top"}
          \/ up = "top"   /\ up' = "leave"
          \/ up = "leave" /\ up' = "done"
      BY <2>1 DEF UpStep, UpCheck, UpRead, UpLock, UpWriteOk, UpWriteFails, UpLeave
    <3>2. QED
      BY <3>1 DEF UpRank
  <2>2. CASE GreetOk
    BY <2>2 DEF GreetOk, LifeInv, UpRank
  <2>3. CASE GreetFails \/ Return
    BY <2>3 DEF GreetFails, Return
  <2>4. CASE DownStep
    BY <2>4 DEF DownStep, PaceStop, PaceTick, PaceLoad, PaceWriteOk, PaceWriteFails, PaceLeave
  <2>5. CASE EvStep
    BY <2>5 DEF EvStep, EvEvent, EvCreated, EvDelta, EvAudioDone, EvRespDone, EvStarted, EvStopped,
         EvInText, EvOutText, EvIgnored, Receive, EvStop, EvTick, EvClosed, EvBuffer, EvFlush,
         EvLock, EvWrite, EvLeave
  <2>6. CASE LoopStep \/ SessionFault \/ \E k \in EventKinds : ReadEvent(k)
    BY <2>6 DEF LoopStep, SessionFault, ReadEvent
  <2>7. CASE TimerFires \/ HangUp \/ MediaCloses \/ Second \/ Close \/ UNCHANGED vars
    BY <2>7 DEF TimerFires, HangUp, MediaCloses, Second, Close, vars
  <2>8. QED
    BY <2>1, <2>2, <2>3, <2>4, <2>5, <2>6, <2>7
       DEF Next, Internal, Environment, Finished, RunStep
<1>2. QED
  BY <1>1, LifeHolds, PTL DEF Spec, PumpWindsDown

\* Run returns with its context cancelled and its timer dead.
OverInv ==
  /\ up = "done" => ctxDone
  /\ run = "returned" => ctxDone /\ timer # "armed"

LEMMA OverStep == LifeInv /\ OverInv /\ [Next]_vars => OverInv'
<1> SUFFICES ASSUME LifeInv, OverInv, [Next]_vars PROVE OverInv'
  OBVIOUS
<1> USE DEF clientVars, callVars, upVars, downVars, evVars, shared, bridgeVars, OverInv
<1>1. CASE RunStep
  BY <1>1 DEF RunStep, GreetOk, GreetFails, Return, LifeInv
<1>2. CASE UpStep
  BY <1>2 DEF UpStep, UpCheck, UpRead, UpLock, UpWriteOk, UpWriteFails, UpLeave
<1>3. CASE DownStep
  BY <1>3 DEF DownStep, PaceStop, PaceTick, PaceLoad, PaceWriteOk, PaceWriteFails, PaceLeave
<1>4. CASE EvStep
  BY <1>4 DEF EvStep, EvEvent, EvCreated, EvDelta, EvAudioDone, EvRespDone, EvStarted, EvStopped,
       EvInText, EvOutText, EvIgnored, Receive, EvStop, EvTick, EvClosed, EvBuffer, EvFlush,
       EvLock, EvWrite, EvLeave
<1>5. CASE LoopStep \/ SessionFault \/ \E k \in EventKinds : ReadEvent(k)
  BY <1>5 DEF LoopStep, SessionFault, ReadEvent
<1>6. CASE TimerFires \/ HangUp \/ MediaCloses \/ Second \/ Close \/ UNCHANGED vars
  BY <1>6 DEF TimerFires, HangUp, MediaCloses, Second, Close, vars
<1>7. QED
  BY <1>1, <1>2, <1>3, <1>4, <1>5, <1>6 DEF Next, Internal, Environment, Finished

\* After Run nobody is inside a write, and nothing of the call changes.
AllGone == run = "returned" => /\ writeMu = Nobody
                               /\ up \in {"idle", "done"} /\ down \in {"idle", "done"}
                               /\ ev \in {"idle", "done"}
StaysGone == [][run = "returned" => UNCHANGED <<writeMu, ctxDone, bridgeVars>>]_vars

\* When Run has returned its work is over: no goroutine of it is left that could
\* touch the Result its caller reads or write to the websocket its caller
\* closes, and no late timer or event changes anything (bridge.go:127-150).
THEOREM BridgeStaysGone == Spec => []AllGone /\ StaysGone
<1> USE DEF clientVars, callVars, upVars, downVars, evVars, shared, bridgeVars
<1>1. Init => OverInv
  BY DEF Init, OverInv
<1>2. TypeOK /\ LifeInv /\ MutexInv => AllGone
  BY DEF TypeOK, ClientTypeOK, LifeInv, MutexInv, AllGone, Writers
<1>3. /\ LifeInv /\ OverInv /\ AllGone /\ [Next]_vars
      => (run = "returned" => UNCHANGED <<writeMu, ctxDone, bridgeVars>>)
  <2> SUFFICES ASSUME OverInv, AllGone, [Next]_vars, run = "returned"
               PROVE  UNCHANGED <<writeMu, ctxDone, bridgeVars>>
    OBVIOUS
  <2>1. ~RunStep
    BY DEF RunStep, GreetOk, GreetFails, Return
  <2>2. ~UpStep
    BY DEF AllGone, UpStep, UpCheck, UpRead, UpLock, UpWriteOk, UpWriteFails, UpLeave
  <2>3. ~DownStep
    BY DEF AllGone, DownStep, PaceStop, PaceTick, PaceLoad, PaceWriteOk, PaceWriteFails, PaceLeave
  <2>4. ~EvStep
    BY DEF AllGone, EvStep, EvEvent, EvCreated, EvDelta, EvAudioDone, EvRespDone, EvStarted,
         EvStopped, EvInText, EvOutText, EvIgnored, Receive, EvStop, EvTick, EvClosed, EvBuffer,
         EvFlush, EvLock, EvWrite, EvLeave
  <2>5. ~TimerFires /\ ~Second
    BY DEF OverInv, AllGone, TimerFires, Second
  <2>6. CASE LoopStep \/ SessionFault \/ \E k \in EventKinds : ReadEvent(k)
    BY <2>6 DEF LoopStep, SessionFault, ReadEvent, LoopFails, LoopPush, LoopQuits, LoopGarbled,
                ConnDrops, LoopRead
  <2>7. CASE HangUp \/ MediaCloses \/ Close \/ UNCHANGED vars
    BY <2>7 DEF OverInv, HangUp, DialogCancelled, MediaCloses, Close, ClientClose, vars
  <2>8. QED
    BY <2>1, <2>2, <2>3, <2>4, <2>5, <2>6, <2>7 DEF Next, Internal, Environment, Finished
<1> HIDE DEF clientVars, callVars, upVars, downVars, evVars, shared, bridgeVars
<1>4. QED
  BY <1>1, <1>2, <1>3, OverStep, BridgeTypeOK, LifeHolds, MutexHolds, PTL DEF Spec, StaysGone

---------------------------------------------------------------------------
(* Reasons.  A send that finds the channel full is dropped in silence.      *)

Leaving == {"leave", "done"}
Left(g) == IF g \in Leaving THEN 1 ELSE 0

\* A goroutine gives at most one reason, and leaves.
RoomInv == Len(reason) <= Left(up) + Left(down) + Left(ev)

\* Whoever may still have a reason to give finds room for it.
RoomForReasons == {up, down, ev} \subseteq Leaving \/ Len(reason) < 3

\* The first reason stays the first, and it is the one reported.
FirstReasonWins ==
  [][reason # << >> =>
       IF run = "wait" /\ run' = "returned" THEN result'.why = reason[1]
                                            ELSE reason' # << >> /\ reason'[1] = reason[1]]_vars

\* A goroutine gives a reason on its way from place p to place q.
Gives(p, q) == p \notin Leaving /\ q \in Leaving /\ \E r \in Reasons : Send(r)

GivesOrKeeps ==
  \/ /\ reason' = reason /\ (run = "wait" => run' = "wait")
     /\ up \in Leaving => up' \in Leaving
     /\ down \in Leaving => down' \in Leaving
     /\ ev \in Leaving => ev' \in Leaving
  \/ Gives(up, up') /\ UNCHANGED <<run, down, ev>>
  \/ Gives(down, down') /\ UNCHANGED <<run, up, ev>>
  \/ Gives(ev, ev') /\ UNCHANGED <<run, up, down>>
  \/ Return

LEMMA GivesStep == LifeInv /\ [Next]_vars => GivesOrKeeps
<1> SUFFICES ASSUME LifeInv, [Next]_vars PROVE GivesOrKeeps
  OBVIOUS
<1> USE DEF GivesOrKeeps
<1> USE DEF clientVars, callVars, upVars, downVars, evVars, shared, bridgeVars
<1>1. CASE GreetOk \/ GreetFails
  BY <1>1 DEF GreetOk, GreetFails, LifeInv, Leaving
<1>2. CASE UpStep
  BY <1>2 DEF UpStep, UpCheck, UpRead, UpLock, UpWriteOk, UpWriteFails, UpLeave, Leaving, Gives, Reasons
<1>3. CASE DownStep
  BY <1>3 DEF DownStep, PaceStop, PaceTick, PaceLoad, PaceWriteOk, PaceWriteFails, PaceLeave,
              Leaving, Gives, Reasons
<1>4. CASE EvStep
  <2>1. CASE EvTick \/ EvClosed
    BY <2>1 DEF EvTick, EvClosed, Leaving, Gives, Reasons
  <2>2. CASE EvEvent
    BY <2>2 DEF EvEvent, EvCreated, EvDelta, EvAudioDone, EvRespDone, EvStarted, EvStopped,
         EvInText, EvOutText, EvIgnored, Receive, Leaving
  <2>3. CASE EvStop \/ EvBuffer \/ EvFlush \/ EvLock \/ EvWrite \/ EvLeave
    BY <2>3 DEF EvStop, EvBuffer, EvFlush, CancelOnce, EvLock, EvWrite, EvLeave, Leaving
  <2>4. QED
    BY <1>4, <2>1, <2>2, <2>3 DEF EvStep
<1>5. CASE LoopStep \/ SessionFault \/ \E k \in EventKinds : ReadEvent(k)
  BY <1>5 DEF LoopStep, SessionFault, ReadEvent, Leaving
<1>6. CASE TimerFires \/ HangUp \/ MediaCloses \/ Second \/ Close \/ UNCHANGED vars
  BY <1>6 DEF TimerFires, HangUp, MediaCloses, Second, Close, vars, Leaving
<1>7. QED
  BY <1>1, <1>2, <1>3, <1>4, <1>5, <1>6 DEF Next, Internal, Environment, Finished, RunStep

\* No reason is ever dropped, whichever of the three goroutines fail at once,
\* and the one reported is the first that was given (bridge.go:133, 148-152,
\* 396-402).
THEOREM BridgeFirstReason == Spec => []RoomForReasons /\ FirstReasonWins
<1>1. Init => RoomInv
  BY DEF Init, RoomInv, Left, Leaving
<1>2. TypeOK /\ LifeInv /\ RoomInv /\ [Next]_vars => RoomInv'
  <2> SUFFICES ASSUME TypeOK, LifeInv, RoomInv, [Next]_vars PROVE RoomInv'
    OBVIOUS
  <2>1. reason \in Seq(Reasons) /\ Len(reason) \in Nat
    BY LenProperties DEF TypeOK, CallTypeOK
  <2>2. \A g : Left(g) \in {0, 1}
    BY DEF Left
  <2>3. ASSUME NEW r \in Reasons, Send(r) PROVE Len(reason') <= Len(reason) + 1
    BY <2>1, <2>3, AppendProperties DEF Send
  <2>4. CASE Return
    <3>1. up = "done" /\ down = "done" /\ ev = "done" /\ UNCHANGED <<up, down, ev>>
      BY <2>4 DEF Return, upVars, downVars, evVars
    <3>2. CASE reason = << >>
      BY <2>4, <3>1, <3>2 DEF RoomInv, Return
    <3>3. CASE reason # << >>
      <4>1. Len(Tail(reason)) \in Nat /\ Len(Tail(reason)) <= Len(reason)
        BY <2>1, <3>3, HeadTailProperties
      <4>2. reason' = Tail(reason)
        BY <2>4, <3>3 DEF Return
      <4>3. QED
        BY <2>1, <2>2, <3>1, <4>1, <4>2 DEF RoomInv
    <3>4. QED
      BY <3>2, <3>3
  <2>5. ASSUME NEW p, NEW q, Gives(p, q)
        PROVE  Len(reason') <= Len(reason) + 1 /\ Left(p) = 0 /\ Left(q) = 1
    BY <2>3, <2>5 DEF Gives, Left
  <2>6. ASSUME NEW p, NEW q, p \in Leaving => q \in Leaving PROVE Left(p) <= Left(q)
    BY <2>6 DEF Left
  <2>7. CASE /\ reason' = reason
             /\ up \in Leaving => up' \in Leaving
             /\ down \in Leaving => down' \in Leaving
             /\ ev \in Leaving => ev' \in Leaving
    <3>1. Left(up) <= Left(up') /\ Left(down) <= Left(down') /\ Left(ev) <= Left(ev')
      BY <2>6, <2>7
    <3>2. QED
      BY <2>1, <2>2, <2>7, <3>1 DEF RoomInv
  <2>8. ASSUME NEW r \in Reasons, Send(r) PROVE Len(reason') \in Nat
    BY <2>1, <2>8, AppendProperties DEF Send
  <2>9. CASE Gives(up, up') /\ UNCHANGED <<run, down, ev>>
    BY <2>1, <2>2, <2>5, <2>8, <2>9 DEF RoomInv, Gives
  <2>10. CASE Gives(down, down') /\ UNCHANGED <<run, up, ev>>
    BY <2>1, <2>2, <2>5, <2>8, <2>10 DEF RoomInv, Gives
  <2>11. CASE Gives(ev, ev') /\ UNCHANGED <<run, up, down>>
    BY <2>1, <2>2, <2>5, <2>8, <2>11 DEF RoomInv, Gives
  <2>12. QED
    BY <2>4, <2>7, <2>9, <2>10, <2>11, GivesStep DEF GivesOrKeeps
<1>3. TypeOK /\ RoomInv => RoomForReasons
  <2> SUFFICES ASSUME TypeOK, RoomInv, ~({up, down, ev} \subseteq Leaving) PROVE Len(reason) < 3
    BY DEF RoomForReasons
  <2>1. Len(reason) \in Nat
    BY LenProperties DEF TypeOK, CallTypeOK
  <2>2. \A g : Left(g) \in {0, 1}
    BY DEF Left
  <2>3. Left(up) = 0 \/ Left(down) = 0 \/ Left(ev) = 0
    BY DEF Left
  <2>4. QED
    BY <2>1, <2>2, <2>3 DEF RoomInv
<1>4. TypeOK /\ LifeInv /\ [Next]_vars =>
        (reason # << >> =>
           IF run = "wait" /\ run' = "returned"
             THEN result'.why = reason[1]
             ELSE reason' # << >> /\ reason'[1] = reason[1])
  <2> SUFFICES ASSUME TypeOK, LifeInv, [Next]_vars, reason # << >>
               PROVE  IF run = "wait" /\ run' = "returned"
                        THEN result'.why = reason[1]
                        ELSE reason' # << >> /\ reason'[1] = reason[1]
    OBVIOUS
  <2>0. reason \in Seq(Reasons)
    BY DEF TypeOK, CallTypeOK
  <2>1. reason \in Seq(Reasons) /\ Len(reason) \in Nat /\ Len(reason) >= 1
    BY <2>0, EmptySeq
  <2>2. CASE Return
    <3>1. result'.why = Head(reason) /\ run = "wait" /\ run' = "returned"
      BY <2>2 DEF Return, Finish
    <3>2. Head(reason) = reason[1]
      BY <2>1, HeadTailProperties
    <3>3. QED
      BY <3>1, <3>2
  <2>3. ASSUME NEW r \in Reasons, Send(r) PROVE reason' # << >> /\ reason'[1] = reason[1]
    BY <2>1, <2>3, AppendProperties DEF Send
  <2>4. QED
    BY <2>2, <2>3, GivesStep DEF GivesOrKeeps, Gives
<1>5. QED
  BY <1>1, <1>2, <1>3, <1>4, BridgeTypeOK, LifeHolds, PTL DEF Spec, FirstReasonWins
===========================================================================
