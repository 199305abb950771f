------------------------------- MODULE Bridge -------------------------------
(***************************************************************************)
(* Bridge.Run of internal/bridge/bridge.go on one answered call, over the  *)
(* Realtime client of RealtimeClient and the pacing buffer of RingBuffer.  *)
(*                                                                         *)
(* Run greets, starts three goroutines and waits for all of them: the      *)
(* caller pump (up), the RTP clock (down) and the event handler (ev).  An  *)
(* action is what a goroutine does between two points where another one    *)
(* can be observed: a channel operation, an atomic, a mutex, a blocking    *)
(* call.  A goroutine leaves in two steps, because it sends its reason     *)
(* before the deferred cancel and wg.Done run.                             *)
(***************************************************************************)
EXTENDS RingBuffer, RealtimeClient

CONSTANTS FrameSize,       \* Options.FrameSize: bytes per RTP packet
          BufferCap,       \* capacity New computes for the pacing buffer
          DeltaSize,       \* bytes of a response.output_audio.delta
          MaxCall,         \* Options.MaxCall > 0: there is a call limit
          SilenceTimeout,  \* Options.SilenceTimeout in seconds, 0 for none
          MaxStarved,      \* bound: starved frames are counted up to here
          Mishaps          \* bound: what may go wrong while the call is up

Kinds == {"created", "delta", "badDelta", "audioDone", "respDone", "started",
          "stopped", "inText", "inBlank", "outText", "other"}

ASSUME BridgeAssumption ==
  /\ FrameSize \in Nat \ {0}
  /\ BufferCap \in Nat
  /\ DeltaSize \in Nat
  /\ MaxCall \in BOOLEAN
  /\ SilenceTimeout \in Nat
  /\ MaxStarved \in Nat
  /\ Mishaps \subseteq {"hangup", "media", "session", "read"}
  /\ EventKinds \subseteq Kinds

Audio == "audio"     \* any byte of the model's speech

VARIABLES
  mediaOpen,   \* external: the RTP session of the call is up
  ctxDone,     \* Run's own context is cancelled
  timer,       \* the MaxCall timer: "off", "armed", "fired", "stopped"
  run,         \* Run: "greet", "wait", "returned"
  reason,      \* the reason channel, capacity 3
  result,      \* the Result Run returns
  up, upErr,   \* caller pump: position, error that came with the last read
  down, frame, \* RTP clock: position, frame in its hands
  ev,          \* event handler: position
  buf, dropped,    \* the pacing buffer and its counter
  speaking, responseActive,
  starved, bargeIns, selfBargeIns,
  turns,
  quiet,       \* idle ticks since lastHeard was last touched
  idleTick,    \* a tick is waiting in the idle ticker's channel
  obs          \* history, see below

(***************************************************************************)
(* The history variable: what the properties need to know of the past.     *)
(*   created, cancels   responses seen, cancels attempted                  *)
(*   tail               audio frames written since the last barge-in, up   *)
(*                      to 2; fed: audio was buffered since                *)
(*   rises, miscounts   utterances begun, frames counted as starved that   *)
(*                      were taken while the model was not speaking        *)
(*   talking            the last VAD event was speech_started              *)
(***************************************************************************)
upVars    == <<up, upErr>>
downVars  == <<down, frame>>
callVars  == <<mediaOpen, ctxDone, timer, run, reason, result>>
evVars    == <<ev, responseActive, turns, bargeIns, selfBargeIns, quiet, idleTick>>
shared    == <<buf, dropped, speaking>>
vars == <<clientVars, callVars, upVars, downVars, evVars, shared, starved, obs>>

Reasons == {"caller hung up", "model connection lost", "media write failed",
            "caller silent", "model session closed"}
Turns == Seq({"caller", "assistant"})

CallTypeOK ==
  /\ timer \in {"off", "armed", "fired", "stopped"}
  /\ run \in {"greet", "wait", "returned"}
  /\ reason \in Seq(Reasons) /\ Len(reason) <= 3
  /\ result \in [turns : Turns, why : Reasons \union {"running", "greeting failed", "call ended"}]

PumpTypeOK ==
  /\ up \in {"idle", "top", "read", "lock", "write", "leave", "done"}
  /\ down \in {"idle", "select", "load", "write", "leave", "done"}
  /\ frame \in [n : 0..FrameSize, wasSpeaking : BOOLEAN]

EvTypeOK ==
  /\ ev \in {"idle", "select", "buffer", "flush", "lock", "write", "leave", "done"}
  /\ turns \in Turns
  /\ bargeIns \in Nat /\ selfBargeIns \in Nat
  /\ quiet \in 0..SilenceTimeout + 1

AudioTypeOK ==
  /\ buf \in Seq({Audio}) /\ Len(buf) <= BufferCap
  /\ dropped \in Nat
  /\ starved \in 0..MaxStarved

FlagsTypeOK ==
  /\ dialDone \in BOOLEAN /\ fault \in BOOLEAN
  /\ mediaOpen \in BOOLEAN /\ ctxDone \in BOOLEAN
  /\ upErr \in BOOLEAN /\ idleTick \in BOOLEAN
  /\ speaking \in BOOLEAN /\ responseActive \in BOOLEAN

ObsTypeOK ==
  obs \in [created : Nat, cancels : Nat, tail : 0..2, fed : BOOLEAN,
           rises : Nat, miscounts : Nat, talking : BOOLEAN]

TypeOK ==
  /\ ClientTypeOK /\ CallTypeOK /\ PumpTypeOK /\ EvTypeOK /\ AudioTypeOK
  /\ FlagsTypeOK /\ ObsTypeOK

\* The options are validated and Dial has succeeded; Run is about to greet.
Init ==
  /\ ClientInit
  /\ mediaOpen = TRUE /\ ctxDone = FALSE
  /\ timer = IF MaxCall THEN "armed" ELSE "off"
  /\ run = "greet" /\ reason = << >> /\ result = [turns |-> << >>, why |-> "running"]
  /\ up = "idle" /\ upErr = FALSE
  /\ down = "idle" /\ frame = [n |-> 0, wasSpeaking |-> FALSE]
  /\ ev = "idle" /\ responseActive = FALSE /\ turns = << >>
  /\ bargeIns = 0 /\ selfBargeIns = 0 /\ starved = 0
  /\ quiet = 0 /\ idleTick = FALSE
  /\ buf = << >> /\ dropped = 0 /\ speaking = FALSE
  /\ obs = [created |-> 0, cancels |-> 0, tail |-> 0, fed |-> TRUE,
            rises |-> 0, miscounts |-> 0, talking |-> FALSE]

Lesser(a, b) == IF a < b THEN a ELSE b

\* result: the turns so far and the reason.
Finish(why) == result' = [turns |-> turns, why |-> why]

\* touch: the caller was heard just now.
Touch == quiet' = 0

\* addTurn, of a text that is not blank.
AddTurn(speaker) == turns' = Append(turns, speaker)

\* A bug that makes room for a later reason.
SendLatest(r) == reason' = <<r>>

\* send: a reason is dropped rather than waited for when the channel is full.
Send(r) == reason' = IF Len(reason) < 3 THEN Append(reason, r) ELSE reason

---------------------------------------------------------------------------
(* Run *)

\* CreateResponse succeeds and the three goroutines start.
GreetOk ==
  /\ run = "greet" /\ conn = "open"
  /\ run' = "wait"
  /\ up' = "top" /\ down' = "select" /\ ev' = "select"
  /\ UNCHANGED <<clientVars, mediaOpen, ctxDone, timer, reason, result, upErr, frame,
                 responseActive, turns, bargeIns, selfBargeIns, quiet, idleTick, shared,
                 starved, obs>>

\* CreateResponse fails: Run returns without having started anything.
GreetFails ==
  /\ run = "greet" /\ (conn = "closed" \/ ctxDone)
  /\ conn' \in IF ctxDone THEN {conn, "closed"} ELSE {conn}
  /\ run' = "returned"
  /\ Finish("greeting failed")
  /\ ctxDone' = TRUE
  /\ timer' = IF timer = "armed" THEN "stopped" ELSE timer
  /\ UNCHANGED <<writeMu, loop, held, events, dialDone, nread, said, fault, mediaOpen, reason,
                 upVars, downVars, evVars, shared, starved, obs>>

\* The MaxCall timer: AfterFunc runs cancel on a goroutine of its own.
TimerFires ==
  /\ timer = "armed"
  /\ timer' = "fired"
  /\ ctxDone' = TRUE
  /\ UNCHANGED <<clientVars, mediaOpen, run, reason, result, upVars, downVars, evVars,
                 shared, starved, obs>>

\* A bug that returns as soon as both audio pumps are done.
ReturnEarly ==
  /\ run = "wait" /\ {up, down} = {"done"}
  /\ run' = "returned"
  /\ Finish(IF reason = << >> THEN "call ended" ELSE Head(reason))
  /\ reason' = IF reason = << >> THEN reason ELSE Tail(reason)
  /\ timer' = IF timer = "armed" THEN "stopped" ELSE timer
  /\ UNCHANGED <<clientVars, mediaOpen, ctxDone, upVars, downVars, evVars, shared, starved, obs>>

\* wg.Wait, then the first reason sent, if any, goes into the Result.
Return ==
  /\ run = "wait" /\ {up, down, ev} = {"done"}
  /\ run' = "returned"
  /\ Finish(IF reason = << >> THEN "call ended" ELSE Head(reason))
  /\ reason' = IF reason = << >> THEN reason ELSE Tail(reason)
  /\ timer' = IF timer = "armed" THEN "stopped" ELSE timer
  /\ UNCHANGED <<clientVars, mediaOpen, ctxDone, upVars, downVars, evVars, shared, starved, obs>>

---------------------------------------------------------------------------
(* pumpCallerToModel *)

\* A bug that never looks at the context between reads.
UpCheckNot ==
  /\ up = "top"
  /\ up' = "read"
  /\ UNCHANGED <<clientVars, callVars, upErr, downVars, evVars, shared, starved, obs>>

\* The top of the loop: a cancelled context ends the pump.
UpCheck ==
  /\ up = "top"
  /\ up' = IF ctxDone THEN "leave" ELSE "read"
  /\ UNCHANGED <<clientVars, callVars, upErr, downVars, evVars, shared, starved, obs>>

\* Reader.Read returns with a packet (some), and an error or none (err).
UpRead(some, err) ==
  /\ up = "read" /\ (mediaOpen \/ err)
  /\ err => ~mediaOpen \/ "read" \in Mishaps
  /\ up' = IF some THEN "lock" ELSE IF err THEN "leave" ELSE "top"
  /\ upErr' = (some /\ err)
  /\ IF err /\ ~some THEN Send("caller hung up") ELSE reason' = reason
  /\ UNCHANGED <<clientVars, mediaOpen, ctxDone, timer, run, result, downVars, evVars,
                 shared, starved, obs>>

UpLock ==
  /\ up = "lock" /\ Lock("up")
  /\ up' = "write"
  /\ UNCHANGED <<callVars, upErr, downVars, evVars, shared, starved, obs>>

\* AppendAudio succeeds; then the error of the read is looked at.
UpWriteOk ==
  /\ up = "write" /\ WriteOk("up")
  /\ IF upErr THEN up' = "leave" /\ Send("caller hung up")
              ELSE up' = "top" /\ reason' = reason
  /\ UNCHANGED <<mediaOpen, ctxDone, timer, run, result, upErr, downVars, evVars, shared,
                 starved, obs>>

\* A bug that reports a lost connection although the call is just ending.
UpWriteFailsBlames ==
  /\ up = "write" /\ WriteFails("up", ctxDone)
  /\ up' = "leave"
  /\ Send("model connection lost")
  /\ UNCHANGED <<mediaOpen, ctxDone, timer, run, result, upErr, downVars, evVars, shared,
                 starved, obs>>

\* AppendAudio fails: the loss is reported unless the call is ending anyway.
UpWriteFails ==
  /\ up = "write" /\ WriteFails("up", ctxDone)
  /\ up' = "leave"
  /\ IF ctxDone THEN reason' = reason ELSE Send("model connection lost")
  /\ UNCHANGED <<mediaOpen, ctxDone, timer, run, result, upErr, downVars, evVars, shared,
                 starved, obs>>

\* The deferred cancel and wg.Done.
UpLeave ==
  /\ up = "leave"
  /\ up' = "done"
  /\ ctxDone' = TRUE
  /\ UNCHANGED <<clientVars, mediaOpen, timer, run, reason, result, upErr, downVars, evVars,
                 shared, starved, obs>>

---------------------------------------------------------------------------
(* pumpModelToCaller *)

\* select sees the cancelled context (it may as well see the ticker).
PaceStop ==
  /\ down = "select" /\ ctxDone
  /\ down' = "leave"
  /\ UNCHANGED <<clientVars, callVars, upVars, frame, evVars, shared, starved, obs>>

\* The RTP clock ticks: one frame is taken, padded if need be.
PaceTick ==
  /\ down = "select"
  /\ down' = "load"
  /\ frame' = [n |-> TakeCount(buf, FrameSize), wasSpeaking |-> speaking]
  /\ buf' = TakeRest(buf, FrameSize)
  /\ UNCHANGED <<clientVars, callVars, upVars, evVars, dropped, speaking, starved, obs>>

\* A bug that counts every padded frame.
PaceLoadAlways ==
  /\ down = "load"
  /\ down' = "write"
  /\ LET short == frame.n < FrameSize
     IN  /\ starved' = IF short THEN Lesser(starved + 1, MaxStarved) ELSE starved
         /\ obs' = [obs EXCEPT !.miscounts = @ + IF short /\ ~frame.wasSpeaking THEN 1 ELSE 0]
  /\ UNCHANGED <<clientVars, callVars, upVars, frame, evVars, shared>>

\* A short frame is starvation if the model is speaking now.
PaceLoad ==
  /\ down = "load"
  /\ down' = "write"
  /\ LET short == frame.n < FrameSize /\ speaking
     IN  /\ starved' = IF short THEN Lesser(starved + 1, MaxStarved) ELSE starved
         /\ obs' = [obs EXCEPT !.miscounts = @ + IF short /\ ~frame.wasSpeaking THEN 1 ELSE 0]
  /\ UNCHANGED <<clientVars, callVars, upVars, frame, evVars, shared>>

PaceWriteOk ==
  /\ down = "write" /\ mediaOpen
  /\ down' = "select"
  /\ frame' = [n |-> 0, wasSpeaking |-> FALSE]
  /\ obs' = [obs EXCEPT !.tail = IF frame.n > 0 THEN Lesser(@ + 1, 2) ELSE @]
  /\ UNCHANGED <<clientVars, callVars, upVars, evVars, shared, starved>>

\* A bug that stops pacing without saying why.
PaceWriteFailsMutely ==
  /\ down = "write" /\ ~mediaOpen
  /\ down' = "leave"
  /\ UNCHANGED <<clientVars, callVars, upVars, frame, evVars, shared, starved, obs>>

\* The RTP write fails: reported unless the call is ending anyway.
PaceWriteFails ==
  /\ down = "write" /\ ~mediaOpen
  /\ down' = "leave"
  /\ IF ctxDone THEN reason' = reason ELSE Send("media write failed")
  /\ UNCHANGED <<clientVars, mediaOpen, ctxDone, timer, run, result, upVars, frame, evVars,
                 shared, starved, obs>>

PaceLeave ==
  /\ down = "leave"
  /\ down' = "done"
  /\ ctxDone' = TRUE
  /\ UNCHANGED <<clientVars, mediaOpen, timer, run, reason, result, upVars, frame, evVars,
                 shared, starved, obs>>

---------------------------------------------------------------------------
(* handleEvents and onEvent *)

EvStop ==
  /\ ev = "select" /\ ctxDone
  /\ ev' = "leave"
  /\ UNCHANGED <<clientVars, callVars, upVars, downVars, responseActive, turns, bargeIns,
                 selfBargeIns, quiet, idleTick, shared, starved, obs>>

\* The idle tick: a caller quiet for too long ends the call.
EvTick ==
  /\ ev = "select" /\ idleTick
  /\ idleTick' = FALSE
  /\ IF SilenceTimeout > 0 /\ quiet > SilenceTimeout
     THEN ev' = "leave" /\ Send("caller silent")
     ELSE ev' = ev /\ reason' = reason
  /\ UNCHANGED <<clientVars, mediaOpen, ctxDone, timer, run, result, upVars, downVars,
                 responseActive, turns, bargeIns, selfBargeIns, quiet, shared, starved, obs>>

\* A bug that leaves as soon as the read loop has ended.
EvClosedUndrained ==
  /\ ev = "select" /\ loop = "done"
  /\ ev' = "leave"
  /\ Send("model session closed")
  /\ UNCHANGED <<clientVars, mediaOpen, ctxDone, timer, run, result, upVars, downVars,
                 responseActive, turns, bargeIns, selfBargeIns, quiet, idleTick, shared,
                 starved, obs>>

\* The channel is drained and closed.
EvClosed ==
  /\ ev = "select" /\ events = << >> /\ loop = "done"
  /\ ev' = "leave"
  /\ Send("model session closed")
  /\ UNCHANGED <<clientVars, mediaOpen, ctxDone, timer, run, result, upVars, downVars,
                 responseActive, turns, bargeIns, selfBargeIns, quiet, idleTick, shared,
                 starved, obs>>

\* The next event of kind k comes off the channel.
Receive(k) ==
  /\ ev = "select" /\ events # << >> /\ Head(events) = k
  /\ events' = Tail(events)
  /\ UNCHANGED <<conn, writeMu, loop, held, dialDone, nread, said, fault>>
  /\ UNCHANGED <<callVars, upVars, downVars, buf, dropped, starved, idleTick>>

EvCreated ==
  /\ Receive("created")
  /\ responseActive' = TRUE
  /\ obs' = [obs EXCEPT !.created = @ + 1]
  /\ UNCHANGED <<ev, speaking, turns, bargeIns, selfBargeIns, quiet>>

\* An audio delta: first the model speaks, then the bytes are buffered.
EvDelta ==
  /\ Receive("delta")
  /\ ev' = "buffer"
  /\ speaking' = TRUE
  /\ obs' = [obs EXCEPT !.rises = @ + IF speaking THEN 0 ELSE 1]
  /\ UNCHANGED <<responseActive, turns, bargeIns, selfBargeIns, quiet>>

EvBuffer ==
  /\ ev = "buffer"
  /\ ev' = "select"
  /\ LET audio == [i \in 1..DeltaSize |-> Audio]
     IN  /\ buf' = WriteBuf(buf, audio, BufferCap)
         /\ dropped' = dropped + DroppedBy(buf, audio, BufferCap)
  /\ obs' = [obs EXCEPT !.fed = TRUE]
  /\ UNCHANGED <<clientVars, callVars, upVars, downVars, responseActive, turns, bargeIns,
                 selfBargeIns, quiet, idleTick, speaking, starved>>

EvAudioDone ==
  /\ Receive("audioDone")
  /\ speaking' = FALSE
  /\ UNCHANGED <<ev, responseActive, turns, bargeIns, selfBargeIns, quiet, obs>>

\* A bug that leaves responseActive to the cancel.
EvRespDoneStaysActive ==
  /\ Receive("respDone")
  /\ speaking' = FALSE
  /\ UNCHANGED <<ev, responseActive, turns, bargeIns, selfBargeIns, quiet, obs>>

\* A bug that leaves speaking to the end of the audio.
EvRespDoneKeepsSpeaking ==
  /\ Receive("respDone")
  /\ responseActive' = FALSE
  /\ UNCHANGED <<ev, speaking, turns, bargeIns, selfBargeIns, quiet, obs>>

EvRespDone ==
  /\ Receive("respDone")
  /\ speaking' = FALSE
  /\ responseActive' = FALSE
  /\ UNCHANGED <<ev, turns, bargeIns, selfBargeIns, quiet, obs>>

\* Barge-in: count it, stop speaking, then (EvFlush) silence the assistant.
EvStarted ==
  /\ Receive("started")
  /\ ev' = "flush"
  /\ bargeIns' = bargeIns + 1
  /\ selfBargeIns' = selfBargeIns + IF speaking \/ Len(buf) > 0 THEN 1 ELSE 0
  /\ speaking' = FALSE
  /\ obs' = [obs EXCEPT !.talking = TRUE]
  /\ UNCHANGED <<responseActive, turns, quiet>>

\* A bug that cancels without consulting or clearing responseActive.
CancelAlways == ev' = "lock" /\ UNCHANGED <<responseActive, quiet>>

\* CompareAndSwap(true, false): the winner cancels, else only touch remains.
CancelOnce ==
  IF responseActive THEN ev' = "lock" /\ responseActive' = FALSE /\ quiet' = quiet
                    ELSE ev' = "select" /\ responseActive' = FALSE /\ Touch

\* out.Reset, then the decision to cancel.
EvFlush ==
  /\ ev = "flush"
  /\ buf' = ResetBuf(buf)
  /\ CancelOnce
  /\ obs' = [obs EXCEPT !.tail = 0, !.fed = FALSE]
  /\ UNCHANGED <<clientVars, callVars, upVars, downVars, turns, bargeIns, selfBargeIns,
                 idleTick, dropped, speaking, starved>>

EvLock ==
  /\ ev = "lock" /\ Lock("ev")
  /\ ev' = "write"
  /\ UNCHANGED <<callVars, upVars, downVars, responseActive, turns, bargeIns, selfBargeIns,
                 quiet, idleTick, shared, starved, obs>>

\* CancelResponse returns, its error only logged, and the handler touches.
EvWrite ==
  /\ ev = "write"
  /\ \/ WriteOk("ev") /\ obs' = [obs EXCEPT !.cancels = @ + 1]
     \/ WriteFails("ev", ctxDone) /\ obs' = obs
  /\ ev' = "select"
  /\ Touch
  /\ UNCHANGED <<callVars, upVars, downVars, responseActive, turns, bargeIns, selfBargeIns,
                 idleTick, shared, starved>>

EvStopped ==
  /\ Receive("stopped")
  /\ Touch
  /\ obs' = [obs EXCEPT !.talking = FALSE]
  /\ UNCHANGED <<ev, responseActive, speaking, turns, bargeIns, selfBargeIns>>

\* The caller's words count as a sign of life, and as a turn unless blank.
EvInText ==
  /\ \E k \in {"inText", "inBlank"} :
       /\ Receive(k)
       /\ IF k = "inText" THEN AddTurn("caller") ELSE turns' = turns
  /\ Touch
  /\ UNCHANGED <<ev, responseActive, speaking, bargeIns, selfBargeIns, obs>>

EvOutText ==
  /\ Receive("outText")
  /\ AddTurn("assistant")
  /\ UNCHANGED <<ev, responseActive, speaking, bargeIns, selfBargeIns, quiet, obs>>

\* Errors, a late cancel's among them, undecodable deltas, blank transcripts of
\* the assistant and everything the switch does not name are at most logged.
EvIgnored ==
  /\ \E k \in {"badDelta", "other"} : Receive(k)
  /\ UNCHANGED <<ev, responseActive, speaking, turns, bargeIns, selfBargeIns, quiet, obs>>

EvLeave ==
  /\ ev = "leave"
  /\ ev' = "done"
  /\ ctxDone' = TRUE
  /\ UNCHANGED <<clientVars, mediaOpen, timer, run, reason, result, upVars, downVars,
                 responseActive, turns, bargeIns, selfBargeIns, quiet, idleTick, shared,
                 starved, obs>>

---------------------------------------------------------------------------
(* The environment *)

bridgeVars == <<run, reason, result, timer, upVars, downVars, evVars, shared, starved, obs>>

\* The dialog's context is cancelled, and with it Run's.
HangUp ==
  /\ DialogCancelled /\ (run = "returned" \/ "hangup" \in Mishaps)
  /\ ctxDone' = TRUE
  /\ UNCHANGED <<mediaOpen, bridgeVars>>

\* The RTP session is torn down: reads and writes fail from now on.
MediaCloses ==
  /\ mediaOpen /\ (dialDone \/ "media" \in Mishaps)
  /\ mediaOpen' = FALSE
  /\ UNCHANGED <<clientVars, ctxDone, bridgeVars>>

\* The idle ticker fires; its channel holds one tick.  Without a silence guard
\* (SilenceTimeout 0) a tick changes nothing, and is left out.
Second ==
  /\ SilenceTimeout > 0
  /\ ev \notin {"idle", "leave", "done"}
  /\ ~idleTick \/ quiet <= SilenceTimeout
  /\ idleTick' = TRUE
  /\ quiet' = Lesser(quiet + 1, SilenceTimeout + 1)
  /\ UNCHANGED <<clientVars, callVars, upVars, downVars, ev, responseActive, turns,
                 bargeIns, selfBargeIns, shared, starved, obs>>

\* runAnsweredCall's deferred client.Close, once Run has returned.
Close ==
  /\ run = "returned" /\ ClientClose
  /\ UNCHANGED <<mediaOpen, ctxDone, bridgeVars>>

\* The call is over and every goroutine gone.
Finished ==
  /\ run = "returned" /\ loop = "done" /\ conn = "closed" /\ dialDone /\ ~mediaOpen
  /\ UNCHANGED vars

ReadEvent(k) == LoopRead(k) /\ UNCHANGED <<mediaOpen, ctxDone, bridgeVars>>

LoopStep == (LoopFails \/ LoopPush \/ LoopQuits) /\ UNCHANGED <<mediaOpen, ctxDone, bridgeVars>>

SessionFault == "session" \in Mishaps /\ (LoopGarbled \/ ConnDrops) /\ UNCHANGED <<mediaOpen, ctxDone, bridgeVars>>

UpStep == \/ UpCheck
          \/ \E some, err \in BOOLEAN : UpRead(some, err)
          \/ UpLock \/ UpWriteOk \/ UpWriteFails \/ UpLeave

DownStep == PaceStop \/ PaceTick \/ PaceLoad \/ PaceWriteOk \/ PaceWriteFails \/ PaceLeave

EvEvent == EvCreated \/ EvDelta \/ EvAudioDone \/ EvRespDone \/ EvStarted \/ EvStopped
           \/ EvInText \/ EvOutText \/ EvIgnored

EvStep == \/ EvStop \/ EvTick \/ EvClosed
          \/ EvEvent
          \/ EvBuffer \/ EvFlush \/ EvLock \/ EvWrite \/ EvLeave

RunStep == GreetOk \/ GreetFails \/ Return

\* Everything but the arrival of events, which LiveCall takes from a server.
Internal == RunStep \/ UpStep \/ DownStep \/ EvStep \/ LoopStep

Environment == TimerFires \/ SessionFault \/ HangUp \/ MediaCloses \/ Second \/ Close

Next == \/ Internal
        \/ \E k \in EventKinds : ReadEvent(k)
        \/ Environment
        \/ Finished

Spec == Init /\ [][Next]_vars

(***************************************************************************)
(* Fairness.  A goroutine that can step does (WF).  A select among several *)
(* ready channels picks at random, so ctx.Done is picked in the end, and a *)
(* Go mutex does not starve a waiter: these are SF.  A write whose context *)
(* is cancelled returns.  A timer fires.  Nothing makes a packet arrive, a *)
(* write to a live connection complete, or the caller hang up.  Outside    *)
(* the repository: the SIP stack closes the media of a dialog that ended,  *)
(* and ends the dialog of a handler that returned (runAnsweredCall then    *)
(* closes the client).                                                     *)
(***************************************************************************)
UpFairness ==
  /\ WF_vars(UpCheck \/ UpWriteFails \/ UpLeave)
  /\ SF_vars(UpLock)
  /\ WF_vars(~mediaOpen /\ UpRead(FALSE, TRUE))

DownFairness ==
  /\ WF_vars(PaceTick \/ PaceLoad \/ PaceWriteOk \/ PaceWriteFails \/ PaceLeave)
  /\ SF_vars(PaceStop)

EvFairness ==
  /\ WF_vars(EvTick \/ EvClosed \/ EvEvent \/ EvBuffer \/ EvFlush \/ EvLeave)
  /\ WF_vars((conn = "closed" \/ ctxDone) /\ EvWrite)
  /\ SF_vars(EvStop) /\ SF_vars(EvLock)

EnvironmentFairness ==
  /\ WF_vars(TimerFires)
  /\ WF_vars(LoopStep)
  /\ WF_vars(dialDone /\ MediaCloses)
  /\ WF_vars(run = "returned" /\ HangUp)
  /\ WF_vars(Close)

FairSpec == /\ Spec
            /\ WF_vars(ctxDone /\ GreetFails) /\ WF_vars(Return)
            /\ UpFairness /\ DownFairness /\ EvFairness /\ EnvironmentFairness

\* The caller's phone keeps sending packets, as G.711 without silence
\* suppression does.
PacketsArrive == WF_vars(\E some \in BOOLEAN : UpRead(some, FALSE))

---------------------------------------------------------------------------
\* The connection is not write-safe: the audio pump and the barge-in cancel
\* are never inside a websocket write together (client.go:174-177).
WriteExclusive == ~(up = "write" /\ ev = "write")

\* A cancel is only sent for a response that was created, and at most once
\* for each: cancels never outnumber responses, not counting the response
\* still active nor the cancel on its way (bridge.go:297-305).
CancelGate ==
  obs.cancels + (IF responseActive \/ ev \in {"lock", "write"} THEN 1 ELSE 0) <= obs.created

\* Barge-in: after the flush the caller hears at most the one frame the RTP
\* clock had already taken, until new audio is buffered (bridge.go:273-296).
QuietWithinOneFrame == obs.fed \/ obs.tail <= 1

\* A frame of padding taken between utterances and counted as starvation
\* needs an utterance beginning in that very instant: the false counts never
\* exceed the utterances (bridge.go:201-207 against 262).
FewMiscounts == obs.miscounts <= obs.rises

\* Run never ends a call without saying why unless it was told to: a call
\* that just "ended" was hung up or reached the limit (bridge.go:148-152).
NamedEnd == result.why = "call ended" => dialDone \/ timer = "fired"

\* A reason names something that happened: a lost connection is really gone, a
\* closed session has ended and everything it sent was handled, a failed media
\* write had no media, and only a silence guard that is on reports silence.
TrueReason(r) ==
  /\ r = "model connection lost" => conn = "closed"
  /\ r = "model session closed" => loop = "done" /\ events = << >>
  /\ r = "media write failed" => ~mediaOpen
  /\ r = "caller silent" => SilenceTimeout > 0
ReasonsAreTrue == /\ \A i \in 1..Len(reason) : TrueReason(reason[i])
                  /\ TrueReason(result.why)

\* The Result carries every turn: nothing is appended to the transcript, and
\* no goroutine of the call is alive, once Run has returned (bridge.go:146-155).
ResultIsFinal == run = "returned" => /\ result.turns = turns
                                     /\ {up, down, ev} \in {{"done"}, {"idle"}}

\* The transcript is what was said, in order and without gaps, and when the
\* session ends by itself not a word that arrived before is missing: the
\* events still in the channel are handled first (bridge.go:232-247).
TranscriptKept ==
  /\ Len(turns) <= Len(said) /\ turns = SubSeq(said, 1, Len(turns))
  /\ result.why = "model session closed" /\ ~dialDone => result.turns = said

\* "model session closed" is a fault of the session, or the echo of a hang-up
\* or of the limit: no failure elsewhere in the call, whose cancellation closes
\* the connection under the read loop, is blamed on the model (bridge.go:242).
SessionBlamed ==
  result.why = "model session closed" => fault \/ dialDone \/ timer = "fired"

\* The call as its owner sees it: an accumulating transcript, the first reason
\* to end, one final Result (bridge.go:115-156, 389-402).
FirstReason ==
  IF run = "returned" THEN IF result.why \in Reasons THEN result.why ELSE "none"
  ELSE IF reason = << >> THEN "none" ELSE reason[1]

Phase == IF run = "greet" THEN "greeting" ELSE IF run = "wait" THEN "up" ELSE "over"

Lifecycle == INSTANCE CallLifecycle WITH
  Speakers <- {"caller", "assistant"}, Causes <- Reasons,
  phase <- Phase, words <- turns, cause <- FirstReason, result <- result

LifecycleSpec == Lifecycle!Spec

\* When the dialog ends, Run returns.
HangupEnds == dialDone ~> run = "returned"

\* When one goroutine ends, or a guard fires, the whole call does, provided
\* that packets keep coming: nothing else wakes the caller pump.
EndsTogether == PacketsArrive => (ctxDone ~> run = "returned")

\* The client's read loop does not outlive the call.
NoLeak == run = "returned" ~> loop = "done"

---------------------------------------------------------------------------
(* What the documentation says of the program and the code does not do:     *)
(* each is checked by a run that expects a counterexample.                  *)

\* "PHONELLM_MAX_CALL_TIME is a hard ceiling" (README.md:201): once the timer
\* has fired the call ends.  Run waits for a Read that no context cancels.
LimitIsHard == timer = "fired" ~> run = "returned"

\* "SilenceTimeout ends the call when the caller has said nothing for this
\* long" (bridge.go:45): it never ends it on a caller who is talking.
NotCutWhileTalking == result.why = "caller silent" => ~obs.talking
===========================================================================
