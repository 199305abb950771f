------------------------------ MODULE LiveCall ------------------------------
(***************************************************************************)
(* One answered call against a Realtime server: RealtimeSession until the  *)
(* session is configured, then Bridge, whose events now have a cause.  The *)
(* server is external and modelled as the code relies on it: it handles    *)
(* the client's commands in order, has one response at a time, answers the *)
(* caller's utterances of its own accord (server VAD), and transcribes     *)
(* them beside the conversation, in its own time.  Commands travel in      *)
(* `commands`, events in `wire`; neither reorders.                         *)
(***************************************************************************)
EXTENDS Bridge, RealtimeSession

ASSUME ServerAssumption == Kinds \ {"badDelta", "inBlank"} \subseteq EventKinds

VARIABLES
  commands,   \* response.create and response.cancel on their way
  wire,       \* server events on their way
  response,   \* the server's response: "none", "open", "said" (audio
              \* complete) or "told" (transcribed)
  caller,     \* server VAD: "quiet" or "talking"
  unwritten,  \* utterances of the caller not transcribed yet
  spoken,     \* history: who spoke, in the order of the conversation
  overlap     \* history: somebody spoke over somebody

serverVars == <<response, caller, unwritten, spoken, overlap>>
liveVars == <<vars, setupVars, commands, wire, serverVars>>

LiveInit ==
  /\ Init /\ SetupInit
  /\ commands = << >> /\ wire = << >>
  /\ response = "none" /\ caller = "quiet"
  /\ unwritten = 0 /\ spoken = << >> /\ overlap = FALSE

---------------------------------------------------------------------------
(* The client's side *)

Dial == SetupStep /\ UNCHANGED <<vars, commands, wire, serverVars>>

\* What a step of the bridge has put on the wire: CreateResponse and
\* CancelResponse when they succeed.  The caller's audio is not told apart.
Commanded ==
  commands' = IF run = "greet" /\ run' = "wait" THEN Append(commands, "create")
              ELSE IF obs'.cancels > obs.cancels THEN Append(commands, "cancel")
              ELSE commands

CallStep ==
  /\ setup = "up"
  /\ Internal \/ Environment
  /\ Commanded
  /\ UNCHANGED <<setupVars, wire, serverVars>>

Arrives ==
  /\ setup = "up" /\ wire # << >>
  /\ ReadEvent(Head(wire))
  /\ wire' = Tail(wire)
  /\ UNCHANGED <<setupVars, commands, serverVars>>

---------------------------------------------------------------------------
(* The server *)

Emits(k) == conn = "open" /\ nread + Len(wire) < MaxEvents /\ wire' = Append(wire, k)

\* A response begins, on a command or as the answer to an utterance.
Begins ==
  /\ response' = "open"
  /\ spoken' = Append(spoken, "assistant")
  /\ overlap' = (overlap \/ caller = "talking")

\* response.create: refused with an error when a response is active.
Creates ==
  /\ commands # << >> /\ Head(commands) = "create"
  /\ commands' = Tail(commands)
  /\ IF response = "none" THEN Emits("created") /\ Begins
                          ELSE Emits("other") /\ UNCHANGED <<response, spoken, overlap>>
  /\ UNCHANGED <<caller, unwritten>>

\* response.cancel ends whatever response is active, and is an error if none is.
Cancels ==
  /\ commands # << >> /\ Head(commands) = "cancel"
  /\ commands' = Tail(commands)
  /\ IF response = "none" THEN Emits("other") ELSE Emits("respDone")
  /\ response' = "none"
  /\ UNCHANGED <<caller, unwritten, spoken, overlap>>

Speaks ==
  /\ response = "open" /\ Emits("delta")
  /\ UNCHANGED <<commands, serverVars>>

\* The audio is complete; its transcript follows.
Said ==
  /\ response = "open" /\ response' = "said"
  /\ Emits("audioDone")
  /\ UNCHANGED <<commands, caller, unwritten, spoken, overlap>>

Transcribed ==
  /\ response = "said" /\ response' = "told"
  /\ Emits("outText")
  /\ UNCHANGED <<commands, caller, unwritten, spoken, overlap>>

\* The response is done, at its end or before it (incomplete, failed, or
\* interrupted by the server itself when the caller started to talk).
Ends ==
  /\ response # "none" /\ response' = "none"
  /\ Emits("respDone")
  /\ UNCHANGED <<commands, caller, unwritten, spoken, overlap>>

CallerStarts ==
  /\ caller = "quiet" /\ caller' = "talking"
  /\ Emits("started")
  /\ overlap' = (overlap \/ response # "none")
  /\ UNCHANGED <<commands, response, unwritten, spoken>>

\* The utterance is over and becomes part of the conversation.
CallerStops ==
  /\ caller = "talking" /\ caller' = "quiet"
  /\ Emits("stopped")
  /\ unwritten' = unwritten + 1
  /\ spoken' = Append(spoken, "caller")
  /\ UNCHANGED <<commands, response, overlap>>

\* Server VAD: a response to what the caller said last.
Answers ==
  /\ response = "none" /\ caller = "quiet"
  /\ spoken # << >> /\ spoken[Len(spoken)] = "caller"
  /\ Emits("created") /\ Begins
  /\ UNCHANGED <<commands, caller, unwritten>>

\* Transcription runs beside the conversation.
WritesDown ==
  /\ unwritten > 0 /\ unwritten' = unwritten - 1
  /\ Emits("inText")
  /\ UNCHANGED <<commands, response, caller, spoken, overlap>>

ServerStep ==
  /\ setup = "up"
  /\ \/ Creates \/ Cancels \/ Speaks \/ Said \/ Transcribed \/ Ends
     \/ CallerStarts \/ CallerStops \/ Answers \/ WritesDown
  /\ UNCHANGED <<vars, setupVars>>

LiveFinished == (Finished \/ setup = "failed") /\ UNCHANGED liveVars

LiveNext == Dial \/ CallStep \/ Arrives \/ ServerStep \/ LiveFinished

LiveSpec == LiveInit /\ [][LiveNext]_liveVars

---------------------------------------------------------------------------
LiveTypeOK ==
  /\ TypeOK
  /\ setup \in {"media", "dial", "send", "await", "up", "failed"}
  /\ codec \in Offered
  /\ commands \in Seq({"create", "cancel"})
  /\ wire \in Seq(EventKinds)
  /\ response \in {"none", "open", "said", "told"} /\ caller \in {"quiet", "talking"}
  /\ unwritten \in Nat /\ spoken \in Turns /\ overlap \in BOOLEAN

\* Streaming starts only into a session that really speaks, in both
\* directions, the codec on the wire, and the RTP clock pads with that
\* codec's silence (client.go:80-125, bridge.go:25-30).
RightCodec ==
  up # "idle" => /\ session.in = RealtimeFormat(codec) /\ session.out = RealtimeFormat(codec)
                 /\ SilenceByte(codec) = SilenceIn(session.out)

\* The events between the server and the handler, oldest first.
Flight == events \o (IF loop = "push" THEN <<held>> ELSE << >>) \o wire

\* From the server to the handler events are neither lost, doubled, reordered
\* nor recorded twice, through wire, read loop and channel, full or not, as
\* long as the read loop runs; it stops, and what it had not put into the
\* channel is lost, only when dialog or session have ended, and what is in the
\* channel is handled even then (client.go:135-172, bridge.go:232-247).
Stream == INSTANCE EventStream WITH
  Kinds <- EventKinds, queue <- IF loop = "done" THEN events ELSE Flight,
  whole <- loop # "done", over <- dialDone \/ fault \/ conn = "closed"

StreamSpec == Stream!Spec

\* The call is up, nothing is on its way in either direction and the handler is
\* idle.
Settled ==
  /\ conn = "open" /\ ~ctxDone /\ commands = << >> /\ wire = << >>
  /\ loop = "read" /\ events = << >> /\ ev = "select" /\ run = "wait"

\* However responses, barge-ins, cancels and their late or misdirected
\* answers cross, the bridge and the server agree in the end on whether a
\* response is active: a barge-in then never cancels nothing, and never
\* leaves a response running (bridge.go:253-305).
ResponseMirrored == Settled => (responseActive <=> response # "none")

\* Deltas of a cancelled response that arrive after the flush make the model
\* "speak" again; the mark does not outlive the response, or every later
\* frame of padding would count as starved (bridge.go:262-270, 295).
SpeakingMirrored == Settled /\ speaking => response = "open"

---------------------------------------------------------------------------
\* "Turn is one utterance in the call, in order" (bridge.go:50): the turns
\* recorded are some of those spoken, in the order they were spoken in, at
\* least in a call in which nobody spoke over the other.
TurnsInOrder ==
  overlap \/ \E f \in [DOMAIN turns -> DOMAIN spoken] :
               /\ \A i \in DOMAIN turns : turns[i] = spoken[f[i]]
               /\ \A i, j \in DOMAIN turns : i < j => f[i] < f[j]
===========================================================================
