# phonellm, verified

phonellm registers with a Fritz!Box as a SIP telephone, answers calls, and
bridges their audio to an OpenAI Realtime session; when a call is over its
transcript goes to a notifier. The modules in this directory model the parts of
it in which goroutines, guards and failures meet, the `MC*.cfg` files check them
with TLC on small instances, and the `*Proofs` modules prove the main safety
properties for every value of the constants. Paths below are relative to the
repository's root.

## 1. Inventory

| Component | Source | State | Operations | Where it is hard |
|---|---|---|---|---|
| pacing buffer | `internal/bridge/ringbuffer.go` | pending bytes, cap, dropped counter | Write, Take, Reset, Len, Dropped | bursts at the cap, order, accounting of losses |
| call bridge | `internal/bridge/bridge.go` | transcript, last-heard time, `speaking`, `responseActive`, counters, reason channel | Run and three goroutines: caller pump, RTP clock, event handler; the call timer | goroutines racing to end the call, barge-in against the RTP clock and against late audio, a Read that no context cancels |
| Realtime client | `internal/realtime/client.go` | websocket, write mutex, event channel of 64 | Dial/configure, readLoop, AppendAudio, CreateResponse, CancelResponse, Close | two writers on one connection, a reader blocked on a full channel, a session that ends by itself |
| registration | `internal/telephony/agent.go` | backoff, the Ready channel | registerLoop, Ready | outages and retries; announcing only once |
| calls | `internal/telephony/agent.go` | per call: dialog, recorder, client, deferred clean-ups | handleCall, serveCall, PlaceTestCall, runAnsweredCall, echo, startRecording | failure of every step, hang-up at any time, two calls and the end of the process |
| process | `cmd/phonellm/main.go` | signal context, test-call goroutine | run | start-up order; shutdown in mid-call |
| notifier | `internal/notify/notify.go` | files in the transcript directory | Handle: save, summarize, telegram, email | one best-effort step failing or hanging; names that collide; a slow server; the process told to stop |
| configuration | `internal/config/` | environment | Load, LoadDotEnv | precedence of shell, file and flag; a file applied in part |
| preflight, registrar check | `internal/realtime/preflight.go`, `internal/telephony/registrar.go` | none | one HTTP request, one DNS lookup | telling a bad key from a bad network; a name that moves after it was checked |
| RTP statistics | `logRTPStats` in `internal/telephony/agent.go` | none | packets expected, missing, the warning | 16-bit sequence numbers |
| wire events | `internal/realtime/events.go` | none | JSON encoding | none |

Interaction: diago (SIP and RTP, external) calls `handleCall` on a goroutine of
its own per inbound call; `main` starts one for the outbound test call when
`Ready` is closed. `runAnsweredCall` dials a `realtime.Client`, whose read loop
feeds the event channel, and runs a `bridge.Bridge` between that client and the
RTP reader and writer. The bridge's RTP clock and event handler share the pacing
buffer; its pump and event handler share the websocket. All of a call's contexts
descend from the dialog's except the notifier's and the final hang-up's, which
are detached.

What makes each part correct is stated in section 4, property by property.

## 2. Modules

| Module | Models |
|---|---|
| `RingBuffer` | the buffer's methods as operators on the pending bytes; no state |
| `AudioBuffer` | the buffer as a component: any interleaving of Write, Take and Reset |
| `LossyFifo` | abstract specification: a stream of positions of which an increasing subsequence is heard |
| `RealtimeClient` | a configured client: connection, mutex, read loop, channel (actions only) |
| `Bridge` | `Bridge.Run` on one call, over `RealtimeClient` and `RingBuffer`, with events of any kind at any time |
| `CallLifecycle` | abstract specification: a call that is greeted or given up, accumulates words, has one first cause to end and one result |
| `EventStream` | abstract specification: one queue between server and handler that nothing is lost from while it is whole |
| `RealtimeSession` | `realtimeFormat`, `Dial` and `configure`: from the codec to a session that has granted it |
| `LiveCall` | `RealtimeSession`, then `Bridge`, against an external Realtime server with commands and events on the wire |
| `Registration` | `registerLoop` and `Ready` |
| `Daemon` | the process: `run` with `LoadDotEnv`, `Load`, `ResolveRegistrar`, `Preflight` and `NewAgent`, then `Agent.Run` over `Registration` |
| `Agent` | all calls of the daemon, over `Registration`, with the end of the process |
| `Notifier` | `Handle` for the calls that have ended, with the disk and three services |
| `RtpStats` | the arithmetic of `logRTPStats` |
| `MC…` | the constants TLC needs |
| `RingBufferTheorems`, `AudioBufferProofs`, `BridgeProofs`, `LiveCallProofs`, `RegistrationProofs`, `AgentProofs`, `DaemonProofs`, `NotifierProofs` | proofs |

How state corresponds to code:

* `Bridge`: `up`, `down`, `ev` are the program counters of the three goroutines,
  each position a point before a channel operation, an atomic, a mutex or a
  blocking call; `run` is `Run` itself. `ctxDone` is Run's derived context,
  `dialDone` the dialog's. `reason` is the channel of capacity 3, with `Send`
  the non-blocking send. `quiet` counts the seconds since `lastHeard`, and
  `idleTick` is the one-element channel of the idle ticker. `obs` is a history
  record the code does not have; it is read by properties only.
* A goroutine *leaves* in two steps, because its reason is sent before its
  deferred `cancel` and `wg.Done` run; most of the races at the end of a call
  come from that gap.
* `speech_started` is three steps (`EvStarted`, `EvFlush`, `EvLock`/`EvWrite`):
  the counters and `speaking`, the flush with the CompareAndSwap, the cancel.
  The RTP clock is three too (`PaceTick`, `PaceLoad`, `PaceWrite…`).
* Two steps are merged only where the state between them cannot be observed by
  another goroutine: the decision of CompareAndSwap follows the flush, because
  only the event goroutine touches `responseActive`; `touch` goes with the step
  before it, because only that goroutine reads `lastHeard`.
* `RealtimeClient`: `events` is closed exactly when `loop = "done"`. A write
  under a cancelled context may fail with or without closing the connection,
  as the websocket library does.
* `Agent`: `at[c]` is where the goroutine of call `c` stands; a deferred call is
  a place it passes on its way out (`closeClient`, `closeRec`, `hangup`), so that
  a path which forgot one is visible. `line[c]` is the peer's side of the call,
  `ctxDone[c]` ours: a BYE that fails or is lost (`Ends`) closes ours only. `bye`
  is history: `Hangup` has been called. The bridge is one step here,
  `BridgeReturns`. The notifier is another, `Notified`, unless it gets to
  `SendMail` and hangs there (place `mail`). `Serve` runs beside the registration
  loop, so an INVITE may come in before `Ready`; only the test call waits for it.
* `LiveCall`: the client's side is `Bridge` unchanged; `Commanded` puts on the
  wire what a step has written, and `Arrives` feeds the read loop from it. The
  server handles commands in order, one response at a time, answers an
  utterance by itself, and transcribes whenever it likes. `spoken` and `overlap`
  are history. `Flight` is what the channel, the read loop's hands and the wire
  hold, one behind the other: the queue of `EventStream`.
* `Daemon`: `phase` is where `run` stands, `why` the error it returned with. A
  setting is one of a few values, of which `EnvBool` reads the switches and the
  rest only tell what is set; `Applied` is the environment after the file.
  `addrs` is what DNS answers now, `checked` what it answered to
  `ResolveRegistrar`, `sent` where REGISTER requests have gone.
* `Notifier`: `at[c]` is the step of call `c`'s handler, `elapsed[c]` the time
  since its context was made, in units of which the HTTP timeout and the limit
  are multiples; `files` is the transcript directory.

## 3. Runs and bounds

| Run | Question |
|---|---|
| `MCAudioBuffer` | is the buffer right on its own, and does it implement `LossyFifo`? |
| `MCLiveCall` | a greeting, a barge-in and an answer against the server: right codec, exclusive writes, cancels, and do both sides agree in the end? does it implement `EventStream`? |
| `MCBridgeEnd` | every way a call ends, against every other and against queued transcripts; does it implement `CallLifecycle`? |
| `MCBridgeLive` | does the call end, after a hang-up always, after any other end with a phone that keeps sending? |
| `MCAgent` | an inbound and an outbound call, in model and echo mode, every step failing, mail that hangs, a BYE that is lost, a shutdown; does a call that is over, by its peer or by itself, end on both sides? |
| `MCDaemon` | start-up against every answer of DNS and API, outages, a signal at any point |
| `MCNotifier` | the notifications of two calls, with every service failing or hanging |
| `MCBridgeLimit`, `MCBridgeTalker`, `MCLiveCallTurns`, `MCAgentShutdown`, `MCDaemonOptIn` | counterexamples, see the end of section 4 |

Bounds, and why they suffice:

* *Audio.* The bridge tells apart an empty, a short, a full and an overflowing
  buffer. The buffer alone is run with frames of 2 bytes, bursts of up to 4,
  nine bytes in all, and caps of 0 (shorter than a frame), 1 and 3. In the
  bridge's runs frames, deltas and the cap are 1, so that a second delta already
  overflows; the proofs hold for every size.
* *The event channel* holds 64 in the code and 1 in the runs: what matters is
  that it can be full when the handler leaves, and hold an event beside the one
  in the read loop's hands when the session ends. The proofs hold for every
  capacity.
* *Events* per behaviour (`MaxEvents`) and which kinds (`EventKinds`) differ per
  run, because each kind multiplies the states. `MCLiveCall` has all the kinds
  its server sends and six events: created, delta, started, the cancelled
  response's done, stopped and created again make a barge-in with its answer.
  `MCBridgeEnd` has one event of any kind, which is what an end can find in the
  channel of capacity 1 or in the handler's hands, with all the mishaps around
  it; `MCBridgeLive` has the two kinds that make a cancel block. In the last two
  the server is free: any kind at any time, which is more than the real one
  does. That longer transcripts are kept, and that the lifecycle holds beyond
  one word, is what `BridgeTranscriptKept` and `BridgeImplementsLifecycle` prove.
* *Codecs.* A-law and G.722 in `MCLiveCall`; µ-law differs in two constants, and
  `LiveRightCodec` is for every payload type.
* *Mishaps* says what may go wrong while the call is up; `MCBridgeEnd` has all
  of them, `MCLiveCall` none, as its questions are about the wire. The queue of
  `EventStream` therefore does not break in that run; that it breaks as the
  abstract specification says is `LiveImplementsStream`, for every mishap.
* *Silence timeout* is one tick, in `MCBridgeEnd`. The state only tells whether
  the caller has been quiet for longer, so `quiet` stops counting one beyond the
  timeout. Without a silence guard (0) a tick changes nothing and is left out.
* *Counters.* `starved` stops at `MaxStarved`. In `Registration`, `MaxLost`
  bounds the outages, and the limit on the backoff is six seconds in `MCDaemon`
  (1, 2, 4, 6: the capped step is there), 60 in the code and any number in the
  proofs. Beside the calls, in `MCAgent`, it is 2 s and the box never goes away
  again once it answers: an outage changes nothing for a call, `Ready` stays
  closed.
* *Start-up.* Eight ways to start: variables alone, `-echo` without a key and
  with one over a file that turns the echo off, a placeholder in the file over a good key, a file that corrects itself and
  opts in to a public registrar, a prompt that cannot be read, a test call
  without a number, a bad line after a good one. The registrar's name has every
  set of address zones and moves once after the check.
* *Notifications.* Two calls of one withheld number within two seconds: the same
  file name, or two. `HttpTimeout` 1, `Limit` 4 and `DiskTime` 1 are 30 s, two
  minutes and a disk that is slow for up to 30 s.
* *Configurations.* Ring delay, the model and mail, or no ring delay and the echo;
  both record, and a recording may fail to start.
* *Calls.* One in, one out: they share nothing but the daemon.

Deadlock is checked in every run: `Finished`, `LiveFinished`, `Gone` and `Rest`
are the only places a behaviour may rest.

### Fairness

Goroutines that can step do (WF). A Go `select` among ready channels picks at
random and a Go mutex does not starve a waiter, so leaving through `ctx.Done` and
taking the lock have SF. Timers fire. A write whose context is cancelled
returns. Nothing makes a packet arrive, a write to a live connection complete, a
caller hang up or an event come. Two assumptions are about code outside the
repository: diago closes the media of a dialog that has ended, and ends the
dialog of a handler that has returned. `EndsTogether` assumes
`PacketsArrive`, that the phone keeps sending, which G.711 without silence
suppression does; it fails without (see the first divergence below). In `Agent`, a dead dialog ends the
echo, the dialing and the bridge: the last is what `HangupEnds` shows of
`Bridge`. A live one need not, so a caller who stays on the line keeps a call
dialing or echoing for as long as he likes. The notifier returns from all but
`SendMail`: its HTTP requests have deadlines, and `HandlerReturns` shows it of
`Notifier`. Nothing is assumed of a mail server that hangs: `Agent` has no
fairness at the place `mail`, and `CallsWindDown` names it as
where it does not hold. In `Daemon`, each
step of start-up ends (DNS by the resolver's time-outs, the preflight by its
deadline), the registration goroutine runs, and `Run` sees its context; nothing
makes a signal come or the box answer. In `Notifier`, a handler that can go on
does.

## 4. What the checks and proofs show

| Property | Says | TLC | Proved |
|---|---|---|---|
| `NewestInOrder` | pending audio is the newest, in order, no gap | yes | yes |
| `BoundedLatency` | never more than the cap behind | by `FifoSpec` | yes |
| `NothingVanishes` | heard + dropped + flushed + pending = written | yes | yes |
| `LossOnlyWhenFull` | a loss leaves the buffer exactly full | yes | yes |
| `FifoSpec` | the buffer implements `LossyFifo` | yes | yes |
| `RightCodec` | audio flows only into a session that speaks the negotiated codec both ways, padded with its silence | yes | yes |
| `WriteExclusive` | two goroutines never inside a websocket write | yes | yes |
| `CancelGate` | at most one cancel per response, none without one | yes | yes |
| `QuietWithinOneFrame` | after a flush, at most the frame in flight, until new audio is buffered | yes | yes |
| `FewMiscounts` | false starvation counts at most one per utterance | yes | yes |
| `ResponseMirrored` | once everything has arrived, bridge and server agree on whether a response is active | yes | yes |
| `SpeakingMirrored` | and the bridge thinks the model speaks only inside one | yes | yes |
| `NamedEnd` | a call ends unnamed only by hang-up or limit | yes | yes |
| `ReasonsAreTrue` | a reason names something that happened | yes | yes |
| `SessionBlamed` | "model session closed" is a fault of the session, a hang-up or the limit | yes | yes |
| `ResultIsFinal` | the Result has every turn, and no goroutine survives Run | yes | yes |
| `TranscriptKept` | the transcript is a prefix of what was said, all of it when the session ended by itself | yes | yes |
| `LifecycleSpec` | the bridge implements `CallLifecycle` | yes | yes |
| `StreamSpec` | the call implements `EventStream`: between server and handler no event is lost, doubled, reordered or recorded twice while dialog and session last, and what is in the channel is handled even afterwards | yes | yes |
| `OnlyReadWaits` | in a call that is ending nobody waits in a circle: a goroutine is gone, can go on, waits for the mutex of one that can, or is the pump inside Read | | yes |
| `PumpWindsDown` | under a cancelled context the pump is at most five of its steps from its end | | yes |
| `AllGone`, `StaysGone` | once Run has returned nobody is in a write, and nothing changes the call or its Result any more | | yes |
| `RoomForReasons`, `FirstReasonWins` | no reason is dropped for want of room, and the first given is the one reported | | yes |
| `HangupEnds`, `EndsTogether`, `NoLeak` | the call and its goroutines end | yes | out of reach |
| `NothingLeftOpen` | a finished call has closed its recording and session, and a test call that was answered has come to `Hangup` and to the end of our side of its dialog, whether or not the BYE gets through | yes | yes |
| `ConversationReported` | every conversation reaches the notifier, and nothing else does | yes | yes |
| `NeverBack` | no step takes a call back to an earlier place, reopens what was closed, revives a dialog or notifies twice | | yes |
| `InOrder` | answered before anything is opened, a bridge only on an open session and a live recorder, the recorder closed after the session, a test call hung up after both; in echo mode nothing is dialled or reported | | yes |
| `CallsWindDown` | a call that is over, because its peer hung up, its conversation ended or a step failed, ends on both counts: its goroutine returns and our side of the dialog is closed, unless it hangs in `SendMail` | yes | out of reach |
| `ReadyOnce`, `BackoffLaw` | one announcement; 1, 2, 4 … up to the limit, from 1 again after a success | yes | yes |
| `OnlySignalEnds`, `HoldsOn` | nothing but the signal ends the registration loop, and a registration holds while the box answers | | yes |
| `RegistersOnLan` | unless the operator opted in, a REGISTER leaves the LAN only if the name moved after the check, or had both kinds of address | yes | yes |
| `KeyVerdict` | no registration with a rejected key, no refusal without a rejection | yes | yes |
| `SilentAfterSignal` | a daemon told to stop while it starts never registers | yes | yes |
| `SignalEnds`, `Recovers` | a signal ends the process; the box is registered with again when it is back | yes | out of reach |
| `BestEffort` | a message reaches exactly the configured channels that work | yes | yes |
| `SavedBeforeTold` | the transcript is on disk before anything slow begins, and stays but for a call of the same caller and second | yes | yes |
| `LimitNeverBites` | no request is cut short by the two minutes | yes | yes |
| `Archive` | a file changes only in the second and by a caller in its name | | yes |
| `OneAttempt` | the steps of a notification are taken once, in order, and each channel is tried by its own | | yes |
| `HandlerReturns` | the handler returns unless the mail server hangs | yes | out of reach |

Each module's type invariant is checked and proved as well. The rows without a
TLC run hold for every value of the constants by their proofs, which assume no
more than the others'. `RtpStats` has no states and no run: the theorems about it
in `AgentProofs` say that below one wrap of the sequence numbers
the report is exact (`ShortCallsAreExact`), that every further 2^16 packets are
left out of it (`LongCallsAreShort`; 22 minutes at 50 packets a second), that a
late packet in last place hides as many losses as it is late by
(`LateLastPacketHidesLoss`), and that a call which received everything it was
sent never raises the warning (`NoFalseAlarm`).

### The proofs

They assume what the modules name: `BufferAssumption`, `ClientAssumption`,
`BridgeAssumption`, `OfferedAssumption`, `ServerAssumption`,
`RegistrationAssumption`, `AgentAssumption`, `DaemonAssumption`,
`NotifierAssumption`, `LimitAssumption`: positive sizes, Boolean switches,
disjoint sets, and that two requests and the disk fit the notification's limit.
TLC evaluates them on every run. `RingBufferTheorems` has the lemmas about the
buffer's operators (lengths, elements, that a write keeps a suffix and a take a
prefix).

* `AudioBufferProofs`: the inductive invariant is the conjunction of the three
  invariants with the types; a write keeps a suffix of `buf \o p`, whose
  elements `NewestInOrder` determines. The refinement uses it to show that the
  frame taken is the one `LossyFifo` describes.
* `BridgeTypeOK` is the ground of the rest of `BridgeProofs`, each theorem with
  a strengthening of its own. `WriteExclusive` follows from *who is in the write
  holds the mutex*. `CancelGate` is inductive with the type.
  `QuietWithinOneFrame` needs that an unfed buffer is empty and that the written
  tail and the frame in hand together are at most one. `FewMiscounts` needs that
  an utterance must have risen since the frame in hand was taken. `NamedEnd`
  needs that a cancelled context which nobody outside cancelled leaves either a
  goroutine on its way out with a reason sent or a reason in the channel.
  `ReasonsAreTrue` holds of every entry of the channel, because what each names
  never becomes false again. `SessionBlamed` needs that, once connection or read
  loop is gone, there is a reason in the channel already or the cause lies
  outside (`BlameInv`), and that `Send` never changes the first.
  `ResultIsFinal` needs that the event handler, once done, appends nothing.
* The end of a call. That it ends is liveness and model-checked; what that rests
  on is proved. `BridgeOnlyReadWaits` needs that the mutex is held by whoever is
  in a write and by nobody else (`MutexInv`, both ways), and that the three
  goroutines are started together (`LifeInv`). `BridgePumpWindsDown` counts the
  pump's steps down. `BridgeStaysGone` needs that Run leaves a cancelled
  context and a timer that cannot fire (`OverInv`). `BridgeFirstReason` needs
  that a goroutine gives at most one reason, and leaves (`RoomInv`).
* `BridgeTranscriptKept`: the queue, from the event in the handler's hands to
  the one in the read loop's, still holds what was said and not yet recorded.
  The invariant `KeptInv` says so with a witness: an increasing function from
  the words outstanding to places in the queue, onto the places that hold text.
  Taking an event shifts it, and pushing one leaves or extends it.
* `BridgeImplementsLifecycle`: the phase is `run`, the cause is the head of the
  reason channel, which `Send` never replaces. That a call which is over has the
  first reason rests on `ResultIsFinal` and the types.
* `LiveCallProofs`: every step of a live call is a step of `Bridge` or leaves it
  alone (`LiveImplementsBridge`), so that what was proved of `Bridge` holds of
  it (`LiveCallIsSafe`, `LiveCallEndsWell`). For the two mirrors, `Flight` is all the events between server and
  handler, in order. `MirrorInv`: the last event in flight that begins or ends a
  response agrees with the server; with none in flight, `responseActive` implies
  an active response, and an active response is claimed by `responseActive` or
  by a cancel being sent or on its way. `VoiceInv`: if the last of the deltas
  and ends in flight is a delta, the response is still open. A step either leaves the queue alone, takes
  its head or sends to its end, and each of the three has one lemma.
* `LiveImplementsStream`: moving an event from the wire into the read loop's
  hands, and from there into the channel, is a stutter of the queue; that the
  loop ends is its breaking, which keeps the channel, a prefix of it. A loop
  ends only when dialog or session have (`Over`, which lasts), and an event is
  handled in one step with the words and the barge-in it stands for.
* `RegistrationProofs`: `BackoffLaw` needs that the backoff is one second while
  fresh and twice the last wait, capped, otherwise. `DaemonImplementsRegistration`
  and `AgentImplementsRegistration` carry what is proved of the loop over to the
  process and to the agent beside its calls (`DaemonRegistration`,
  `AgentRegistration`). The other theorems of `DaemonProofs`
  need, for each phase, what has been checked by then: the zone accepted, the
  key not rejected unless a signal came first, and after an early signal a loop
  that has not gone past its top.
* `AgentNothingLeftOpen` and `AgentConversationReported` need, for each place of
  a call, what is open there and what has been told, and that a test call
  which was answered is either on its way or has been through `HangUpOut`.
  `AgentInOrder` adds where the line is; `AgentNeverBack` ranks the places
  and shows with the same invariant that every step of a call goes up. That a
  call ends after at most twelve steps of its goroutine once nothing blocks it
  is what `CallsWindDown` adds fairness to.
* `NotifierProofs`: the time spent at each place is at most the disk's and one
  request's for each already made, which `LimitAssumption` keeps below the
  limit; `BestEffort` and `SavedBeforeTold` follow place by place, the latter
  with *a file holds a call that was saved under its name*. `Archive` and
  `OneAttempt` are action properties and need the types only.

Liveness (`HangupEnds`, `EndsTogether`, `NoLeak`, `CallsWindDown`, `SignalEnds`,
`Recovers`, `HandlerReturns`) is model-checked only: the prover has no ENABLED.

### Where documentation and code part

Five runs expect a counterexample; each finds what the code does where a
comment, a test or `README.md` says something else.

| Run | Said | Done |
|---|---|---|
| `MCBridgeLimit` | `PHONELLM_MAX_CALL_TIME` is a hard ceiling (`README.md:201`) | Run waits for a Read; a phone that sends nothing keeps the call |
| `MCBridgeTalker` | ends the call when the caller has said nothing (`bridge.go:45`) | cuts a caller whose utterance is longer than the timeout |
| `MCLiveCallTurns` | turns are the utterances "in order" (`bridge.go:50`) | they are in order of arrival: an answer may be recorded before the late transcription of what it answers |
| `MCAgentShutdown` | the BYE goes out although the parent was cancelled (`agent.go:214`) | nothing waits for the deferred Hangup; the process is gone first |
| `MCDaemonOptIn` | `PHONELLM_ALLOW_PUBLIC_REGISTRAR=true` permits an external SIP provider (`registrar.go:44`, `README.md:47`, `config.go:26`, `registrar_test.go:36`, `.env.example:13`) | `Load` (`config.go:81`) never reads it, and a public registrar is refused all the same |

More are visible in the modules without a run of their own:

* A frame padded between utterances is counted as starved when a delta is
  handled between Take and Load (`PaceTick`, `PaceLoad`), although
  `quality_test.go:11` says that such padding "must not be counted":
  `FewMiscounts` bounds how often.
* Deltas of the cancelled response that arrive after a barge-in's flush are
  buffered and played (`EvBuffer`), although `README.md:173` says that the
  assistant goes quiet within one frame, and `bridge.go:273` the same:
  `QuietWithinOneFrame` holds until the first of them.
* The notifier runs before anything hangs up, in the worst case for ever
  (`MailHangs`), although `agent.go:321` says "do not let a slow notifier hold
  the SIP dialog open": `CallsWindDown` has the place `mail` as its exception.
* `README.md:138` says of echo mode "needs no API key (or pass `-echo`)". The
  flag is applied at `main.go:57`, after `Load` has refused the missing key
  (`config.go:151`): with `-echo` alone the daemon does not start (`Load` in
  `Daemon`).
* A hang-up may be reported as "model session closed" (`bridge.go:242`), because
  the dialog's context ends the read loop too; `SessionBlamed` allows for it.

## 5. Not modelled, and why

* JSON, base64, SIP and SDP, WAV encoding, logging, the wording of messages: no
  property is about them.
* `framesSent`, durations and `reportQuality`: only printed.
* What two recorders write into one WAV of the same second
  (`agent.go:385`): it depends on diago's tee.
* Defaults, and the parsing of numbers, durations and quoted values: sequential
  code with table tests. The settings that decide something at start-up are in
  `Daemon`.
* Sound itself: a byte of speech is a value, except in `AudioBuffer`, where it
  is its position in the stream.
* The Realtime server beyond what `LiveCall` says of it: no rate limits, no
  tool calls, no second conversation.
* A limit on `Dial` and on the write of `session.update`: the code has none, so
  `RealtimeSession` and `Agent` let them take any time.
* The deployment files have no logic.

## 6. Order of the development

`RingBuffer`, `AudioBuffer`, `LossyFifo` and their proofs; `RealtimeClient` and
`Bridge`, its runs and proofs; `Registration`; `Agent`; then `CallLifecycle` and
the refinement, `RealtimeSession` and `LiveCall`, `Notifier`, `Daemon`,
`RtpStats`, each with its proofs; then `EventStream` and the theorems about the
end of a call, the course of a call and the registration loop below agent and daemon. To extend it, in order of value: a daemon with
the calls of `Agent` whose bridge and notifier are refined by `Bridge` and
`Notifier`; recordings once diago's tee is specified; a server that fails a
response for its own reasons in `MCLiveCall` with mishaps on.
