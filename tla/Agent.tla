------------------------------- MODULE Agent -------------------------------
(***************************************************************************)
(* The telephony agent (internal/telephony/agent.go) and the process that  *)
(* runs it (cmd/phonellm/main.go): every call from the INVITE to the last  *)
(* deferred clean-up, over the registration loop of Registration.  Calls   *)
(* run concurrently, one goroutine each; a step is what that goroutine     *)
(* does up to the next point where it blocks or may fail.  Bridge models   *)
(* the step BridgeReturns in full.  diago's dialogs are external: `line`   *)
(* is the peer's side of a call, `ctxDone` the context of our side.        *)
(***************************************************************************)
EXTENDS Registration

CONSTANTS Inbound,     \* calls that ring in
          Outbound,    \* test calls this host places (OUTBOUND_TEST_CALL)
          Configs      \* the configurations the daemon may be started with

\* What the settings decide: cfg.RingDelay > 0, cfg.RecordDir is set, cfg.EchoTest,
\* cfg.SMTPHost and cfg.SMTPTo are set.
Config == [ringDelay : BOOLEAN, recording : BOOLEAN, echoTest : BOOLEAN, mail : BOOLEAN]

ASSUME AgentAssumption == Inbound \cap Outbound = {} /\ Configs \subseteq Config

Calls == Inbound \union Outbound

VARIABLES
  cfg,       \* the configuration, fixed at start-up
  exited,    \* Agent.Run has returned and with it the process is gone
  at,        \* where each call's goroutine stands
  line,      \* external: the peer's side: "none", "ringing", "up", "down"
  ctxDone,   \* the dialog's context is cancelled
  rec,       \* the recorder and its file: "none", "open", "closed"
  client,    \* the Realtime client: "none", "open", "closed"
  bye,       \* history: Hangup has been called on a test call
  spoke,     \* history: the bridge returned a Result with turns
  told       \* history: what became of the notification

callVars  == <<at, line, ctxDone, rec, client, bye, spoke, told>>
agentVars == <<regVars, cfg, exited, callVars>>

Places == {"none", "ringing", "answer", "invite", "setup", "record", "echo", "dial",
           "bridge", "notify", "mail", "closeClient", "closeRec", "hangup", "returned"}

TypeOK ==
  /\ RegTypeOK
  /\ cfg \in Configs
  /\ exited \in BOOLEAN
  /\ at \in [Calls -> Places]
  /\ line \in [Calls -> {"none", "ringing", "up", "down"}]
  /\ ctxDone \in [Calls -> BOOLEAN]
  /\ rec \in [Calls -> {"none", "open", "closed"}]
  /\ client \in [Calls -> {"none", "open", "closed"}]
  /\ bye \in [Calls -> BOOLEAN]
  /\ spoke \in [Calls -> BOOLEAN]
  /\ told \in [Calls -> {"no", "delivered", "late", "cut"}]

Init ==
  /\ RegInit
  /\ cfg \in Configs
  /\ exited = FALSE
  /\ at = [c \in Calls |-> "none"]
  /\ line = [c \in Calls |-> "none"]
  /\ ctxDone = [c \in Calls |-> FALSE]
  /\ rec = [c \in Calls |-> "none"]
  /\ client = [c \in Calls |-> "none"]
  /\ bye = [c \in Calls |-> FALSE]
  /\ spoke = [c \in Calls |-> FALSE]
  /\ told = [c \in Calls |-> "no"]

---------------------------------------------------------------------------
(* Getting to an answered call *)

\* Call c moves from place p to place q.
Go(c, p, q) ==
  /\ ~exited /\ at[c] = p
  /\ at' = [at EXCEPT ![c] = q]
  /\ UNCHANGED <<regVars, cfg, exited>>

\* handleCall, serveCall: an INVITE comes in, Trying and Ringing go out.  Serve
\* runs beside registerLoop, so the box may ring before it has answered REGISTER.
Incoming(c) ==
  /\ c \in Inbound
  /\ Go(c, "none", IF cfg.ringDelay THEN "ringing" ELSE "answer")
  /\ line' = [line EXCEPT ![c] = "ringing"]
  /\ UNCHANGED <<ctxDone, rec, client, bye, spoke, told>>

\* serveCall: the ring delay is over, or the caller gave up first.
RingOver(c) ==
  /\ \/ Go(c, "ringing", "answer")
     \/ ctxDone[c] /\ Go(c, "ringing", "returned")
  /\ UNCHANGED <<line, ctxDone, rec, client, bye, spoke, told>>

\* serveCall: AnswerOptions picks up, or fails: the caller is gone, no codec
\* in common, no RTP port left.
Answer(c) ==
  /\ \/ /\ Go(c, "answer", "setup")
        /\ line[c] = "ringing" /\ line' = [line EXCEPT ![c] = "up"]
     \/ Go(c, "answer", "returned") /\ UNCHANGED line
  /\ UNCHANGED <<ctxDone, rec, client, bye, spoke, told>>

\* main's goroutine waits for Ready, or for the signal, before it dials.
TestCall(c) ==
  /\ c \in Outbound
  /\ \/ Ready /\ Go(c, "none", "invite")
     \/ stopped /\ Go(c, "none", "returned")
  /\ UNCHANGED <<line, ctxDone, rec, client, bye, spoke, told>>

\* PlaceTestCall: the INVITE is answered, or fails.
Invite(c) ==
  /\ \/ Go(c, "invite", "setup") /\ line' = [line EXCEPT ![c] = "up"]
     \/ Go(c, "invite", "returned") /\ UNCHANGED line
  /\ UNCHANGED <<ctxDone, rec, client, bye, spoke, told>>

---------------------------------------------------------------------------
(* runAnsweredCall *)

\* A bug that forgets that nobody but us ends a dialog we began.
AfterwardsDone(c) == "returned"

\* Where a call goes when runAnsweredCall has returned: PlaceTestCall hangs
\* up, an inbound handler is done.
Afterwards(c) == IF c \in Outbound THEN "hangup" ELSE "returned"

\* The audio reader and writer and the codec, each of which may be refused.
SetUp(c) ==
  /\ Go(c, "setup", "record") \/ Go(c, "setup", Afterwards(c))
  /\ UNCHANGED <<line, ctxDone, rec, client, bye, spoke, told>>

\* A recording that cannot be started does not cost the call.
Record(c) ==
  /\ Go(c, "record", IF cfg.echoTest THEN "echo" ELSE "dial")
  /\ \/ rec' = rec
     \/ cfg.recording /\ rec' = [rec EXCEPT ![c] = "open"]
  /\ UNCHANGED <<line, ctxDone, client, bye, spoke, told>>

\* A bug that keeps echoing when the caller's audio has ended.
EchoRetries(c) ==
  /\ ~ctxDone[c] /\ Go(c, "echo", "closeRec")
  /\ UNCHANGED <<line, ctxDone, rec, client, bye, spoke, told>>

\* echo: the caller hears himself until his audio ends.
EchoEnds(c) ==
  /\ Go(c, "echo", "closeRec")
  /\ UNCHANGED <<line, ctxDone, rec, client, bye, spoke, told>>

DialOk(c) ==
  /\ Go(c, "dial", "bridge")
  /\ client' = [client EXCEPT ![c] = "open"]
  /\ UNCHANGED <<line, ctxDone, rec, bye, spoke, told>>

\* Dial fails, closing what it opened, or the session reverted to another
\* audio format, or the caller hangs up meanwhile.
DialFails(c) ==
  /\ Go(c, "dial", "closeRec")
  /\ UNCHANGED <<line, ctxDone, rec, client, bye, spoke, told>>

\* Run returns, for any of its reasons; a call with turns is reported.
BridgeReturns(c, turns) ==
  /\ Go(c, "bridge", IF turns THEN "notify" ELSE "closeClient")
  /\ spoke' = [spoke EXCEPT ![c] = turns]
  /\ UNCHANGED <<line, ctxDone, rec, client, bye, told>>

\* A bug that gives the notifier the dialog's own context.
CutByHangUp(c) == ctxDone[c]

\* The notifier's context is detached from the dialog's (WithoutCancel).
Cut(c) == FALSE

\* The mail server neither answers nor fails: smtp.SendMail has no deadline, and
\* the notifier's context does not reach it.
MailHangs(c) ==
  /\ cfg.mail /\ Go(c, "notify", "mail")
  /\ UNCHANGED <<line, ctxDone, rec, client, bye, spoke, told>>

\* The notifier returns: done, out of time after two minutes, or given back by
\* a mail server that has come to life.
Notified(c) ==
  /\ \E p \in {"notify", "mail"} : Go(c, p, "closeClient")
  /\ \E t \in IF Cut(c) THEN {"cut"} ELSE {"delivered", "late"} :
       told' = [told EXCEPT ![c] = t]
  /\ UNCHANGED <<line, ctxDone, rec, client, bye, spoke>>

\* The deferred calls, last to first.
CloseClient(c) ==
  /\ Go(c, "closeClient", "closeRec")
  /\ client' = [client EXCEPT ![c] = "closed"]
  /\ UNCHANGED <<line, ctxDone, rec, bye, spoke, told>>

CloseRec(c) ==
  /\ Go(c, "closeRec", Afterwards(c))
  /\ rec' = [rec EXCEPT ![c] = IF @ = "open" THEN "closed" ELSE @]
  /\ UNCHANGED <<line, ctxDone, client, bye, spoke, told>>

\* Our side ends the dialog of call c: its context is cancelled, and the peer's
\* line goes down unless the BYE is lost, which is only logged.
Ends(c) ==
  /\ ctxDone' = [ctxDone EXCEPT ![c] = TRUE]
  /\ line' \in {line, [line EXCEPT ![c] = "down"]}

\* PlaceTestCall's deferred Hangup (on a context of its own, for 5 s) and Close.
HangUpOut(c) ==
  /\ Go(c, "hangup", "returned")
  /\ bye' = [bye EXCEPT ![c] = TRUE]
  /\ Ends(c)
  /\ UNCHANGED <<rec, client, spoke, told>>

---------------------------------------------------------------------------
(* The world: peers, diago, the process *)

PeerHangsUp(c) ==
  /\ line[c] \in {"ringing", "up"}
  /\ line' = [line EXCEPT ![c] = "down"]
  /\ ctxDone' = [ctxDone EXCEPT ![c] = TRUE]
  /\ UNCHANGED <<regVars, cfg, exited, at, rec, client, bye, spoke, told>>

\* diago ends the dialog of an inbound handler that has returned.
Released(c) ==
  /\ ~exited /\ c \in Inbound /\ at[c] = "returned" /\ line[c] # "down"
  /\ Ends(c)
  /\ UNCHANGED <<regVars, cfg, exited, at, rec, client, bye, spoke, told>>

\* Whether a dialog's context descends from the daemon's is diago's business.
ShutdownReaches(c) ==
  /\ ~exited /\ stopped /\ line[c] = "up" /\ ~ctxDone[c]
  /\ ctxDone' = [ctxDone EXCEPT ![c] = TRUE]
  /\ UNCHANGED <<regVars, cfg, exited, at, line, rec, client, bye, spoke, told>>

\* Agent.Run returns on the signal, or because serving failed; main returns.
Exit ==
  /\ ~exited
  /\ exited' = TRUE
  /\ UNCHANGED <<regVars, cfg, callVars>>

Registering == ~exited /\ RegNext /\ UNCHANGED <<cfg, exited, callVars>>

Gone == exited /\ UNCHANGED agentVars

CallStep(c) ==
  \/ Incoming(c) \/ RingOver(c) \/ Answer(c) \/ TestCall(c) \/ Invite(c)
  \/ SetUp(c) \/ Record(c) \/ EchoEnds(c) \/ DialOk(c) \/ DialFails(c)
  \/ \E turns \in BOOLEAN : BridgeReturns(c, turns)
  \/ MailHangs(c) \/ Notified(c) \/ CloseClient(c) \/ CloseRec(c) \/ HangUpOut(c)

World(c) == PeerHangsUp(c) \/ Released(c) \/ ShutdownReaches(c)

Next == \/ \E c \in Calls : CallStep(c) \/ World(c)
        \/ Registering \/ Exit \/ Gone

Spec == Init /\ [][Next]_agentVars

(***************************************************************************)
(* Fairness: a goroutine that can step does, once it has begun.  The ring  *)
(* delay runs out, a SIP transaction times out (as does the last Hangup),  *)
(* the notifier's HTTP requests have deadlines.  Nothing brings back a     *)
(* mail server that hangs.  A dead dialog ends the echo (its reader        *)
(* fails), the dialing (its context) and the bridge (HangupEnds of         *)
(* Bridge); a live one need not.  diago ends a dialog whose handler is     *)
(* done.                                                                   *)
(***************************************************************************)
CallFairness(c) ==
  /\ WF_agentVars(RingOver(c) \/ Answer(c) \/ Invite(c) \/ SetUp(c) \/ Record(c))
  /\ WF_agentVars(at[c] # "mail" /\ Notified(c))
  /\ WF_agentVars(CloseClient(c) \/ CloseRec(c) \/ HangUpOut(c))
  /\ WF_agentVars(ctxDone[c] /\ (EchoEnds(c) \/ DialFails(c)))
  /\ WF_agentVars(ctxDone[c] /\ \E turns \in BOOLEAN : BridgeReturns(c, turns))
  /\ WF_agentVars(~ctxDone[c] /\ Released(c))

FairSpec == Spec /\ \A c \in Calls : CallFairness(c)

---------------------------------------------------------------------------
\* Whichever step of a call fails, when its goroutine is done the recording
\* and the session are closed, and a test call that was answered has been hung
\* up: that the BYE arrives nobody can promise, that Hangup was called and our
\* side of the dialog closed the two deferred calls can (agent.go:209-222,
\* 273-277, 301; client.go:71-74).
NothingLeftOpen ==
  \A c \in Calls : at[c] = "returned" =>
    /\ rec[c] # "open" /\ client[c] # "open"
    /\ c \in Outbound /\ line[c] # "none" => bye[c] /\ ctxDone[c]

\* A conversation reaches the notifier however the call ended, in particular
\* by the caller hanging up, which cancels every other context of the call
\* (agent.go:320-325); a call without one is not reported.
ConversationReported ==
  \A c \in Calls : /\ at[c] = "returned" /\ spoke[c] => told[c] \in {"delivered", "late"}
                   /\ told[c] # "no" => spoke[c]

\* A call is over: its peer is gone, its conversation is, or a step has failed.
Over(c) == ctxDone[c] \/ (line[c] # "none" /\ at[c] \in {"notify", "closeRec", "hangup", "returned"})

\* A call that is over ends on both counts: its goroutine returns, wherever the
\* hang-up found it, and our side of the dialog is closed, also to a peer who
\* stays on the line; unless the process ends first, or the notifier hangs in
\* SendMail, the one place that neither the hang-up nor a deadline reaches
\* (agent.go:171-175, 214-222, 287, 316-326; notify.go:174).
CallsWindDown ==
  \A c \in Calls : Over(c) ~> (at[c] = "returned" /\ ctxDone[c]) \/ at[c] = "mail" \/ exited

---------------------------------------------------------------------------
(* What a comment says of the program and the code does not do. *)

\* "so the BYE still goes out even if we are here because the parent context
\* was cancelled" (agent.go:214-215): nothing waits for the deferred Hangup.
ByeOnShutdown == exited /\ stopped => \A c \in Outbound : line[c] = "up" => bye[c]
===========================================================================
