-------------------------- MODULE RealtimeSession --------------------------
(***************************************************************************)
(* How an answered call gets its Realtime session: the codec the phone and *)
(* the Fritz!Box agreed on picks the audio format (realtimeFormat,         *)
(* internal/telephony/agent.go), realtime.Dial connects, asks for that     *)
(* format in both directions (configure, internal/realtime/client.go) and  *)
(* waits up to 15 s for the server to echo it.  The server is external: it *)
(* may grant the format, fall back to PCM in either direction, refuse,     *)
(* send other events first, or stay silent.                                *)
(***************************************************************************)
EXTENDS Naturals

CONSTANT Offered   \* the RTP payload types the phone's side may pick

ASSUME OfferedAssumption == Offered \subseteq 0..127

VARIABLES
  setup,     \* "media", "dial", "send", "await", "up" or "failed"
  codec,     \* the payload type negotiated
  session    \* external: the formats the server's session really uses

setupVars == <<setup, codec, session>>

PCMU == 0
PCMA == 8

\* realtimeFormat, for the two codecs the passthrough design allows.
RealtimeFormat(pt) == IF pt = PCMA THEN "audio/pcma" ELSE "audio/pcmu"

\* The silence Bridge pads with.
SilenceByte(pt) == IF pt = PCMA THEN 213 ELSE 255

\* G.711's code for silence in each format the server could be using.
SilenceIn(format) == CASE format = "audio/pcma" -> 213 [] format = "audio/pcmu" -> 255 [] OTHER -> 0

Formats(pt) == {RealtimeFormat(pt), "audio/pcm"}

SetupInit ==
  /\ setup = "media"
  /\ codec \in Offered
  /\ session = [in |-> "audio/pcm", out |-> "audio/pcm"]

Goes(p, q) == setup = p /\ setup' = q /\ codec' = codec

\* runAnsweredCall: a codec that is not G.711 ends the call here.
Negotiated ==
  /\ IF codec \in {PCMU, PCMA} THEN Goes("media", "dial") ELSE Goes("media", "failed")
  /\ session' = session

\* websocket.Dial succeeds, then the write of session.update does.
Connected == Goes("dial", "send") /\ session' = session
Updated   == Goes("send", "await") /\ session' = session

\* Neither of the two is bounded by the deadline; either may fail, as may the
\* read that waits for the echo: an error event, a message that is not JSON,
\* the 15 s, the end of the dialog or of the connection.
ConfigureFails ==
  /\ \E p \in {"dial", "send", "await"} : Goes(p, "failed")
  /\ session' = session

\* A bug that looks at one direction only.
HonouredIn(formats) == formats.in = RealtimeFormat(codec)

\* The assertion on session.updated.
Honoured(formats) == formats.in = RealtimeFormat(codec) /\ formats.out = RealtimeFormat(codec)

\* session.updated arrives.  Other events are skipped, and change nothing.
Echoed ==
  \E i, o \in Formats(codec) :
    /\ session' = [in |-> i, out |-> o]
    /\ Goes("await", IF Honoured(session') THEN "up" ELSE "failed")

SetupStep == Negotiated \/ Connected \/ Updated \/ ConfigureFails \/ Echoed
===========================================================================
