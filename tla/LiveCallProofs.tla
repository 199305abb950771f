--------------------------- MODULE LiveCallProofs ---------------------------
(***************************************************************************)
(* A call against its server, of any length and over channels and buffers  *)
(* of any size: it is a behaviour of Bridge, so that every theorem of      *)
(* BridgeProofs holds of it, it streams the right codec, and the two sides *)
(* agree on the response, and on whether the model speaks, once all they   *)
(* have sent each other has arrived.                                       *)
(***************************************************************************)
EXTENDS LiveCall, BridgeProofs

---------------------------------------------------------------------------
(* The pipes and the refinement. *)

PipesInv ==
  /\ wire \in Seq(EventKinds)
  /\ commands \in Seq({"create", "cancel"})

LEMMA EmitsType ==
  ASSUME PipesInv, NEW k \in Kinds \ {"badDelta", "inBlank"}, Emits(k)
  PROVE  wire' \in Seq(EventKinds)
BY ServerAssumption, AppendProperties DEF PipesInv, Emits

LEMMA PipesStep == PipesInv /\ [LiveNext]_liveVars => PipesInv'
<1> SUFFICES ASSUME PipesInv, [LiveNext]_liveVars PROVE PipesInv'
  OBVIOUS
<1>0. commands # << >> => Tail(commands) \in Seq({"create", "cancel"})
  BY HeadTailProperties DEF PipesInv
<1>1. CASE CallStep
  <2>1. Append(commands, "create") \in Seq({"create", "cancel"})
        /\ Append(commands, "cancel") \in Seq({"create", "cancel"})
    BY AppendProperties DEF PipesInv
  <2>2. wire' = wire /\ commands' \in {commands, Append(commands, "create"), Append(commands, "cancel")}
    BY <1>1 DEF CallStep, Commanded
  <2>3. QED
    BY <2>1, <2>2 DEF PipesInv
<1>2. CASE Arrives
  BY <1>2, HeadTailProperties DEF Arrives, PipesInv
<1>3. CASE Creates \/ Cancels
  <2>1. commands' = Tail(commands) /\ commands # << >>
    BY <1>3 DEF Creates, Cancels
  <2>2. Emits("created") \/ Emits("other") \/ Emits("respDone")
    BY <1>3 DEF Creates, Cancels
  <2>3. QED
    BY <1>0, <2>1, <2>2, EmitsType DEF Kinds, PipesInv
<1>4. CASE Speaks \/ Said \/ Transcribed \/ Ends \/ CallerStarts \/ CallerStops \/ Answers \/ WritesDown
  <2>1. commands' = commands
    BY <1>4 DEF Speaks, Said, Transcribed, Ends, CallerStarts, CallerStops, Answers, WritesDown
  <2>2. \E k \in Kinds \ {"badDelta", "inBlank"} : Emits(k)
    BY <1>4 DEF Kinds, Speaks, Said, Transcribed, Ends, CallerStarts, CallerStops, Answers, WritesDown
  <2>3. QED
    BY <2>1, <2>2, EmitsType DEF PipesInv
<1>5. CASE Dial \/ UNCHANGED liveVars
  BY <1>5 DEF Dial, liveVars, PipesInv
<1>6. QED
  BY <1>1, <1>2, <1>3, <1>4, <1>5 DEF LiveNext, ServerStep, LiveFinished

LEMMA BridgeStep == PipesInv /\ [LiveNext]_liveVars => [Next]_vars
<1> SUFFICES ASSUME PipesInv, [LiveNext]_liveVars PROVE [Next]_vars
  OBVIOUS
<1>1. CASE CallStep
  BY <1>1 DEF CallStep, Next
<1>2. CASE Arrives
  <2>1. Head(wire) \in EventKinds /\ ReadEvent(Head(wire))
    BY <1>2, HeadTailProperties DEF Arrives, PipesInv
  <2>2. QED
    BY <2>1 DEF Next
<1>3. CASE Dial \/ ServerStep \/ UNCHANGED liveVars
  BY <1>3 DEF Dial, ServerStep, liveVars
<1>4. QED
  BY <1>1, <1>2, <1>3 DEF LiveNext, LiveFinished

LEMMA PipesHold == LiveSpec => []PipesInv
<1>1. LiveInit => PipesInv
  BY DEF LiveInit, PipesInv
<1>2. QED
  BY <1>1, PipesStep, PTL DEF LiveSpec

\* A call against a server is a call of Bridge: nothing the server does shows
\* the bridge events it was not modelled for.
THEOREM LiveImplementsBridge == LiveSpec => Spec
<1>1. LiveInit => Init
  BY DEF LiveInit
<1>2. QED
  BY <1>1, BridgeStep, PipesHold, PTL DEF LiveSpec, Spec

\* What was proved of Bridge holds of it against a server (bridge.go:118-402).
THEOREM LiveCallIsSafe ==
  LiveSpec => [](WriteExclusive /\ CancelGate /\ QuietWithinOneFrame /\ FewMiscounts)
BY LiveImplementsBridge, BridgeWriteExclusive, BridgeCancelGate, BridgeQuietWithinOneFrame,
   BridgeFewMiscounts, PTL

\* And so does what was proved of its end: a call against a server runs through
\* the lifecycle, ends for a reason that is true, loses no words, and is over
\* when Run returns (bridge.go:118-187; client.go:71-74).
THEOREM LiveCallEndsWell ==
  LiveSpec => /\ LifecycleSpec
              /\ [](NamedEnd /\ ReasonsAreTrue /\ ResultIsFinal /\ SessionBlamed)
              /\ [](TranscriptKept /\ OnlyReadWaits /\ AllGone)
              /\ []RoomForReasons /\ FirstReasonWins
              /\ PumpWindsDown /\ StaysGone
BY LiveImplementsBridge, BridgeImplementsLifecycle, BridgeNamedEnd, BridgeReasonsAreTrue,
   BridgeResultIsFinal, BridgeSessionBlamed, BridgeTranscriptKept, BridgeOnlyReadWaits,
   BridgePumpWindsDown, BridgeStaysGone, BridgeFirstReason, PTL

---------------------------------------------------------------------------
(* The codec. *)

CodecInv ==
  /\ setup \in {"dial", "send", "await", "up"} => codec \in {PCMU, PCMA}
  /\ setup = "up" => session.in = RealtimeFormat(codec) /\ session.out = RealtimeFormat(codec)
  /\ setup # "up" => up = "idle"

\* Whatever the phone offers and the server grants, audio only flows into a
\* session that speaks the codec on the wire (client.go:80-133).
THEOREM LiveRightCodec == LiveSpec => []RightCodec
<1>1. LiveInit => CodecInv
  BY DEF LiveInit, SetupInit, Init, CodecInv
<1>2. CodecInv /\ [LiveNext]_liveVars => CodecInv'
  <2> SUFFICES ASSUME CodecInv, [LiveNext]_liveVars PROVE CodecInv'
    OBVIOUS
  <2>1. CASE Negotiated /\ UNCHANGED up
    BY <2>1 DEF Negotiated, Goes, CodecInv
  <2>2. CASE (Connected \/ Updated \/ ConfigureFails) /\ UNCHANGED up
    BY <2>2 DEF Connected, Updated, ConfigureFails, Goes, CodecInv
  <2>3. CASE Echoed /\ UNCHANGED up
    BY <2>3 DEF Echoed, Goes, Honoured, CodecInv
  <2>4. CASE UNCHANGED setupVars /\ setup = "up"
    BY <2>4 DEF setupVars, CodecInv
  <2>5. CASE UNCHANGED <<setupVars, up>>
    BY <2>5 DEF setupVars, CodecInv
  <2>6. UNCHANGED vars => UNCHANGED up
    BY DEF vars, upVars
  <2>7. QED
    BY <2>1, <2>2, <2>3, <2>4, <2>5, <2>6 DEF LiveNext, Dial, SetupStep, CallStep, Arrives,
       ServerStep, LiveFinished, liveVars
<1>3. CodecInv => RightCodec
  BY DEF CodecInv, RightCodec, RealtimeFormat, SilenceByte, SilenceIn, PCMU, PCMA
<1>4. QED
  BY <1>1, <1>2, <1>3, PTL DEF LiveSpec

---------------------------------------------------------------------------
(* Types. *)

ServerTypes ==
  /\ setup \in {"media", "dial", "send", "await", "up", "failed"}
  /\ codec \in Offered
  /\ response \in {"none", "open", "said", "told"} /\ caller \in {"quiet", "talking"}
  /\ unwritten \in Nat /\ spoken \in Turns

LEMMA ServerTypesStep == ServerTypes /\ [LiveNext]_liveVars => ServerTypes'
<1> SUFFICES ASSUME ServerTypes, [LiveNext]_liveVars PROVE ServerTypes'
  OBVIOUS
<1> USE DEF ServerTypes
<1>1. Append(spoken, "assistant") \in Turns /\ Append(spoken, "caller") \in Turns
  BY AppendProperties DEF Turns
<1>2. CASE Dial
  BY <1>2 DEF Dial, serverVars, SetupStep, Negotiated, Connected, Updated, ConfigureFails, Echoed, Goes
<1>3. CASE CallStep \/ Arrives \/ UNCHANGED liveVars
  BY <1>3 DEF CallStep, Arrives, liveVars, setupVars, serverVars
<1>4. CASE ServerStep
  <2>1. UNCHANGED <<setup, codec>>
    BY <1>4 DEF ServerStep, setupVars
  <2>2. CASE Creates \/ Cancels \/ Answers
    BY <1>1, <2>1, <2>2 DEF Creates, Cancels, Answers, Begins
  <2>3. CASE Speaks \/ Said \/ Transcribed \/ Ends
    BY <2>1, <2>3 DEF Speaks, Said, Transcribed, Ends, serverVars
  <2>4. CASE CallerStarts
    <3>1. caller' = "talking" /\ UNCHANGED <<response, unwritten, spoken>>
      BY <2>4, Zenon DEF CallerStarts
    <3>2. QED
      BY <2>1, <3>1
  <2>5. CASE CallerStops
    BY <1>1, <2>1, <2>5 DEF CallerStops
  <2>6. CASE WritesDown
    BY <2>1, <2>6 DEF WritesDown
  <2>7. QED
    BY <1>4, <2>2, <2>3, <2>4, <2>5, <2>6 DEF ServerStep
<1>5. QED
  BY <1>2, <1>3, <1>4 DEF LiveNext, LiveFinished

LEMMA OverlapStep == overlap \in BOOLEAN /\ [LiveNext]_liveVars => overlap' \in BOOLEAN
<1> SUFFICES ASSUME overlap \in BOOLEAN, [LiveNext]_liveVars PROVE overlap' \in BOOLEAN
  OBVIOUS
<1>1. CASE ServerStep
  BY <1>1, Zenon DEF ServerStep, Creates, Cancels, Speaks, Said, Transcribed, Ends, CallerStarts,
     CallerStops, Answers, WritesDown, Begins, serverVars
<1>2. CASE Dial \/ CallStep \/ Arrives \/ UNCHANGED liveVars
  BY <1>2, Zenon DEF Dial, CallStep, Arrives, liveVars, serverVars
<1>3. QED
  BY <1>1, <1>2 DEF LiveNext, LiveFinished

\* Type correctness of a call and its server, at any length.
THEOREM LiveCallTypeOK == LiveSpec => []LiveTypeOK
<1> DEFINE Overlaps == overlap \in BOOLEAN
<1>1. LiveInit => ServerTypes
  BY DEF LiveInit, SetupInit, ServerTypes, Turns
<1>2. LiveInit => Overlaps
  BY Zenon DEF LiveInit
<1>3. TypeOK /\ PipesInv /\ ServerTypes /\ Overlaps => LiveTypeOK
  BY Zenon DEF PipesInv, ServerTypes, LiveTypeOK
<1>4. Overlaps /\ [LiveNext]_liveVars => Overlaps'
  BY OverlapStep
<1> HIDE DEF Overlaps
<1>5. QED
  BY <1>1, <1>2, <1>3, <1>4, ServerTypesStep, LiveImplementsBridge, BridgeTypeOK, PipesHold,
     PTL DEF LiveSpec

---------------------------------------------------------------------------
(* What is in flight. *)

None(q, S) == \A i \in 1..Len(q) : q[i] \notin S

\* The last element of q that is in S is a k.
Last(q, S, k) ==
  \E i \in 1..Len(q) : q[i] = k /\ \A j \in 1..Len(q) : j > i => q[j] \notin S

LEMMA AtBack ==
  ASSUME NEW q \in Seq(EventKinds), NEW e \in EventKinds, NEW S, NEW k \in S
  PROVE  /\ e \notin S => /\ None(Append(q, e), S) => None(q, S)
                          /\ Last(Append(q, e), S, k) => Last(q, S, k)
         /\ e \in S => /\ ~None(Append(q, e), S)
                       /\ Last(Append(q, e), S, k) => k = e
<1> DEFINE p == Append(q, e)
<1>1. /\ Len(q) \in Nat /\ Len(p) = Len(q) + 1
      /\ \A i \in 1..Len(q) : p[i] = q[i]
      /\ p[Len(q) + 1] = e
  BY AppendProperties, LenProperties
<1> HIDE DEF p
<1>2. ASSUME e \notin S, None(p, S) PROVE None(q, S)
  BY <1>1, <1>2 DEF None
<1>3. ASSUME e \notin S, Last(p, S, k) PROVE Last(q, S, k)
  <2>1. PICK i \in 1..Len(p) : p[i] = k /\ \A j \in 1..Len(p) : j > i => p[j] \notin S
    BY <1>3 DEF Last
  <2>2. i # Len(q) + 1
    BY <1>1, <1>3, <2>1
  <2>3. i \in 1..Len(q) /\ q[i] = k
    BY <1>1, <2>1, <2>2
  <2>4. \A j \in 1..Len(q) : j > i => q[j] \notin S
    BY <1>1, <2>1
  <2>5. QED
    BY <2>3, <2>4 DEF Last
<1>4. ASSUME e \in S PROVE ~None(p, S)
  BY <1>1, <1>4 DEF None
<1>5. ASSUME e \in S, Last(p, S, k) PROVE k = e
  <2>1. PICK i \in 1..Len(p) : p[i] = k /\ \A j \in 1..Len(p) : j > i => p[j] \notin S
    BY <1>5 DEF Last
  <2>2. i = Len(q) + 1
    BY <1>1, <1>5, <2>1
  <2>3. QED
    BY <1>1, <2>1, <2>2
<1>6. QED
  BY <1>2, <1>3, <1>4, <1>5 DEF p

LEMMA AtFront ==
  ASSUME NEW q \in Seq(EventKinds), q # << >>, NEW S, NEW k \in S
  PROVE  /\ Last(Tail(q), S, k) => Last(q, S, k)
         /\ None(Tail(q), S) /\ Head(q) \in S => Last(q, S, Head(q))
         /\ None(Tail(q), S) /\ Head(q) \notin S => None(q, S)
<1> DEFINE t == Tail(q)
<1>1. /\ Len(q) \in Nat /\ Len(q) >= 1 /\ Len(t) = Len(q) - 1
      /\ \A i \in 1..Len(t) : t[i] = q[i + 1]
  BY HeadTailProperties, EmptySeq
<1>2. Head(q) = q[1]
  BY <1>1
<1> HIDE DEF t
<1>3. \A i \in 2..Len(q) : i - 1 \in 1..Len(t) /\ q[i] = t[i - 1]
  BY <1>1
<1>4. ASSUME Last(t, S, k) PROVE Last(q, S, k)
  <2>1. PICK i \in 1..Len(t) : t[i] = k /\ \A j \in 1..Len(t) : j > i => t[j] \notin S
    BY <1>4 DEF Last
  <2>2. i + 1 \in 1..Len(q) /\ q[i + 1] = k
    BY <1>1, <2>1
  <2>3. \A j \in 1..Len(q) : j > i + 1 => q[j] \notin S
    BY <1>1, <1>3, <2>1
  <2>4. QED
    BY <2>2, <2>3 DEF Last
<1>5. ASSUME None(t, S) PROVE \A j \in 1..Len(q) : j > 1 => q[j] \notin S
  BY <1>1, <1>3, <1>5 DEF None
<1>6. ASSUME None(t, S) PROVE Last(q, S, Head(q))
  BY <1>1, <1>2, <1>5, <1>6 DEF Last
<1>7. ASSUME None(t, S), Head(q) \notin S PROVE None(q, S)
  BY <1>1, <1>2, <1>5, <1>7 DEF None
<1>8. QED
  BY <1>4, <1>6, <1>7 DEF t

LEMMA Associative ==
  \A s, t, u \in Seq(EventKinds) : (s \o t) \o u = s \o (t \o u)
BY ConcatAssociative

LEMMA FlightType ==
  ASSUME TypeOK, PipesInv
  PROVE  /\ events \in Seq(EventKinds) /\ wire \in Seq(EventKinds) /\ Flight \in Seq(EventKinds)
         /\ (IF loop = "push" THEN <<held>> ELSE << >>) \in Seq(EventKinds)
<1>1. events \in Seq(EventKinds) /\ wire \in Seq(EventKinds)
  BY DEF TypeOK, ClientTypeOK, PipesInv
<1>2. (IF loop = "push" THEN <<held>> ELSE << >>) \in Seq(EventKinds)
  BY DEF TypeOK, ClientTypeOK
<1>3. QED
  BY <1>1, <1>2, ConcatProperties DEF Flight

\* The handler takes the oldest event.
LEMMA FlightTaken ==
  ASSUME TypeOK, PipesInv, NEW k, Receive(k), UNCHANGED wire
  PROVE  Flight # << >> /\ Head(Flight) = k /\ Flight' = Tail(Flight)
<1> DEFINE h == IF loop = "push" THEN <<held>> ELSE << >>
<1>1. /\ events # << >> /\ Head(events) = k /\ events' = Tail(events)
      /\ UNCHANGED <<loop, held, wire>>
  BY DEF Receive
<1>2. events \in Seq(EventKinds) /\ wire \in Seq(EventKinds) /\ h \in Seq(EventKinds)
  BY FlightType
<1>3. Flight = events \o h \o wire /\ Flight' = Tail(events) \o h \o wire
  BY <1>1 DEF Flight
<1> HIDE DEF h
<1>4. /\ Tail(events) \in Seq(EventKinds) /\ Len(Tail(events)) = Len(events) - 1
      /\ Len(events) \in Nat /\ Len(events) >= 1
      /\ \A i \in 1..Len(Tail(events)) : Tail(events)[i] = events[i + 1]
  BY <1>1, <1>2, HeadTailProperties, EmptySeq
<1> DEFINE r == h \o wire
<1>5. r \in Seq(EventKinds) /\ Flight = events \o r /\ Flight' = Tail(events) \o r
  <2>1. h \o wire \in Seq(EventKinds)
    BY <1>2, ConcatProperties
  <2>2. (events \o h) \o wire = events \o (h \o wire)
    BY <1>2, Associative, Zenon
  <2>3. (Tail(events) \o h) \o wire = Tail(events) \o (h \o wire)
    BY <1>2, <1>4, Associative, Zenon
  <2>4. QED
    BY <1>3, <2>1, <2>2, <2>3, Zenon
<1> HIDE DEF r
<1>6. /\ Flight \in Seq(EventKinds) /\ Len(Flight) = Len(events) + Len(r) /\ Len(r) \in Nat
      /\ \A i \in 1..Len(events) + Len(r) :
           Flight[i] = IF i <= Len(events) THEN events[i] ELSE r[i - Len(events)]
  BY <1>2, <1>5, ConcatProperties, LenProperties
<1>7. /\ Flight' \in Seq(EventKinds) /\ Len(Flight') = Len(events) - 1 + Len(r)
      /\ \A i \in 1..(Len(events) - 1 + Len(r)) :
           Flight'[i] = IF i <= Len(events) - 1 THEN events[i + 1] ELSE r[i - (Len(events) - 1)]
  BY <1>2, <1>4, <1>5, ConcatProperties
<1>8. Flight # << >> /\ Head(Flight) = k
  <2>1. Len(Flight) >= 1 /\ Flight[1] = events[1]
    BY <1>4, <1>6
  <2>2. Head(Flight) = Flight[1] /\ Head(events) = events[1]
    BY <1>2, <1>4, <1>6, <2>1
  <2>3. QED
    BY <1>1, <2>1, <2>2, EmptySeq
<1>9. /\ Tail(Flight) \in Seq(EventKinds) /\ Len(Tail(Flight)) = Len(Flight) - 1
      /\ \A i \in 1..Len(Tail(Flight)) : Tail(Flight)[i] = Flight[i + 1]
  BY <1>6, <1>8, HeadTailProperties
<1>10. ASSUME NEW i \in 1..Len(Flight')
       PROVE  Flight'[i] = Tail(Flight)[i]
  <2>1. i \in 1..Len(Tail(Flight)) /\ i + 1 \in 1..(Len(events) + Len(r))
    BY <1>4, <1>6, <1>7, <1>9
  <2>2. Tail(Flight)[i] = IF i + 1 <= Len(events) THEN events[i + 1]
                                                  ELSE r[(i + 1) - Len(events)]
    BY <1>6, <1>9, <2>1, SMTT(30)
  <2>3. Flight'[i] = IF i <= Len(events) - 1 THEN events[i + 1] ELSE r[i - (Len(events) - 1)]
    BY <1>7
  <2>4. Len(events) \in Int /\ i \in Int
    BY <1>4, <2>1
  <2>5. (i + 1) - Len(events) = i - (Len(events) - 1)
    BY <2>4
  <2>6. i + 1 <= Len(events) <=> i <= Len(events) - 1
    BY <2>4
  <2>7. CASE i + 1 <= Len(events)
    BY <2>2, <2>3, <2>6, <2>7, Zenon
  <2>8. CASE ~(i + 1 <= Len(events))
    BY <2>2, <2>3, <2>5, <2>6, <2>8, Zenon
  <2>9. QED
    BY <2>7, <2>8
<1>11. Flight' = Tail(Flight)
  BY <1>4, <1>6, <1>7, <1>9, <1>10, SeqEqual
<1>12. QED
  BY <1>8, <1>11

\* readLoop hands its event to the channel, or takes one off the wire.
LEMMA FlightMoves ==
  ASSUME TypeOK, PipesInv, (LoopPush /\ UNCHANGED wire) \/ Arrives
  PROVE  Flight' = Flight
<1>0. events \in Seq(EventKinds) /\ wire \in Seq(EventKinds)
  BY FlightType
<1>1. CASE LoopPush /\ UNCHANGED wire
  <2>1. /\ loop = "push" /\ loop' = "read" /\ events' = Append(events, held) /\ wire' = wire
        /\ held \in EventKinds
    BY <1>1 DEF LoopPush, TypeOK, ClientTypeOK
  <2>2. Flight = events \o <<held>> \o wire /\ Flight' = Append(events, held) \o << >> \o wire
    BY <2>1 DEF Flight
  <2>3. Append(events, held) = events \o <<held>> /\ Append(events, held) \in Seq(EventKinds)
    BY <1>0, <2>1, AppendIsConcat, AppendProperties
  <2>4. Append(events, held) \o << >> = Append(events, held)
    BY <2>3, ConcatEmptySeq
  <2>5. QED
    BY <2>2, <2>3, <2>4
<1>2. CASE Arrives
  <2>1. /\ loop = "read" /\ loop' = "push" /\ held' = Head(wire) /\ events' = events
        /\ wire # << >> /\ wire' = Tail(wire)
    BY <1>2 DEF Arrives, ReadEvent, LoopRead
  <2>2. Flight = events \o << >> \o wire /\ Flight' = events \o <<Head(wire)>> \o Tail(wire)
    BY <2>1 DEF Flight
  <2>3. Head(wire) \in EventKinds /\ Tail(wire) \in Seq(EventKinds) /\ wire = <<Head(wire)>> \o Tail(wire)
    <3>1. /\ Head(wire) \in EventKinds /\ Tail(wire) \in Seq(EventKinds)
          /\ Len(Tail(wire)) = Len(wire) - 1 /\ Len(wire) \in Nat /\ Len(wire) >= 1
          /\ \A i \in 1..Len(Tail(wire)) : Tail(wire)[i] = wire[i + 1]
      BY <1>0, <2>1, HeadTailProperties, EmptySeq
    <3>2. <<Head(wire)>> \in Seq(EventKinds) /\ Len(<<Head(wire)>>) = 1 /\ Head(wire) = wire[1]
      BY <1>0, <3>1
    <3> DEFINE w == <<Head(wire)>> \o Tail(wire)
    <3>3. /\ w \in Seq(EventKinds) /\ Len(w) = Len(wire)
          /\ \A i \in 1..Len(wire) : w[i] = IF i <= 1 THEN <<Head(wire)>>[i] ELSE Tail(wire)[i - 1]
      BY <3>1, <3>2, ConcatProperties
    <3> HIDE DEF w
    <3>4. \A i \in 1..Len(wire) : w[i] = wire[i]
      <4> SUFFICES ASSUME NEW i \in 1..Len(wire) PROVE w[i] = wire[i]
        OBVIOUS
      <4>1. CASE i = 1
        BY <3>2, <3>3, <4>1
      <4>2. CASE i # 1
        BY <3>1, <3>3, <4>2
      <4>3. QED
        BY <4>1, <4>2
    <3>5. w = wire
      BY <1>0, <3>3, <3>4, SeqEqual
    <3>6. QED
      BY <3>1, <3>5 DEF w
  <2>4. events \o << >> = events /\ <<Head(wire)>> \in Seq(EventKinds)
    BY <1>0, <2>3, ConcatEmptySeq
  <2>5. (events \o <<Head(wire)>>) \o Tail(wire) = events \o (<<Head(wire)>> \o Tail(wire))
    BY <1>0, <2>3, <2>4, ConcatAssociative
  <2>6. QED
    BY <2>2, <2>3, <2>4, <2>5
<1>3. QED
  BY <1>1, <1>2

\* The server sends an event.
LEMMA FlightGrows ==
  ASSUME TypeOK, PipesInv, NEW k \in EventKinds, Emits(k), UNCHANGED <<events, loop, held>>
  PROVE  Flight' = Append(Flight, k)
<1> DEFINE h == IF loop = "push" THEN <<held>> ELSE << >>
<1>1. wire' = Append(wire, k)
  BY DEF Emits
<1>2. events \in Seq(EventKinds) /\ wire \in Seq(EventKinds) /\ h \in Seq(EventKinds)
      /\ Flight \in Seq(EventKinds)
  BY FlightType
<1>3. Flight = events \o h \o wire /\ Flight' = events \o h \o Append(wire, k)
  BY <1>1 DEF Flight
<1> HIDE DEF h
<1> DEFINE f == events \o h
<1> DEFINE u == <<k>>
<1>4. f \in Seq(EventKinds) /\ u \in Seq(EventKinds)
  BY <1>2, ConcatProperties
<1>5. Append(wire, k) = wire \o u /\ Append(Flight, k) = Flight \o u
  BY <1>2, AppendIsConcat
<1>6. Flight = f \o wire /\ Flight' = f \o Append(wire, k)
  BY <1>3
<1> HIDE DEF f, u
<1>7. (f \o wire) \o u = f \o (wire \o u)
  <2>1. wire \in Seq(EventKinds)
    BY <1>2
  <2>2. QED
    BY <1>4, <2>1, ConcatAssociative
<1>8. QED
  BY <1>5, <1>6, <1>7, Zenon

---------------------------------------------------------------------------
(* The two sides agree.  What the last event in flight says is what the   *)
(* server did last; with nothing in flight the bridge knows it, except    *)
(* that a response the bridge has decided to cancel runs until the cancel *)
(* arrives.  None of this is said of a call that is about to end.         *)

Alive == conn = "open" /\ loop # "done" /\ ~ctxDone

Marks == {"created", "respDone"}
Voice == {"delta", "audioDone", "respDone"}

HasCancel == \E i \in 1..Len(commands) : commands[i] = "cancel"
Claimed == responseActive \/ ev \in {"lock", "write"} \/ HasCancel

MirrorInv == Alive =>
  /\ Last(Flight, Marks, "created") => response # "none"
  /\ Last(Flight, Marks, "respDone") => response = "none"
  /\ None(Flight, Marks) => /\ responseActive => response # "none"
                            /\ response # "none" => Claimed

VoiceInv == Alive =>
  /\ Last(Flight, Voice, "delta") => response = "open"
  /\ None(Flight, Voice) /\ speaking => response = "open"

(* What a step can do to all this: nothing, but that the handler may pass  *)
(* a claim on a response on to the cancel; take the oldest event; or send  *)
(* a new one.                                                              *)

Calm ==
  /\ Flight' = Flight /\ response' = response /\ speaking' = speaking
  /\ responseActive' => responseActive
  /\ Claimed => Claimed'

Takes(k) ==
  /\ Flight # << >> /\ Head(Flight) = k /\ Flight' = Tail(Flight)
  /\ response' = response /\ commands' = commands /\ ev = "select"
  /\ k = "created" => responseActive' = TRUE
  /\ k = "respDone" => responseActive' = FALSE
  /\ k \notin Marks => responseActive' = responseActive
  /\ k \in {"audioDone", "respDone"} => speaking' = FALSE
  /\ k \notin Voice /\ speaking' => speaking

Sends(k) ==
  /\ k \in EventKinds /\ Flight' = Append(Flight, k)
  /\ UNCHANGED <<responseActive, speaking, ev>>
  /\ HasCancel /\ response' # "none" => HasCancel'
  /\ k = "created" => response' # "none"
  /\ k = "respDone" => response' = "none"
  /\ k \notin Marks => (response' = "none" <=> response = "none")
  /\ k = "delta" => response' = "open"
  /\ k \notin Voice /\ response = "open" => response' = "open"

LEMMA CancelAdded ==
  ASSUME PipesInv, NEW c \in {"create", "cancel"}, commands' = Append(commands, c)
  PROVE  HasCancel \/ c = "cancel" => HasCancel'
<1>1. /\ Len(commands) \in Nat /\ Len(commands') = Len(commands) + 1
      /\ \A i \in 1..Len(commands) : commands'[i] = commands[i]
      /\ commands'[Len(commands) + 1] = c
  BY AppendProperties, LenProperties DEF PipesInv
<1>2. QED
  BY <1>1 DEF HasCancel

LEMMA CancelLeft ==
  ASSUME PipesInv, commands # << >>, commands' = Tail(commands), Head(commands) # "cancel"
  PROVE  HasCancel => HasCancel'
<1>1. /\ Len(commands) \in Nat /\ Len(commands) >= 1 /\ Len(commands') = Len(commands) - 1
      /\ \A i \in 1..Len(commands') : commands'[i] = commands[i + 1]
      /\ Head(commands) = commands[1]
  BY HeadTailProperties, EmptySeq DEF PipesInv
<1>2. ASSUME HasCancel PROVE HasCancel'
  <2>1. PICK i \in 1..Len(commands) : commands[i] = "cancel"
    BY <1>2 DEF HasCancel
  <2>2. i # 1
    BY <1>1, <2>1
  <2>3. i - 1 \in 1..Len(commands') /\ commands'[i - 1] = "cancel"
    BY <1>1, <2>1, <2>2
  <2>4. QED
    BY <2>3 DEF HasCancel
<1>3. QED
  BY <1>2

LEMMA MirrorStep ==
  ASSUME TypeOK, PipesInv, Alive, MirrorInv,
         Calm \/ (\E k : Takes(k)) \/ (\E k : Sends(k))
  PROVE  MirrorInv'
<1>0. Flight \in Seq(EventKinds)
  BY FlightType
<1>1. "created" \in Marks /\ "respDone" \in Marks
  BY DEF Marks
<1>2. CASE Calm
  BY <1>2, Zenon DEF Calm, MirrorInv
<1>3. ASSUME NEW k, Takes(k) PROVE MirrorInv'
  <2>1. /\ Last(Tail(Flight), Marks, "created") => Last(Flight, Marks, "created")
        /\ Last(Tail(Flight), Marks, "respDone") => Last(Flight, Marks, "respDone")
        /\ None(Tail(Flight), Marks) /\ k \in Marks => Last(Flight, Marks, k)
        /\ None(Tail(Flight), Marks) /\ k \notin Marks => None(Flight, Marks)
    BY <1>0, <1>1, <1>3, AtFront DEF Takes
  <2>2. ASSUME None(Tail(Flight), Marks)
        PROVE  /\ responseActive' => response # "none"
               /\ response # "none" => responseActive' \/ HasCancel
    <3>1. CASE k = "created"
      BY <1>1, <1>3, <2>1, <2>2, <3>1 DEF Takes, MirrorInv
    <3>2. CASE k = "respDone"
      BY <1>1, <1>3, <2>1, <2>2, <3>2 DEF Takes, MirrorInv
    <3>3. CASE k \notin Marks
      BY <1>3, <2>1, <2>2, <3>3 DEF Takes, MirrorInv, Claimed
    <3>4. QED
      BY <3>1, <3>2, <3>3 DEF Marks
  <2>3. Flight' = Tail(Flight) /\ response' = response /\ (HasCancel => HasCancel')
    BY <1>3 DEF Takes, HasCancel
  <2>4. QED
    BY <2>1, <2>2, <2>3, Zenon DEF MirrorInv, Claimed
<1>4. ASSUME NEW k, Sends(k) PROVE MirrorInv'
  <2>1. k \in EventKinds /\ Flight' = Append(Flight, k)
    BY <1>4 DEF Sends
  <2>2. CASE k \in Marks
    <3>1. /\ ~None(Flight', Marks)
          /\ Last(Flight', Marks, "created") => k = "created"
          /\ Last(Flight', Marks, "respDone") => k = "respDone"
      BY <1>0, <1>1, <2>1, <2>2, AtBack
    <3>2. QED
      BY <1>4, <3>1 DEF Sends, MirrorInv
  <2>3. CASE k \notin Marks
    <3>1. /\ None(Flight', Marks) => None(Flight, Marks)
          /\ Last(Flight', Marks, "created") => Last(Flight, Marks, "created")
          /\ Last(Flight', Marks, "respDone") => Last(Flight, Marks, "respDone")
      BY <1>0, <1>1, <2>1, <2>3, AtBack
    <3>2. /\ response' = "none" <=> response = "none"
          /\ responseActive' = responseActive /\ ev' = ev
          /\ HasCancel /\ response' # "none" => HasCancel'
      BY <1>4, <2>3 DEF Sends
    <3>3. QED
      BY <3>1, <3>2, Zenon DEF MirrorInv, Claimed
  <2>4. QED
    BY <2>2, <2>3
<1>5. QED
  BY <1>2, <1>3, <1>4

LEMMA VoiceStep ==
  ASSUME TypeOK, PipesInv, Alive, VoiceInv,
         Calm \/ (\E k : Takes(k)) \/ (\E k : Sends(k))
  PROVE  VoiceInv'
<1>0. Flight \in Seq(EventKinds) /\ "delta" \in Voice
  BY FlightType DEF Voice
<1>2. CASE Calm
  BY <1>2, Zenon DEF Calm, VoiceInv
<1>3. ASSUME NEW k, Takes(k) PROVE VoiceInv'
  <2>1. /\ Last(Tail(Flight), Voice, "delta") => Last(Flight, Voice, "delta")
        /\ None(Tail(Flight), Voice) /\ k \in Voice => Last(Flight, Voice, k)
        /\ None(Tail(Flight), Voice) /\ k \notin Voice => None(Flight, Voice)
    BY <1>0, <1>3, AtFront DEF Takes
  <2>2. ASSUME None(Tail(Flight), Voice), speaking' PROVE response = "open"
    <3>1. CASE k = "delta"
      BY <1>0, <2>1, <2>2, <3>1 DEF VoiceInv
    <3>2. CASE k \in {"audioDone", "respDone"}
      BY <1>3, <2>2, <3>2 DEF Takes
    <3>3. CASE k \notin Voice
      BY <1>3, <2>1, <2>2, <3>3, Zenon DEF Takes, VoiceInv
    <3>4. QED
      BY <3>1, <3>2, <3>3 DEF Voice
  <2>3. Flight' = Tail(Flight) /\ response' = response
    BY <1>3 DEF Takes
  <2>4. QED
    BY <2>1, <2>2, <2>3, Zenon DEF VoiceInv
<1>4. ASSUME NEW k, Sends(k) PROVE VoiceInv'
  <2>1. k \in EventKinds /\ Flight' = Append(Flight, k)
    BY <1>4 DEF Sends
  <2>2. CASE k \in Voice
    <3>1. ~None(Flight', Voice) /\ (Last(Flight', Voice, "delta") => k = "delta")
      BY <1>0, <2>1, <2>2, AtBack
    <3>2. QED
      BY <1>4, <3>1 DEF Sends, VoiceInv
  <2>3. CASE k \notin Voice
    <3>1. /\ None(Flight', Voice) => None(Flight, Voice)
          /\ Last(Flight', Voice, "delta") => Last(Flight, Voice, "delta")
      BY <1>0, <2>1, <2>3, AtBack
    <3>2. /\ response = "open" => response' = "open"
          /\ speaking' = speaking
      BY <1>4, <2>3 DEF Sends
    <3>3. QED
      BY <3>1, <3>2, Zenon DEF VoiceInv
  <2>4. QED
    BY <2>2, <2>3
<1>5. QED
  BY <1>2, <1>3, <1>4

\* A call that is about to end does not recover.
LEMMA AliveBefore ==
  ASSUME [Next]_vars, Alive'
  PROVE  conn # "closed" /\ loop # "done" /\ ~ctxDone
<1>1. conn # "closed" /\ loop # "done"
  BY ClientStaysClosed DEF Alive
<1> USE DEF clientVars, callVars, upVars, downVars, evVars, shared, bridgeVars
<1>2. ASSUME ctxDone PROVE ctxDone'
  <2>1. CASE RunStep
    BY <1>2, <2>1, Zenon DEF RunStep, GreetOk, GreetFails, Return
  <2>2. CASE UpStep
    BY <1>2, <2>2, Zenon DEF UpStep, UpCheck, UpRead, UpLock, UpWriteOk, UpWriteFails, UpLeave
  <2>3. CASE DownStep
    BY <1>2, <2>3, Zenon DEF DownStep, PaceStop, PaceTick, PaceLoad, PaceWriteOk, PaceWriteFails,
                             PaceLeave
  <2>4. CASE EvEvent
    BY <1>2, <2>4, Zenon DEF EvEvent, EvCreated, EvDelta, EvAudioDone, EvRespDone, EvStarted,
                             EvStopped, EvInText, EvOutText, EvIgnored, Receive
  <2>5. CASE EvStep /\ ~EvEvent
    BY <1>2, <2>5, Zenon DEF EvStep, EvStop, EvTick, EvClosed, EvBuffer, EvFlush, EvLock, EvWrite,
                             EvLeave
  <2>6. CASE LoopStep \/ SessionFault \/ \E k \in EventKinds : ReadEvent(k)
    BY <1>2, <2>6, Zenon DEF LoopStep, SessionFault, ReadEvent
  <2>7. CASE TimerFires \/ HangUp \/ MediaCloses \/ Second \/ Close \/ UNCHANGED vars
    BY <1>2, <2>7, Zenon DEF TimerFires, HangUp, MediaCloses, Second, Close, vars
  <2>8. QED
    BY <2>1, <2>2, <2>3, <2>4, <2>5, <2>6, <2>7 DEF Next, Internal, Environment, Finished
<1>3. QED
  BY <1>1, <1>2, Zenon DEF Alive

LEMMA CommandsGrow ==
  ASSUME PipesInv, CallStep
  PROVE  HasCancel => HasCancel'
<1>1. CASE commands' = commands
  BY <1>1 DEF HasCancel
<1>2. CASE \E c \in {"create", "cancel"} : commands' = Append(commands, c)
  BY <1>2, CancelAdded
<1>3. QED
  BY <1>1, <1>2 DEF CallStep, Commanded

\* A step away from the events leaves all this alone.
LEMMA CalmAside ==
  ASSUME PipesInv, CallStep, UNCHANGED <<events, loop, held, speaking, responseActive>>,
         ev \in {"lock", "write"} => ev' \in {"lock", "write"}
  PROVE  Calm
<1>1. HasCancel => HasCancel'
  BY CommandsGrow
<1>2. Flight' = Flight /\ response' = response
  BY DEF CallStep, Flight, serverVars
<1>3. QED
  BY <1>1, <1>2, Zenon DEF Calm, Claimed

LEMMA CallCalm ==
  ASSUME TypeOK, PipesInv, LifeInv, CallStep, ~EvEvent, Alive'
  PROVE  Calm
<1> USE DEF clientVars, callVars, upVars, downVars, evVars, shared, bridgeVars
<1>1. CASE RunStep
  <2>1. CASE GreetOk
    <3>1. ev = "idle"
      BY <2>1 DEF GreetOk, LifeInv
    <3>2. QED
      BY <2>1, <3>1, CalmAside DEF GreetOk
  <2>2. CASE GreetFails
    BY <2>2, Zenon DEF GreetFails, Alive
  <2>3. CASE Return
    BY <2>3, CalmAside DEF Return
  <2>4. QED
    BY <1>1, <2>1, <2>2, <2>3 DEF RunStep
<1>2. CASE UpStep
  <2>1. UNCHANGED <<events, loop, held, speaking, responseActive, ev>>
    BY <1>2 DEF UpStep, UpCheck, UpRead, UpLock, UpWriteOk, UpWriteFails, UpLeave, Lock, WriteOk,
                WriteFails
  <2>2. QED
    BY <2>1, CalmAside
<1>3. CASE DownStep
  <2>1. UNCHANGED <<events, loop, held, speaking, responseActive, ev>>
    BY <1>3 DEF DownStep, PaceStop, PaceTick, PaceLoad, PaceWriteOk, PaceWriteFails, PaceLeave
  <2>2. QED
    BY <2>1, CalmAside
<1>4. CASE EvStop \/ EvTick \/ EvClosed \/ EvBuffer
  <2>1. UNCHANGED <<events, loop, held, speaking, responseActive>> /\ ev \in {"select", "buffer"}
    BY <1>4 DEF EvStop, EvTick, EvClosed, EvBuffer
  <2>2. QED
    BY <2>1, CalmAside
<1>5. CASE EvFlush
  <2>1. /\ UNCHANGED <<events, loop, held, speaking>>
        /\ ~responseActive' /\ ev = "flush"
        /\ responseActive => ev' = "lock"
    BY <1>5, Zenon DEF EvFlush, CancelOnce
  <2>2. Flight' = Flight /\ response' = response /\ (HasCancel => HasCancel')
    BY <2>1, CommandsGrow DEF CallStep, Flight, serverVars
  <2>3. QED
    BY <2>1, <2>2, Zenon DEF Calm, Claimed
<1>6. CASE EvLock
  BY <1>6, CalmAside DEF EvLock, Lock
<1>7. CASE EvWrite
  <2>1. /\ UNCHANGED <<events, loop, held, speaking, responseActive, run>>
    BY <1>7 DEF EvWrite, WriteOk, WriteFails
  <2>2. ~ctxDone /\ conn # "closed"
    BY AliveBefore DEF CallStep, Next
  <2>3. obs' = [obs EXCEPT !.cancels = @ + 1]
    BY <1>7, <2>2, Zenon DEF EvWrite, WriteFails
  <2>4. obs'.cancels > obs.cancels
    BY <2>3 DEF TypeOK, ObsTypeOK
  <2>5. commands' = Append(commands, "cancel")
    BY <2>1, <2>4 DEF CallStep, Commanded
  <2>6. HasCancel'
    BY <2>5, CancelAdded
  <2>7. Flight' = Flight /\ response' = response
    BY <2>1 DEF CallStep, Flight, serverVars
  <2>8. QED
    BY <2>1, <2>6, <2>7, Zenon DEF Calm, Claimed
<1>8. CASE EvLeave
  BY <1>8, Zenon DEF EvLeave, Alive
<1>9. CASE LoopStep
  <2>1. CASE LoopPush
    <3>1. UNCHANGED <<speaking, responseActive, ev>>
      BY <1>9 DEF LoopStep
    <3>2. Flight' = Flight
      BY <2>1, FlightMoves DEF CallStep
    <3>3. HasCancel => HasCancel'
      BY CommandsGrow
    <3>4. response' = response
      BY DEF CallStep, serverVars
    <3>5. QED
      BY <3>1, <3>2, <3>3, <3>4, Zenon DEF Calm, Claimed
  <2>2. CASE LoopFails \/ LoopQuits
    BY <2>2 DEF LoopFails, LoopQuits, Alive
  <2>3. QED
    BY <1>9, <2>1, <2>2 DEF LoopStep
<1>10. CASE SessionFault
  BY <1>10 DEF SessionFault, LoopGarbled, ConnDrops, Alive
<1>11. CASE TimerFires \/ HangUp
  BY <1>11, Zenon DEF TimerFires, HangUp, Alive
<1>12. CASE Close
  BY <1>12 DEF Close, ClientClose, Alive
<1>13. CASE MediaCloses \/ Second
  <2>1. UNCHANGED <<events, loop, held, speaking, responseActive, ev>>
    BY <1>13 DEF MediaCloses, Second
  <2>2. QED
    BY <2>1, CalmAside
<1>14. QED
  BY <1>1, <1>2, <1>3, <1>4, <1>5, <1>6, <1>7, <1>8, <1>9, <1>10, <1>11, <1>12, <1>13
     DEF CallStep, Internal, Environment, EvStep

\* The handler takes an event.
LEMMA CallTakes ==
  ASSUME TypeOK, PipesInv, CallStep, EvEvent
  PROVE  \E k : Takes(k)
<1>1. PICK k : Receive(k) /\ (\/ k = "created" /\ EvCreated
                              \/ k = "delta" /\ EvDelta
                              \/ k = "audioDone" /\ EvAudioDone
                              \/ k = "respDone" /\ EvRespDone
                              \/ k = "started" /\ EvStarted
                              \/ k = "stopped" /\ EvStopped
                              \/ k \in {"inText", "inBlank"} /\ EvInText
                              \/ k = "outText" /\ EvOutText
                              \/ k \in {"badDelta", "other"} /\ EvIgnored)
  BY DEF EvEvent, EvCreated, EvDelta, EvAudioDone, EvRespDone, EvStarted, EvStopped, EvInText,
         EvOutText, EvIgnored
<1>2. wire' = wire /\ response' = response
  BY DEF CallStep, serverVars
<1>3. Flight # << >> /\ Head(Flight) = k /\ Flight' = Tail(Flight)
  BY <1>1, <1>2, FlightTaken
<1>4. ev = "select" /\ run' = run
  BY <1>1 DEF Receive, callVars
<1>5. obs'.cancels = obs.cancels /\ obs.cancels \in Nat
  BY <1>1 DEF EvCreated, EvDelta, EvAudioDone, EvRespDone, EvStarted, EvStopped, EvInText,
              EvOutText, EvIgnored, TypeOK, ObsTypeOK
<1>6. commands' = commands
  BY <1>4, <1>5 DEF CallStep, Commanded
<1>7. /\ k = "created" => responseActive' = TRUE
      /\ k = "respDone" => responseActive' = FALSE
      /\ k \notin Marks => responseActive' = responseActive
      /\ k \in {"audioDone", "respDone"} => speaking' = FALSE
  BY <1>1 DEF EvCreated, EvDelta, EvAudioDone, EvRespDone, EvStarted, EvStopped, EvInText,
              EvOutText, EvIgnored, Marks
<1>8. k \notin Voice => (speaking' = speaking \/ speaking' = FALSE)
  BY <1>1 DEF EvCreated, EvDelta, EvAudioDone, EvRespDone, EvStarted, EvStopped, EvInText,
              EvOutText, EvIgnored, Voice
<1>9. k \notin Voice /\ speaking' => speaking
  <2>1. CASE speaking' = speaking
    BY <2>1, Zenon
  <2>2. CASE speaking' = FALSE
    BY <2>2, Zenon
  <2>3. QED
    BY <1>8, <2>1, <2>2, Zenon
<1>10. Takes(k)
  BY <1>2, <1>3, <1>4, <1>6, <1>7, <1>9 DEF Takes
<1>11. QED
  BY <1>10

LEMMA ArrivesCalm ==
  ASSUME TypeOK, PipesInv, Arrives
  PROVE  Calm
<1>1. Flight' = Flight
  BY FlightMoves
<1>2. UNCHANGED <<response, commands, speaking, responseActive, ev>>
  BY DEF Arrives, serverVars, ReadEvent, bridgeVars, shared, evVars
<1>3. QED
  BY <1>1, <1>2, Zenon DEF Calm, Claimed, HasCancel

\* The server sends an event.
LEMMA ServerSends ==
  ASSUME TypeOK, PipesInv, ServerStep
  PROVE  \E k : Sends(k)
<1>1. UNCHANGED <<events, loop, held, responseActive, speaking, ev>>
  BY DEF ServerStep, vars, clientVars, evVars, shared
<1>2. ASSUME NEW k \in Kinds \ {"badDelta", "inBlank"}, Emits(k)
      PROVE  k \in EventKinds /\ Flight' = Append(Flight, k)
  BY <1>1, <1>2, FlightGrows, ServerAssumption
<1>3. CASE Creates
  <2>1. HasCancel => HasCancel'
    BY <1>3, CancelLeft DEF Creates
  <2>2. CASE response = "none"
    <3>1. Sends("created")
      BY <1>1, <1>2, <1>3, <2>1, <2>2 DEF Creates, Begins, Sends, Marks, Voice, Kinds
    <3>2. QED
      BY <3>1
  <2>3. CASE response # "none"
    <3>1. Sends("other")
      BY <1>1, <1>2, <1>3, <2>1, <2>3 DEF Creates, Sends, Marks, Voice, Kinds
    <3>2. QED
      BY <3>1
  <2>4. QED
    BY <2>2, <2>3
<1>4. CASE Cancels
  <2>1. CASE response = "none"
    <3>1. Sends("other")
      BY <1>1, <1>2, <1>4, <2>1 DEF Cancels, Sends, Marks, Voice, Kinds
    <3>2. QED
      BY <3>1
  <2>2. CASE response # "none"
    <3>1. Sends("respDone")
      BY <1>1, <1>2, <1>4, <2>2 DEF Cancels, Sends, Marks, Voice, Kinds
    <3>2. QED
      BY <3>1
  <2>3. QED
    BY <2>1, <2>2
<1>5. ASSUME commands' = commands PROVE HasCancel => HasCancel'
  BY <1>5 DEF HasCancel
<1>6. CASE Speaks
  <2>1. Sends("delta")
    BY <1>1, <1>2, <1>5, <1>6 DEF Speaks, serverVars, Sends, Marks, Voice, Kinds
  <2>2. QED
    BY <2>1
<1>7. CASE Said
  <2>1. Sends("audioDone")
    BY <1>1, <1>2, <1>5, <1>7 DEF Said, Sends, Marks, Voice, Kinds
  <2>2. QED
    BY <2>1
<1>8. CASE Transcribed
  <2>1. Sends("outText")
    BY <1>1, <1>2, <1>5, <1>8 DEF Transcribed, Sends, Marks, Voice, Kinds
  <2>2. QED
    BY <2>1
<1>9. CASE Ends
  <2>1. Sends("respDone")
    BY <1>1, <1>2, <1>5, <1>9 DEF Ends, Sends, Marks, Voice, Kinds
  <2>2. QED
    BY <2>1
<1>10. CASE CallerStarts
  <2>1. Sends("started")
    BY <1>1, <1>2, <1>5, <1>10 DEF CallerStarts, Sends, Marks, Voice, Kinds
  <2>2. QED
    BY <2>1
<1>11. CASE CallerStops
  <2>1. Sends("stopped")
    BY <1>1, <1>2, <1>5, <1>11 DEF CallerStops, Sends, Marks, Voice, Kinds
  <2>2. QED
    BY <2>1
<1>12. CASE Answers
  <2>1. Sends("created")
    BY <1>1, <1>2, <1>5, <1>12 DEF Answers, Begins, Sends, Marks, Voice, Kinds
  <2>2. QED
    BY <2>1
<1>13. CASE WritesDown
  <2>1. Sends("inText")
    BY <1>1, <1>2, <1>5, <1>13 DEF WritesDown, Sends, Marks, Voice, Kinds
  <2>2. QED
    BY <2>1
<1>14. QED
  BY <1>3, <1>4, <1>6, <1>7, <1>8, <1>9, <1>10, <1>11, <1>12, <1>13 DEF ServerStep

\* Every step of a call that lives on does one of the three.
LEMMA LiveStep ==
  ASSUME TypeOK, PipesInv, LifeInv, [LiveNext]_liveVars, Alive'
  PROVE  Alive /\ (Calm \/ (\E k : Takes(k)) \/ (\E k : Sends(k)))
<1>1. Alive
  <2>1. conn # "closed" /\ loop # "done" /\ ~ctxDone
    BY BridgeStep, AliveBefore
  <2>2. conn \in {"open", "closed"}
    BY DEF TypeOK, ClientTypeOK
  <2>3. QED
    BY <2>1, <2>2, Zenon DEF Alive
<1>2. CASE CallStep
  BY <1>1, <1>2, CallCalm, CallTakes
<1>3. CASE Arrives
  BY <1>1, <1>3, ArrivesCalm
<1>4. CASE ServerStep
  BY <1>1, <1>4, ServerSends
<1>5. CASE Dial \/ UNCHANGED liveVars
  <2>1. UNCHANGED <<events, loop, held, wire, response, commands, speaking, responseActive, ev>>
    BY <1>5 DEF Dial, liveVars, vars, clientVars, serverVars, shared, evVars
  <2>2. Flight' = Flight
    BY <2>1 DEF Flight
  <2>3. QED
    BY <1>1, <2>1, <2>2, Zenon DEF Calm, Claimed, HasCancel
<1>6. QED
  BY <1>1, <1>2, <1>3, <1>4, <1>5 DEF LiveNext, LiveFinished

LEMMA SettledAlive ==
  ASSUME Settled
  PROVE  /\ Alive /\ None(Flight, Marks) /\ None(Flight, Voice)
         /\ ev = "select" /\ ~HasCancel
<1>1. Alive
  BY Zenon DEF Settled, Alive
<1>2. events = << >> /\ wire = << >> /\ loop # "push" /\ commands = << >> /\ ev = "select"
  BY DEF Settled
<1>3. Flight = << >>
  BY <1>2 DEF Flight
<1>4. QED
  BY <1>1, <1>2, <1>3 DEF None, HasCancel

LEMMA LiveInvariants == LiveSpec => [](TypeOK /\ LifeInv)
<1>1. Init => LifeInv
  BY DEF Init, LifeInv
<1>2. Spec => []LifeInv
  BY <1>1, LifeStep, PTL DEF Spec
<1>3. QED
  BY <1>2, LiveImplementsBridge, BridgeTypeOK, PTL

\* When all that was sent has arrived, the bridge thinks a response active
\* exactly if one is: no crossing of barge-ins, cancels, refusals and events
\* leaves a response running unwatched (bridge.go:253-305).
THEOREM LiveResponseMirrored == LiveSpec => []ResponseMirrored
<1>1. LiveInit => MirrorInv
  BY DEF LiveInit, Init, ClientInit, MirrorInv, Flight, Last, None, Marks
<1>2. TypeOK /\ PipesInv /\ LifeInv /\ MirrorInv /\ [LiveNext]_liveVars => MirrorInv'
  <2> SUFFICES ASSUME TypeOK, PipesInv, LifeInv, MirrorInv, [LiveNext]_liveVars PROVE MirrorInv'
    OBVIOUS
  <2>1. CASE Alive'
    BY <2>1, LiveStep, MirrorStep
  <2>2. CASE ~Alive'
    BY <2>2, Zenon DEF MirrorInv
  <2>3. QED
    BY <2>1, <2>2
<1>3. MirrorInv => ResponseMirrored
  BY SettledAlive DEF MirrorInv, ResponseMirrored, Claimed
<1>4. QED
  BY <1>1, <1>2, <1>3, LiveInvariants, PipesHold, PTL DEF LiveSpec

\* And it thinks the model speaks only if the model does, whatever audio of
\* a cancelled response came in late (bridge.go:262-296).
THEOREM LiveSpeakingMirrored == LiveSpec => []SpeakingMirrored
<1>1. LiveInit => VoiceInv
  BY DEF LiveInit, Init, ClientInit, VoiceInv, Flight, Last, None, Voice
<1>2. TypeOK /\ PipesInv /\ LifeInv /\ VoiceInv /\ [LiveNext]_liveVars => VoiceInv'
  <2> SUFFICES ASSUME TypeOK, PipesInv, LifeInv, VoiceInv, [LiveNext]_liveVars PROVE VoiceInv'
    OBVIOUS
  <2>1. CASE Alive'
    BY <2>1, LiveStep, VoiceStep
  <2>2. CASE ~Alive'
    BY <2>2, Zenon DEF VoiceInv
  <2>3. QED
    BY <2>1, <2>2
<1>3. VoiceInv => SpeakingMirrored
  BY SettledAlive DEF VoiceInv, SpeakingMirrored
<1>4. QED
  BY <1>1, <1>2, <1>3, LiveInvariants, PipesHold, PTL DEF LiveSpec

---------------------------------------------------------------------------
(* From the server to the handler: one queue. *)

Over == dialDone \/ fault \/ conn = "closed"

\* What a step of the call does to the events, and to what is recorded of them.
Aside  == UNCHANGED <<events, loop, held, turns, bargeIns>>
Breaks == /\ loop # "done" /\ loop' = "done" /\ Over'
          /\ UNCHANGED <<events, turns, bargeIns>>
Feeds  == LoopPush /\ UNCHANGED <<turns, bargeIns>>

\* An end of the dialog or of the session is not undone.
LEMMA OverLasts ==
  ASSUME [Next]_vars, Over
  PROVE  Over'
<1>1. CASE conn = "closed"
  BY <1>1, ClientStaysClosed DEF Over
<1> USE DEF clientVars, callVars, upVars, downVars, evVars, shared, bridgeVars
<1>2. CASE dialDone \/ fault
  <2>1. CASE RunStep
    BY <1>2, <2>1, Zenon DEF RunStep, GreetOk, GreetFails, Return, Over
  <2>2. CASE UpStep
    BY <1>2, <2>2, Zenon DEF UpStep, UpCheck, UpRead, UpLock, UpWriteOk, UpWriteFails, UpLeave, Lock,
                             WriteOk, WriteFails, Over
  <2>3. CASE DownStep
    BY <1>2, <2>3, Zenon DEF DownStep, PaceStop, PaceTick, PaceLoad, PaceWriteOk, PaceWriteFails,
                             PaceLeave, Over
  <2>4. CASE EvEvent
    BY <1>2, <2>4, Zenon DEF EvEvent, EvCreated, EvDelta, EvAudioDone, EvRespDone, EvStarted,
                             EvStopped, EvInText, EvOutText, EvIgnored, Receive, Over
  <2>5. CASE EvStop \/ EvTick \/ EvClosed \/ EvBuffer \/ EvFlush \/ EvLock \/ EvWrite \/ EvLeave
    <3>1. UNCHANGED <<dialDone, fault>>
      BY <2>5 DEF EvStop, EvTick, EvClosed, EvBuffer, EvFlush, EvLock, EvWrite, EvLeave, Lock,
                  WriteOk, WriteFails
    <3>2. QED
      BY <1>2, <3>1, Zenon DEF Over
  <2>6. CASE LoopStep \/ SessionFault \/ \E k \in EventKinds : ReadEvent(k)
    BY <1>2, <2>6, Zenon DEF LoopStep, SessionFault, ReadEvent, LoopFails, LoopPush, LoopQuits,
                             LoopGarbled, ConnDrops, LoopRead, Over
  <2>7. CASE HangUp
    BY <2>7, Zenon DEF HangUp, DialogCancelled, Over
  <2>8. CASE TimerFires \/ MediaCloses \/ Second \/ Close \/ UNCHANGED vars
    <3>1. UNCHANGED <<dialDone, fault>>
      BY <2>8 DEF TimerFires, MediaCloses, Second, Close, ClientClose, vars
    <3>2. QED
      BY <1>2, <3>1, Zenon DEF Over
  <2>9. QED
    BY <2>1, <2>2, <2>3, <2>4, <2>5, <2>6, <2>7, <2>8
       DEF Next, Internal, Environment, Finished, EvStep
<1>3. QED
  BY <1>1, <1>2 DEF Over

LEMMA PipeStep ==
  ASSUME Internal \/ Environment
  PROVE  EvEvent \/ Feeds \/ Breaks \/ Aside
<1> USE DEF clientVars, callVars, upVars, downVars, evVars, shared, bridgeVars
<1>1. CASE RunStep
  BY <1>1 DEF RunStep, GreetOk, GreetFails, Return, Aside
<1>2. CASE UpStep
  BY <1>2 DEF UpStep, UpCheck, UpRead, UpLock, UpWriteOk, UpWriteFails, UpLeave, Lock, WriteOk,
              WriteFails, Aside
<1>3. CASE DownStep
  BY <1>3 DEF DownStep, PaceStop, PaceTick, PaceLoad, PaceWriteOk, PaceWriteFails, PaceLeave, Aside
<1>4. CASE EvStep /\ ~EvEvent
  BY <1>4 DEF EvStep, EvStop, EvTick, EvClosed, EvBuffer, EvFlush, EvLock, EvWrite, EvLeave, Lock,
              WriteOk, WriteFails, Aside
<1>5. CASE LoopStep
  BY <1>5 DEF LoopStep, LoopFails, LoopQuits, Feeds, Breaks, Over
<1>6. CASE SessionFault
  BY <1>6 DEF SessionFault, LoopGarbled, ConnDrops, Breaks, Aside, Over
<1>7. CASE TimerFires \/ HangUp \/ MediaCloses \/ Second \/ Close
  BY <1>7 DEF TimerFires, HangUp, MediaCloses, Second, Close, DialogCancelled, ClientClose, Aside
<1>8. QED
  BY <1>1, <1>2, <1>3, <1>4, <1>5, <1>6, <1>7 DEF Internal, Environment

\* What the handler records of the event it takes.
LEMMA EventRecorded ==
  ASSUME TypeOK, EvEvent
  PROVE  \E k : /\ Receive(k)
                /\ turns' = turns \o Stream!Spoken(k)
                /\ bargeIns' = bargeIns + IF k = "started" THEN 1 ELSE 0
<1>1. /\ turns \in Seq({"caller", "assistant"}) /\ bargeIns \in Nat
  BY DEF TypeOK, EvTypeOK, Turns
<1>2. /\ turns \o << >> = turns
      /\ Append(turns, "caller") = turns \o <<"caller">>
      /\ Append(turns, "assistant") = turns \o <<"assistant">>
  BY <1>1, ConcatEmptySeq, AppendIsConcat
<1>3. bargeIns + 0 = bargeIns
  BY <1>1
<1>4. CASE EvStarted
  BY <1>2, <1>4 DEF EvStarted, Stream!Spoken
<1>5. CASE EvInText
  <2>1. PICK k \in {"inText", "inBlank"} :
          Receive(k) /\ IF k = "inText" THEN AddTurn("caller") ELSE turns' = turns
    BY <1>5 DEF EvInText
  <2>2. turns' = turns \o Stream!Spoken(k)
    BY <1>2, <2>1 DEF AddTurn, Stream!Spoken
  <2>3. bargeIns' = bargeIns /\ k # "started"
    BY <1>5, <2>1 DEF EvInText
  <2>4. QED
    BY <1>3, <2>1, <2>2, <2>3
<1>6. CASE EvOutText
  BY <1>2, <1>3, <1>6 DEF EvOutText, AddTurn, Stream!Spoken
<1>7. CASE EvCreated \/ EvDelta \/ EvAudioDone \/ EvRespDone \/ EvStopped \/ EvIgnored
  <2>1. PICK k \in Kinds \ {"inText", "outText", "started"} : Receive(k)
    BY <1>7 DEF EvCreated, EvDelta, EvAudioDone, EvRespDone, EvStopped, EvIgnored, Kinds
  <2>2. turns' = turns /\ bargeIns' = bargeIns
    BY <1>7 DEF EvCreated, EvDelta, EvAudioDone, EvRespDone, EvStopped, EvIgnored
  <2>3. Stream!Spoken(k) = << >> /\ k # "started"
    BY DEF Stream!Spoken
  <2>4. QED
    BY <1>2, <1>3, <2>1, <2>2, <2>3
<1>8. QED
  BY <1>4, <1>5, <1>6, <1>7 DEF EvEvent

\* The channel is what is left of the queue when it breaks.
LEMMA ChannelInFront ==
  ASSUME TypeOK, PipesInv
  PROVE  \E n \in 0..Len(Flight) : events = SubSeq(Flight, 1, n)
<1> DEFINE h == IF loop = "push" THEN <<held>> ELSE << >>
           r == h \o wire
           s == SubSeq(Flight, 1, Len(events))
<1>1. events \in Seq(EventKinds) /\ wire \in Seq(EventKinds) /\ h \in Seq(EventKinds)
      /\ Flight \in Seq(EventKinds)
  BY FlightType
<1> HIDE DEF h
<1>2. r \in Seq(EventKinds) /\ Flight = events \o r
  <2>1. Flight = (events \o h) \o wire
    BY DEF Flight, h
  <2>2. (events \o h) \o wire = events \o (h \o wire)
    BY <1>1, Associative, Zenon
  <2>3. h \o wire \in Seq(EventKinds)
    BY <1>1, ConcatProperties
  <2>4. QED
    BY <2>1, <2>2, <2>3, Zenon
<1> HIDE DEF r
<1>3. /\ Len(events) \in Nat /\ Len(r) \in Nat /\ Len(Flight) = Len(events) + Len(r)
      /\ \A i \in 1..Len(events) : Flight[i] = events[i]
  BY <1>1, <1>2, ConcatProperties, LenProperties
<1>4. /\ s \in Seq(EventKinds) /\ Len(s) = Len(events)
      /\ \A i \in 1..Len(events) : s[i] = Flight[i]
  BY <1>1, <1>3, SubSeqProperties
<1> HIDE DEF s
<1>5. s = events
  BY <1>1, <1>3, <1>4, SeqEqual
<1>6. Len(events) \in 0..Len(Flight)
  BY <1>3
<1>7. events = SubSeq(Flight, 1, Len(events))
  BY <1>5, Zenon DEF s
<1>8. QED
  BY <1>6, <1>7, Zenon

LEMMA StreamStep ==
  TypeOK /\ PipesInv /\ [LiveNext]_liveVars => [Stream!Next]_(Stream!streamVars)
<1> SUFFICES ASSUME TypeOK, PipesInv, [LiveNext]_liveVars
             PROVE  [Stream!Next]_(Stream!streamVars)
  OBVIOUS
<1> DEFINE queue == IF loop = "done" THEN events ELSE Flight
\* With queue and records alone, a step ends dialog or session, or does nothing.
<1>1. ASSUME [Next]_vars, queue' = queue, UNCHANGED <<turns, bargeIns>>,
             (loop # "done")' = (loop # "done")
      PROVE  [Stream!Next]_(Stream!streamVars)
  <2>1. CASE Over' <=> Over
    BY <1>1, <2>1 DEF Stream!streamVars, Over
  <2>2. CASE Over' /\ ~Over
    BY <1>1, <2>2 DEF Stream!Next, Stream!Ends, Over
  <2>3. QED
    BY <1>1, <2>1, <2>2, OverLasts
<1>2. CASE CallStep /\ EvEvent
  <2>1. PICK k : /\ Receive(k)
                 /\ turns' = turns \o Stream!Spoken(k)
                 /\ bargeIns' = bargeIns + IF k = "started" THEN 1 ELSE 0
    BY <1>2, EventRecorded
  <2>2. UNCHANGED <<conn, loop, dialDone, fault>> /\ wire' = wire
    BY <1>2, <2>1 DEF Receive, CallStep
  <2>3. queue # << >> /\ Head(queue) = k /\ queue' = Tail(queue)
    <3>1. CASE loop = "done"
      BY <2>1, <2>2, <3>1 DEF Receive
    <3>2. CASE loop # "done"
      BY <2>1, <2>2, <3>2, FlightTaken
    <3>3. QED
      BY <3>1, <3>2
  <2>4. QED
    BY <2>1, <2>2, <2>3 DEF Stream!Next, Stream!Handles
<1>3. CASE CallStep /\ Breaks
  <2>1. queue = Flight /\ queue' = events
    BY <1>3 DEF Breaks
  <2>2. \E n \in 0..Len(queue) : queue' = SubSeq(queue, 1, n)
    BY <2>1, ChannelInFront
  <2>3. QED
    BY <1>3, <2>2 DEF Breaks, Over, Stream!Next, Stream!Breaks
<1>4. CASE (CallStep /\ Feeds) \/ Arrives
  <2>1. loop # "done" /\ loop' # "done" /\ UNCHANGED <<turns, bargeIns, conn, dialDone, fault>>
    BY <1>4 DEF Feeds, LoopPush, Arrives, ReadEvent, LoopRead, bridgeVars, evVars
  <2>2. Flight' = Flight
    BY <1>4, FlightMoves DEF CallStep, Feeds
  <2>3. QED
    BY <2>1, <2>2 DEF Stream!streamVars
<1>5. CASE CallStep /\ Aside
  <2>1. [Next]_vars /\ wire' = wire
    BY <1>5 DEF CallStep, Next
  <2>2. QED
    BY <1>1, <1>5, <2>1 DEF Aside, Flight
<1>6. CASE ServerStep
  <2>1. PICK k : Sends(k)
    BY <1>6, ServerSends
  <2>2. UNCHANGED <<events, loop, dialDone, fault, conn, turns, bargeIns>>
    BY <1>6 DEF ServerStep, vars, clientVars, evVars
  <2>3. CASE loop = "done"
    BY <2>2, <2>3 DEF Stream!streamVars
  <2>4. CASE loop # "done"
    BY <2>1, <2>2, <2>4 DEF Sends, Stream!Next, Stream!Sends
  <2>5. QED
    BY <2>3, <2>4
<1>7. CASE Dial \/ UNCHANGED liveVars
  BY <1>7 DEF Dial, liveVars, vars, clientVars, evVars, Flight, Stream!streamVars
<1>8. QED
  BY <1>2, <1>3, <1>4, <1>5, <1>6, <1>7, PipeStep DEF LiveNext, LiveFinished, CallStep

\* Wire, read loop and channel, each of them bounded or able to fail, amount
\* to one queue that keeps order and loses nothing until dialog or session
\* are over, and the handler records every event of it once
\* (client.go:135-172, bridge.go:232-330).
THEOREM LiveImplementsStream == LiveSpec => StreamSpec
<1>1. LiveInit => Stream!Init
  BY DEF LiveInit, Init, ClientInit, Flight, Stream!Init
<1>2. QED
  BY <1>1, StreamStep, PipesHold, LiveImplementsBridge, BridgeTypeOK, PTL
     DEF LiveSpec, StreamSpec, Stream!Spec
===========================================================================
