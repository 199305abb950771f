--------------------------- MODULE RealtimeClient ---------------------------
(***************************************************************************)
(* A configured Realtime client (internal/realtime/client.go): the         *)
(* websocket, the mutex that serialises its writers, the read loop and the *)
(* channel of decoded events it hands to the bridge.  The connection       *)
(* itself (github.com/coder/websocket) is external: it delivers messages   *)
(* in order, drops at any time, and gives up a read or a write whose       *)
(* context is cancelled.                                                   *)
(***************************************************************************)
EXTENDS Naturals, Sequences

CONSTANTS EventKinds,  \* the kinds of server event that may arrive
          ChanCap,     \* capacity of Client.events
          MaxEvents,   \* bound: events read in a behaviour
          Nobody       \* no writer holds writeMu, no event is held

Writers == {"up", "ev"}    \* AppendAudio's goroutine, CancelResponse's

ASSUME ClientAssumption ==
  /\ ChanCap \in Nat \ {0}
  /\ MaxEvents \in Nat
  /\ Nobody \notin EventKinds \union Writers

VARIABLES
  conn,      \* the websocket: "open" or "closed"
  writeMu,   \* the goroutine inside send's critical section, or Nobody
  loop,      \* readLoop: "read", "push" (blocked on the channel), "done"
  held,      \* the event readLoop has decoded and not yet pushed
  events,    \* Client.events; it is closed exactly when loop = "done"
  dialDone,  \* the context given to Dial (the SIP dialog's) is cancelled
  nread,     \* history: events read so far
  said,      \* history: the speakers of the transcripts among them
  fault      \* history: the session failed on its own, nobody hung up

clientVars == <<conn, writeMu, loop, held, events, dialDone, nread, said, fault>>

ClientTypeOK ==
  /\ conn \in {"open", "closed"}
  /\ writeMu \in Writers \union {Nobody}
  /\ loop \in {"read", "push", "done"}
  /\ held \in IF loop = "push" THEN EventKinds ELSE {Nobody}
  /\ events \in Seq(EventKinds) /\ Len(events) <= ChanCap
  /\ nread \in 0..MaxEvents
  /\ said \in Seq({"caller", "assistant"})

\* Dial has returned: the session is configured and readLoop is running.
ClientInit ==
  /\ conn = "open"
  /\ writeMu = Nobody
  /\ loop = "read" /\ held = Nobody
  /\ events = << >>
  /\ dialDone = FALSE
  /\ nread = 0 /\ said = << >>
  /\ fault = FALSE

---------------------------------------------------------------------------
\* readLoop: a message arrives and decodes to an event of kind k.
LoopRead(k) ==
  /\ loop = "read" /\ conn = "open" /\ nread < MaxEvents
  /\ held' = k
  /\ loop' = "push"
  /\ nread' = nread + 1
  /\ said' = CASE k = "inText"  -> Append(said, "caller")
              [] k = "outText" -> Append(said, "assistant")
              [] OTHER         -> said
  /\ UNCHANGED <<conn, writeMu, events, dialDone, fault>>

\* readLoop: the read fails because the connection is closed, or because the
\* dialog's context is cancelled, which makes the library close it.
LoopFails ==
  /\ loop = "read" /\ (conn = "closed" \/ dialDone)
  /\ loop' = "done"
  /\ conn' = "closed"
  /\ UNCHANGED <<writeMu, held, events, dialDone, nread, said, fault>>

\* readLoop: a message that is not JSON ends the loop; the connection stays.
LoopGarbled ==
  /\ loop = "read" /\ conn = "open"
  /\ loop' = "done"
  /\ fault' = TRUE
  /\ UNCHANGED <<conn, writeMu, held, events, dialDone, nread, said>>

\* A bug that drops an event the channel has no room for.
LoopPushOrDrop ==
  /\ loop = "push"
  /\ events' = IF Len(events) < ChanCap THEN Append(events, held) ELSE events
  /\ held' = Nobody
  /\ loop' = "read"
  /\ UNCHANGED <<conn, writeMu, dialDone, nread, said, fault>>

\* readLoop: the event goes into the channel when there is room.
LoopPush ==
  /\ loop = "push" /\ Len(events) < ChanCap
  /\ events' = Append(events, held)
  /\ held' = Nobody
  /\ loop' = "read"
  /\ UNCHANGED <<conn, writeMu, dialDone, nread, said, fault>>

\* A bug that looks at the context only when the channel has room.
LoopQuitsWithRoom ==
  /\ loop = "push" /\ dialDone /\ Len(events) < ChanCap
  /\ loop' = "done"
  /\ held' = Nobody
  /\ UNCHANGED <<conn, writeMu, events, dialDone, nread, said, fault>>

\* readLoop: blocked on the channel, only the dialog's context frees it.
LoopQuits ==
  /\ loop = "push" /\ dialDone
  /\ loop' = "done"
  /\ held' = Nobody
  /\ UNCHANGED <<conn, writeMu, events, dialDone, nread, said, fault>>

---------------------------------------------------------------------------
\* A bug that writes without taking the mutex.
LockIgnored(p) ==
  /\ writeMu' = p
  /\ UNCHANGED <<conn, loop, held, events, dialDone, nread, said, fault>>

\* send: writeMu.Lock.
Lock(p) ==
  /\ writeMu = Nobody
  /\ writeMu' = p
  /\ UNCHANGED <<conn, loop, held, events, dialDone, nread, said, fault>>

\* send: the message is on the wire and the mutex released.
WriteOk(p) ==
  /\ writeMu = p /\ conn = "open"
  /\ writeMu' = Nobody
  /\ UNCHANGED <<conn, loop, held, events, dialDone, nread, said, fault>>

\* A bug that unlocks only after a successful write.
WriteFailsLocked(p, cancelled) ==
  /\ writeMu = p
  /\ \/ conn = "closed" /\ conn' = conn
     \/ cancelled /\ conn' \in {conn, "closed"}
  /\ UNCHANGED <<writeMu, loop, held, events, dialDone, nread, said, fault>>

\* send: the write fails on a closed connection or a cancelled context; a
\* write interrupted half way makes the library close the connection.
WriteFails(p, cancelled) ==
  /\ writeMu = p
  /\ \/ conn = "closed" /\ conn' = conn
     \/ cancelled /\ conn' \in {conn, "closed"}
  /\ writeMu' = Nobody
  /\ UNCHANGED <<loop, held, events, dialDone, nread, said, fault>>

---------------------------------------------------------------------------
\* The network or the server ends the session.
ConnDrops ==
  /\ conn = "open"
  /\ conn' = "closed"
  /\ fault' = TRUE
  /\ UNCHANGED <<writeMu, loop, held, events, dialDone, nread, said>>

\* The SIP dialog ends (a BYE, or the process shutting down): its context,
\* which is also the one given to Dial, is cancelled.
DialogCancelled ==
  /\ ~dialDone
  /\ dialDone' = TRUE
  /\ UNCHANGED <<conn, writeMu, loop, held, events, nread, said, fault>>

\* Close: once, after the bridge is done with the client.
ClientClose ==
  /\ conn = "open"
  /\ conn' = "closed"
  /\ UNCHANGED <<writeMu, loop, held, events, dialDone, nread, said, fault>>
===========================================================================
