---------------------------- MODULE AudioBuffer ----------------------------
(***************************************************************************)
(* The audioBuffer of internal/bridge/ringbuffer.go as a component of its  *)
(* own: any interleaving of Write (model bursts), Take (RTP clock) and     *)
(* Reset (barge-in).  Len and Dropped only read.  A byte is its position   *)
(* in the stream of all bytes written, so that order, loss and duplication *)
(* are visible in the values.                                              *)
(***************************************************************************)
EXTENDS RingBuffer

CONSTANTS FrameSize,   \* len(dst) of every Take: bytes per RTP packet
          Capacities,  \* the caps newAudioBuffer may be called with
          MaxBurst,    \* bound: the longest Write
          MaxWritten   \* bound: the bytes written in a behaviour

ASSUME BufferAssumption ==
  /\ FrameSize \in Nat \ {0}
  /\ Capacities \subseteq Nat
  /\ MaxBurst \in Nat
  /\ MaxWritten \in Nat
  /\ Silence \in Int /\ Silence <= 0    \* no position is taken for silence

VARIABLES
  buf, max, dropped,   \* the fields of audioBuffer
  frame,               \* dst of the latest Take
  written,             \* history: bytes ever passed to Write
  taken, flushed       \* history: bytes that left through Take, through Reset

bufferVars == <<buf, max, dropped, frame, written, taken, flushed>>

Byte == Nat \ {0}

TypeOK ==
  /\ buf \in Seq(Byte)
  /\ max \in Capacities
  /\ dropped \in Nat
  /\ frame \in [1..FrameSize -> Byte \union {Silence}]
  /\ written \in Nat
  /\ taken \in Nat
  /\ flushed \in Nat

\* newAudioBuffer
Init ==
  /\ buf = << >>
  /\ max \in Capacities
  /\ dropped = 0
  /\ frame = [i \in 1..FrameSize |-> Silence]
  /\ written = 0
  /\ taken = 0
  /\ flushed = 0

\* The next n bytes of the stream.
Burst(n) == [i \in 1..n |-> written + i]

Write(n) ==
  /\ written + n <= MaxWritten
  /\ buf' = WriteBuf(buf, Burst(n), max)
  /\ dropped' = dropped + DroppedBy(buf, Burst(n), max)
  /\ written' = written + n
  /\ UNCHANGED <<max, frame, taken, flushed>>

Take ==
  /\ frame' = TakeFrame(buf, FrameSize)
  /\ buf' = TakeRest(buf, FrameSize)
  /\ taken' = taken + TakeCount(buf, FrameSize)
  /\ UNCHANGED <<max, dropped, written, flushed>>

Reset ==
  /\ buf' = ResetBuf(buf)
  /\ flushed' = flushed + Len(buf)
  /\ UNCHANGED <<max, dropped, frame, written, taken>>

Next == \/ \E n \in 0..MaxBurst : Write(n)
        \/ Take
        \/ Reset

Spec == Init /\ [][Next]_bufferVars

---------------------------------------------------------------------------
\* What is pending is always the newest audio, in order and without a gap:
\* a byte that was skipped or heard never comes back (Write, Take, Reset).
NewestInOrder ==
  \A i \in 1..Len(buf) : buf[i] = written - Len(buf) + i

\* The listener is never more than the cap behind the model, whatever the
\* size of the bursts (the bound Write enforces by dropping the oldest).
BoundedLatency == Len(buf) <= max

\* Every byte the model produced was heard, counted as dropped, flushed by a
\* barge-in, or is pending: the dropped counter misses and invents nothing.
NothingVanishes == written = taken + dropped + flushed + Len(buf)

\* Audio is only given up when keeping it would exceed the cap: after a
\* lossy Write the buffer is exactly full.
LossOnlyWhenFull == [][dropped' > dropped => Len(buf') = max]_bufferVars

\* The buffer implements the abstract stream of LossyFifo.
Fifo == INSTANCE LossyFifo
        WITH cap <- max, total <- written, next <- written - Len(buf) + 1
FifoSpec == Fifo!Spec
===========================================================================
