---------------------------- MODULE RingBuffer ----------------------------
(***************************************************************************)
(* The pacing buffer of internal/bridge/ringbuffer.go: a bounded FIFO of   *)
(* encoded audio bytes between the model, which emits audio in bursts, and *)
(* the RTP clock, which takes one frame every 20 ms.                       *)
(*                                                                         *)
(* Every method of audioBuffer holds its mutex from its first to its last  *)
(* line, so each is one atomic step and is modelled by what it does to the *)
(* sequence of pending bytes.  The modules that use the buffer (AudioBuffer*)
(* on its own, Bridge between two goroutines) hold the sequence in a       *)
(* variable.  A byte is any value; the silence byte is the value Silence.  *)
(***************************************************************************)
EXTENDS Integers, Sequences

CONSTANT Silence    \* the padding byte (bridge.go SilenceByte), no audio value

---------------------------------------------------------------------------
\* A bug that starts discarding when the buffer is exactly full.
OverflowOffByOne(len, max) == IF len >= max THEN len - max + 1 ELSE 0

\* How many bytes stand above the cap.
Overflow(len, max) == IF len > max THEN len - max ELSE 0

\* A bug that discards what has just arrived instead of what waited longest.
WriteDropsNewest(buf, p, max) ==
  SubSeq(buf \o p, 1, Len(buf) + Len(p) - Overflow(Len(buf) + Len(p), max))

\* A bug that appends without enforcing the cap.
WriteUncapped(buf, p, max) == buf \o p

\* Write: the pending bytes after p is appended; beyond the cap the oldest go.
WriteBuf(buf, p, max) ==
  SubSeq(buf \o p, Overflow(Len(buf) + Len(p), max) + 1, Len(buf) + Len(p))

\* A bug that counts the whole write as lost when the cap is exceeded.
DroppedWholeWrite(buf, p, max) ==
  IF Len(buf) + Len(p) > max THEN Len(p) ELSE 0

\* Write: by how much the counter of dropped bytes grows.
DroppedBy(buf, p, max) == Overflow(Len(buf) + Len(p), max)

\* Take's copy(dst, b.buf): the number of audio bytes moved into the frame.
TakeCount(buf, size) == IF Len(buf) < size THEN Len(buf) ELSE size

\* A bug that hands the RTP clock a short frame instead of padding it.
FrameUnpadded(buf, size) == SubSeq(buf, 1, TakeCount(buf, size))

\* A bug that pads the short frame in front of the audio.
FramePaddedInFront(buf, size) ==
  [i \in 1..size |-> IF i <= size - TakeCount(buf, size)
                     THEN Silence ELSE buf[i - (size - TakeCount(buf, size))]]

\* Take: the frame, filled with the oldest bytes and padded with silence.
TakeFrame(buf, size) ==
  [i \in 1..size |-> IF i <= Len(buf) THEN buf[i] ELSE Silence]

\* Take: the bytes that remain pending.
TakeRest(buf, size) == SubSeq(buf, TakeCount(buf, size) + 1, Len(buf))

\* A bug that leaves one frame of old audio behind.
ResetKeepsFirst(buf) == SubSeq(buf, 1, TakeCount(buf, 1))

\* Reset (barge-in): everything pending is discarded.
ResetBuf(buf) == << >>
===========================================================================
