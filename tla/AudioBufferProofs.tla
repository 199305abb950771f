------------------------- MODULE AudioBufferProofs -------------------------
(***************************************************************************)
(* The pacing buffer for every cap, frame size, burst size and length of   *)
(* the stream: the invariants of AudioBuffer and its refinement of         *)
(* LossyFifo.                                                              *)
(***************************************************************************)
EXTENDS AudioBuffer, RingBufferTheorems

\* The conjunction is inductive: the order of the pending bytes needs their
\* number, and the number needs the order only through Write and Take.
BufferInv == TypeOK /\ NewestInOrder /\ BoundedLatency /\ NothingVanishes

LEMMA BurstType ==
  ASSUME TypeOK, NEW n \in 0..MaxBurst
  PROVE  /\ n \in Nat
         /\ Burst(n) \in Seq(Byte)
         /\ Len(Burst(n)) = n
         /\ \A i \in 1..n : Burst(n)[i] = written + i
<1>1. n \in Nat /\ written \in Nat
  BY BufferAssumption DEF TypeOK
<1>2. \A i \in 1..n : written + i \in Byte
  BY <1>1 DEF Byte
<1>3. Burst(n) \in [1..n -> Byte]
  BY <1>2 DEF Burst
<1>4. Burst(n) \in Seq(Byte)
  BY <1>1, <1>3, SeqDef
<1>5. QED
  BY <1>1, <1>3, <1>4, LenProperties DEF Burst

\* The buffer starts empty (newAudioBuffer).
LEMMA BufferInit == Init => BufferInv
<1> SUFFICES ASSUME Init PROVE BufferInv
  OBVIOUS
<1>1. TypeOK
  BY BufferAssumption, EmptySeq DEF Init, TypeOK
<1>2. Len(buf) = 0 /\ max \in Nat
  BY BufferAssumption, EmptySeq DEF Init
<1>3. QED
  BY <1>1, <1>2 DEF BufferInv, Init, NewestInOrder, BoundedLatency, NothingVanishes

\* Write keeps the newest bytes in order, under the cap, and counts the rest.
LEMMA WriteStep ==
  ASSUME BufferInv, NEW n \in 0..MaxBurst, Write(n)
  PROVE  BufferInv'
<1> USE DEF BufferInv
<1>1. /\ buf \in Seq(Byte) /\ Len(buf) \in Nat
      /\ written \in Nat /\ taken \in Nat /\ flushed \in Nat /\ dropped \in Nat
      /\ max \in Nat /\ max \in Capacities
  BY BufferAssumption, LenProperties DEF TypeOK
<1>2. /\ n \in Nat /\ Burst(n) \in Seq(Byte) /\ Len(Burst(n)) = n
      /\ \A i \in 1..n : Burst(n)[i] = written + i
  BY BurstType
<1> DEFINE d == DroppedBy(buf, Burst(n), max)
<1>3. /\ buf' \in Seq(Byte)
      /\ d \in Nat
      /\ d <= Len(buf) + n
      /\ Len(buf') = Len(buf) + n - d
      /\ Len(buf') <= max
  <2> DEFINE p == Burst(n)
  <2>1. p \in Seq(Byte) /\ Len(p) = n
    BY <1>2
  <2>2. buf' = WriteBuf(buf, p, max)
    BY DEF Write
  <2> HIDE DEF p
  <2>3. /\ WriteBuf(buf, p, max) \in Seq(Byte)
        /\ DroppedBy(buf, p, max) \in Nat
        /\ DroppedBy(buf, p, max) <= Len(buf) + Len(p)
        /\ Len(WriteBuf(buf, p, max)) = Len(buf) + Len(p) - DroppedBy(buf, p, max)
        /\ Len(WriteBuf(buf, p, max)) <= max
    BY <1>1, <2>1, WriteBufLength, ZenonT(60)
  <2>4. /\ buf' \in Seq(Byte)
        /\ DroppedBy(buf, p, max) \in Nat
        /\ DroppedBy(buf, p, max) <= Len(buf) + n
        /\ Len(buf') = Len(buf) + n - DroppedBy(buf, p, max)
        /\ Len(buf') <= max
    BY <2>1, <2>2, <2>3
  <2>5. QED
    BY <2>4 DEF p
<1>4. /\ dropped' = dropped + d
      /\ written' = written + n
      /\ max' = max /\ frame' = frame /\ taken' = taken /\ flushed' = flushed
  BY DEF Write
<1> HIDE DEF d
<1>5. TypeOK'
  BY <1>1, <1>2, <1>3, <1>4 DEF TypeOK
<1>6. NewestInOrder'
  <2> DEFINE all == buf \o Burst(n)
  <2>1. SUFFICES ASSUME NEW i \in 1..Len(buf')
        PROVE  buf'[i] = written' - Len(buf') + i
    BY DEF NewestInOrder
  <2>2. d + i \in 1..Len(all) /\ buf'[i] = all[d + i]
    BY <1>1, <1>2, WriteBufElement, SMTT(60) DEF Write, d
  <2>3. \A j \in 1..Len(all) : all[j] = written - Len(buf) + j
    <3>1. SUFFICES ASSUME NEW j \in 1..Len(all)
          PROVE  all[j] = written - Len(buf) + j
      OBVIOUS
    <3>2. /\ j \in 1..Len(buf) + n
          /\ all[j] = IF j <= Len(buf) THEN buf[j] ELSE Burst(n)[j - Len(buf)]
      BY <1>1, <1>2, ConcatProperties
    <3>3. CASE j <= Len(buf)
      <4>1. j \in 1..Len(buf)
        BY <1>1, <3>2, <3>3
      <4>2. QED
        BY <3>2, <3>3, <4>1 DEF NewestInOrder
    <3>4. CASE ~(j <= Len(buf))
      <4>1. j - Len(buf) \in 1..n
        BY <1>1, <1>2, <3>2, <3>4
      <4>2. QED
        BY <1>1, <1>2, <3>2, <3>4, <4>1
    <3>5. QED
      BY <3>3, <3>4
  <2> HIDE DEF all
  <2>4. buf'[i] = written - Len(buf) + (d + i)
    BY <2>2, <2>3
  <2>5. QED
    BY <1>1, <1>2, <1>3, <1>4, <2>4
<1>7. BoundedLatency'
  BY <1>3, <1>4 DEF BoundedLatency
<1>8. NothingVanishes'
  BY <1>1, <1>2, <1>3, <1>4 DEF NothingVanishes
<1>9. QED
  BY <1>5, <1>6, <1>7, <1>8

\* Take moves the oldest bytes to the frame and leaves the order alone.
LEMMA TakeStep ==
  ASSUME BufferInv, Take
  PROVE  BufferInv'
<1> USE DEF BufferInv
<1>1. /\ buf \in Seq(Byte) /\ Len(buf) \in Nat
      /\ written \in Nat /\ taken \in Nat /\ flushed \in Nat /\ dropped \in Nat
      /\ max \in Nat /\ FrameSize \in Nat
  BY BufferAssumption, LenProperties DEF TypeOK
<1> DEFINE n == TakeCount(buf, FrameSize)
<1>2. /\ n \in Nat /\ n <= Len(buf)
      /\ buf' \in Seq(Byte)
      /\ Len(buf') = Len(buf) - n
      /\ \A i \in 1..Len(buf') : buf'[i] = buf[n + i]
      /\ frame' \in [1..FrameSize -> Byte \union {Silence}]
  BY <1>1, TakeProperties DEF Take
<1>3. /\ taken' = taken + n
      /\ max' = max /\ dropped' = dropped /\ written' = written /\ flushed' = flushed
  BY DEF Take
<1> HIDE DEF n
<1>4. TypeOK'
  BY <1>1, <1>2, <1>3 DEF TypeOK
<1>5. NewestInOrder'
  <2>1. SUFFICES ASSUME NEW i \in 1..Len(buf')
        PROVE  buf'[i] = written' - Len(buf') + i
    BY DEF NewestInOrder
  <2>2. n + i \in 1..Len(buf)
    BY <1>1, <1>2
  <2>3. buf[n + i] = written - Len(buf) + (n + i)
    BY <2>2 DEF NewestInOrder
  <2>4. QED
    BY <1>1, <1>2, <1>3, <2>3
<1>6. BoundedLatency'
  BY <1>1, <1>2, <1>3 DEF BoundedLatency
<1>7. NothingVanishes'
  BY <1>1, <1>2, <1>3 DEF NothingVanishes
<1>8. QED
  BY <1>4, <1>5, <1>6, <1>7

\* Reset empties the buffer.
LEMMA ResetStep ==
  ASSUME BufferInv, Reset
  PROVE  BufferInv'
<1> USE DEF BufferInv
<1>1. /\ Len(buf) \in Nat /\ max \in Nat
      /\ written \in Nat /\ taken \in Nat /\ flushed \in Nat /\ dropped \in Nat
  BY BufferAssumption, LenProperties DEF TypeOK
<1>2. buf' \in Seq(Byte) /\ Len(buf') = 0
  BY EmptySeq DEF Reset, ResetBuf
<1>3. TypeOK'
  BY <1>1, <1>2 DEF TypeOK, Reset
<1>4. NewestInOrder' /\ BoundedLatency'
  BY <1>1, <1>2 DEF NewestInOrder, BoundedLatency, Reset
<1>5. NothingVanishes'
  BY <1>1, <1>2 DEF NothingVanishes, Reset
<1>6. QED
  BY <1>3, <1>4, <1>5

LEMMA BufferStutter ==
  ASSUME BufferInv, UNCHANGED bufferVars
  PROVE  BufferInv'
BY DEF BufferInv, bufferVars, TypeOK, NewestInOrder, BoundedLatency, NothingVanishes

\* The inductive invariant of the pacing buffer.
THEOREM BufferInvariant == Spec => []BufferInv
<1>1. BufferInv /\ [Next]_bufferVars => BufferInv'
  BY WriteStep, TakeStep, ResetStep, BufferStutter DEF Next
<1>2. QED
  BY <1>1, BufferInit, PTL DEF Spec

\* Types: every frame handed to the RTP clock is a full frame of audio bytes
\* and silence (ringbuffer.go:37-47).
THEOREM BufferTypeOK == Spec => []TypeOK
<1>1. BufferInv => TypeOK
  BY DEF BufferInv
<1>2. QED
  BY <1>1, BufferInvariant, PTL

\* What is pending is the newest audio in order (ringbuffer.go:20-32).
THEOREM BufferNewestInOrder == Spec => []NewestInOrder
<1>1. BufferInv => NewestInOrder
  BY DEF BufferInv
<1>2. QED
  BY <1>1, BufferInvariant, PTL

\* Latency stays bounded by the cap (ringbuffer.go:20-22).
THEOREM BufferBoundedLatency == Spec => []BoundedLatency
<1>1. BufferInv => BoundedLatency
  BY DEF BufferInv
<1>2. QED
  BY <1>1, BufferInvariant, PTL

\* The dropped counter accounts for every byte not heard, flushed or pending.
THEOREM BufferNothingVanishes == Spec => []NothingVanishes
<1>1. BufferInv => NothingVanishes
  BY DEF BufferInv
<1>2. QED
  BY <1>1, BufferInvariant, PTL

---------------------------------------------------------------------------
\* A write that loses audio leaves the buffer exactly full.
LEMMA WriteLoss ==
  ASSUME BufferInv, NEW n \in 0..MaxBurst, Write(n)
  PROVE  dropped' > dropped => Len(buf') = max
<1>1. buf \in Seq(Byte) /\ max \in Nat /\ dropped \in Nat
  BY BufferAssumption DEF BufferInv, TypeOK
<1> DEFINE p == Burst(n)
<1>2. p \in Seq(Byte)
  BY BurstType DEF BufferInv
<1>3. buf' = WriteBuf(buf, p, max) /\ dropped' = dropped + DroppedBy(buf, p, max)
  BY DEF Write
<1> HIDE DEF p
<1>4. /\ DroppedBy(buf, p, max) \in Nat
      /\ DroppedBy(buf, p, max) > 0 => Len(WriteBuf(buf, p, max)) = max
  BY <1>1, <1>2, WriteBufLength
<1>5. QED
  BY <1>1, <1>3, <1>4

\* Overflow discards no more than the cap requires (ringbuffer.go:27-30).
THEOREM BufferLossOnlyWhenFull == Spec => LossOnlyWhenFull
<1> DEFINE Lossy == dropped' > dropped => Len(buf') = max
<1>1. BufferInv /\ [Next]_bufferVars => [Lossy]_bufferVars
  <2> SUFFICES ASSUME BufferInv, [Next]_bufferVars
               PROVE  [Lossy]_bufferVars
    OBVIOUS
  <2>1. CASE \E n \in 0..MaxBurst : Write(n)
    BY <2>1, WriteLoss
  <2>2. CASE Take \/ Reset
    <3>1. dropped \in Nat /\ dropped' = dropped
      BY <2>2 DEF Take, Reset, BufferInv, TypeOK
    <3>2. QED
      BY <3>1
  <2>3. CASE UNCHANGED bufferVars
    BY <2>3
  <2>4. QED
    BY <2>1, <2>2, <2>3 DEF Next
<1>2. QED
  BY <1>1, BufferInvariant, PTL DEF Spec, LossOnlyWhenFull

---------------------------------------------------------------------------
\* The refinement of LossyFifo, one lemma per operation.
LEMMA FifoWrite ==
  ASSUME BufferInv, NEW n \in 0..MaxBurst, Write(n)
  PROVE  Fifo!Produce
<1>1. /\ buf \in Seq(Byte) /\ Len(buf) \in Nat
      /\ max \in Nat /\ written \in Nat
  BY BufferAssumption, LenProperties DEF BufferInv, TypeOK
<1> DEFINE p == Burst(n)
<1>2. n \in Nat /\ p \in Seq(Byte) /\ Len(p) = n
  BY BurstType DEF BufferInv
<1>3. /\ buf' = WriteBuf(buf, p, max)
      /\ written' = written + n /\ max' = max /\ frame' = frame
  BY DEF Write
<1> HIDE DEF p
<1>4. Len(WriteBuf(buf, p, max)) = Len(buf) + Len(p) - DroppedBy(buf, p, max)
  BY <1>1, <1>2, WriteBufLength, ZenonT(60)
<1>5. CASE Len(buf) + n > max
  <2>1. DroppedBy(buf, p, max) = Len(buf) + n - max
    <3>1. Len(buf) + Len(p) > max /\ Len(p) \in Nat
      BY <1>2, <1>5
    <3>2. DroppedBy(buf, p, max) = Len(buf) + Len(p) - max
      BY <1>1, <3>1 DEF DroppedBy, Overflow
    <3>3. QED
      BY <1>2, <3>2
  <2>2. Len(buf') = max
    BY <1>1, <1>2, <1>3, <1>4, <2>1
  <2>3. QED
    BY <1>1, <1>2, <1>3, <1>5, <2>2 DEF Fifo!Produce
<1>6. CASE ~(Len(buf) + n > max)
  <2>1. DroppedBy(buf, p, max) = 0
    BY <1>2, <1>6 DEF DroppedBy, Overflow
  <2>2. Len(buf') = Len(buf) + n
    BY <1>1, <1>2, <1>3, <1>4, <2>1
  <2>3. QED
    BY <1>1, <1>2, <1>3, <1>6, <2>2 DEF Fifo!Produce
<1>7. QED
  BY <1>5, <1>6

LEMMA FifoTake ==
  ASSUME BufferInv, Take
  PROVE  Fifo!Hear
<1>1. /\ buf \in Seq(Byte) /\ Len(buf) \in Nat
      /\ max \in Nat /\ written \in Nat /\ FrameSize \in Nat
  BY BufferAssumption, LenProperties DEF BufferInv, TypeOK
<1>2. /\ frame' = TakeFrame(buf, FrameSize)
      /\ buf' = TakeRest(buf, FrameSize)
      /\ written' = written /\ max' = max
  BY DEF Take
<1>3. Len(TakeRest(buf, FrameSize)) = Len(buf) - TakeCount(buf, FrameSize)
  BY <1>1, TakeProperties
<1>4. Fifo!Behind = Len(buf)
  BY <1>1 DEF Fifo!Behind
<1>5. \A i \in 1..FrameSize : i <= Len(buf) => buf[i] = written - Len(buf) + 1 + i - 1
  BY <1>1 DEF BufferInv, NewestInOrder
<1>6. frame' = [i \in 1..FrameSize |->
                  IF i <= Fifo!Behind THEN written - Len(buf) + 1 + i - 1 ELSE Silence]
  BY <1>2, <1>4, <1>5 DEF TakeFrame
<1>7. written' - Len(buf') + 1 = written - Len(buf) + 1
                + (IF Fifo!Behind < FrameSize THEN Fifo!Behind ELSE FrameSize)
  <2>1. TakeCount(buf, FrameSize)
          = IF Fifo!Behind < FrameSize THEN Fifo!Behind ELSE FrameSize
    BY <1>4 DEF TakeCount
  <2>2. TakeCount(buf, FrameSize) \in Nat
    BY <1>1, TakeProperties
  <2>3. Len(buf') = Len(buf) - TakeCount(buf, FrameSize)
    BY <1>2, <1>3
  <2>4. written' - Len(buf') + 1 = written - Len(buf) + 1 + TakeCount(buf, FrameSize)
    BY <1>1, <1>2, <2>2, <2>3
  <2>5. QED
    BY <2>1, <2>4
<1>8. QED
  BY <1>2, <1>6, <1>7 DEF Fifo!Hear

LEMMA FifoReset ==
  ASSUME BufferInv, Reset
  PROVE  Fifo!Flush
<1>1. Len(buf') = 0 /\ written \in Nat
  BY EmptySeq DEF Reset, ResetBuf, BufferInv, TypeOK
<1>2. QED
  BY <1>1 DEF Reset, Fifo!Flush

\* The pacing buffer implements the abstract stream: what the caller hears is
\* the model's audio in order, with gaps only where the cap or a barge-in
\* makes them (ringbuffer.go:20-55).
THEOREM BufferImplementsFifo == Spec => FifoSpec
<1>1. Init => Fifo!Init
  <2> SUFFICES ASSUME Init PROVE Fifo!Init
    OBVIOUS
  <2>1. Len(buf) = 0 /\ max \in Nat /\ written = 0
    BY BufferAssumption, EmptySeq DEF Init
  <2>2. QED
    BY <2>1 DEF Init, Fifo!Init
<1>2. BufferInv /\ [Next]_bufferVars => [Fifo!Next]_(Fifo!fifoVars)
  <2> SUFFICES ASSUME BufferInv, [Next]_bufferVars
               PROVE  [Fifo!Next]_(Fifo!fifoVars)
    OBVIOUS
  <2>1. CASE \E n \in 0..MaxBurst : Write(n)
    BY <2>1, FifoWrite DEF Fifo!Next
  <2>2. CASE Take
    BY <2>2, FifoTake DEF Fifo!Next
  <2>3. CASE Reset
    BY <2>3, FifoReset DEF Fifo!Next
  <2>4. CASE UNCHANGED bufferVars
    BY <2>4 DEF bufferVars, Fifo!fifoVars
  <2>5. QED
    BY <2>1, <2>2, <2>3, <2>4 DEF Next
<1>3. QED
  BY <1>1, <1>2, BufferInvariant, PTL DEF Spec, FifoSpec, Fifo!Spec
===========================================================================
