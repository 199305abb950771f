------------------------ MODULE RingBufferTheorems ------------------------
(***************************************************************************)
(* What Write and Take do to the pending bytes, for buffers, bursts, caps  *)
(* and frame sizes of every length.  AudioBufferProofs and BridgeProofs    *)
(* reason about the buffer through these lemmas only.                      *)
(***************************************************************************)
EXTENDS RingBuffer, SequenceTheorems, TLAPS

\* Write (ringbuffer.go:23): the result is no longer than the cap allows, and
\* exactly full when bytes were dropped.
LEMMA WriteBufLength ==
  ASSUME NEW S, NEW buf \in Seq(S), NEW p \in Seq(S), NEW max \in Nat
  PROVE  /\ WriteBuf(buf, p, max) \in Seq(S)
         /\ DroppedBy(buf, p, max) \in Nat
         /\ DroppedBy(buf, p, max) <= Len(buf) + Len(p)
         /\ Len(WriteBuf(buf, p, max)) = Len(buf) + Len(p) - DroppedBy(buf, p, max)
         /\ Len(WriteBuf(buf, p, max)) <= max
         /\ DroppedBy(buf, p, max) > 0 => Len(WriteBuf(buf, p, max)) = max
<1> DEFINE all == buf \o p
           n   == Len(buf) + Len(p)
           d   == DroppedBy(buf, p, max)
<1>1. /\ Len(buf) \in Nat /\ Len(p) \in Nat
      /\ all \in Seq(S)
      /\ Len(all) = n
  BY ConcatProperties, LenProperties
<1>2. /\ d \in Nat /\ d <= n
      /\ n - d <= max
      /\ d > 0 => n - d = max
  BY <1>1 DEF DroppedBy, Overflow
<1>3. WriteBuf(buf, p, max) = SubSeq(all, d + 1, n)
  BY DEF WriteBuf, DroppedBy
<1>4. \A i \in d + 1 .. n : all[i] \in S
  BY <1>1, <1>2, ElementOfSeq
<1>5. n \in Int /\ d + 1 \in Int
  BY <1>1, <1>2
<1> HIDE DEF all, n, d
<1>6. /\ SubSeq(all, d + 1, n) \in Seq(S)
      /\ Len(SubSeq(all, d + 1, n)) = IF d + 1 <= n THEN n - (d + 1) + 1 ELSE 0
  BY <1>4, <1>5, SubSeqProperties
<1>7. Len(SubSeq(all, d + 1, n)) = n - d
  BY <1>2, <1>5, <1>6
<1>8. QED
  BY <1>2, <1>3, <1>6, <1>7 DEF n, d

\* Write: what remains is the end of the concatenation, in order.
LEMMA WriteBufElement ==
  ASSUME NEW S, NEW buf \in Seq(S), NEW p \in Seq(S), NEW max \in Nat,
         NEW i \in 1..Len(WriteBuf(buf, p, max))
  PROVE  /\ DroppedBy(buf, p, max) + i \in 1..Len(buf \o p)
         /\ WriteBuf(buf, p, max)[i] = (buf \o p)[DroppedBy(buf, p, max) + i]
<1>0. /\ DroppedBy(buf, p, max) \in Nat
      /\ DroppedBy(buf, p, max) <= Len(buf) + Len(p)
      /\ Len(WriteBuf(buf, p, max)) = Len(buf) + Len(p) - DroppedBy(buf, p, max)
  BY WriteBufLength
<1> DEFINE all == buf \o p
           n   == Len(buf) + Len(p)
           d   == DroppedBy(buf, p, max)
<1>1. all \in Seq(S) /\ Len(all) = n /\ n \in Nat
  BY ConcatProperties, LenProperties
<1>2. d \in Nat /\ d <= n /\ Len(WriteBuf(buf, p, max)) = n - d
  BY <1>0
<1>3. WriteBuf(buf, p, max) = SubSeq(all, d + 1, n)
  BY DEF WriteBuf, DroppedBy
<1>4. \A j \in d + 1 .. n : all[j] \in S
  BY <1>1, <1>2, ElementOfSeq
<1>5. n \in Int /\ d + 1 \in Int
  BY <1>1, <1>2
<1> HIDE DEF all, n, d
<1>6. \A j \in 1 .. n - (d + 1) + 1 : SubSeq(all, d + 1, n)[j] = all[d + 1 + j - 1]
  BY <1>4, <1>5, SubSeqProperties
<1>7. i \in 1 .. n - d
  BY <1>2
<1>8. /\ SubSeq(all, d + 1, n)[i] = all[d + i]
      /\ d + i \in 1 .. n
  BY <1>1, <1>2, <1>6, <1>7
<1>9. QED
  BY <1>1, <1>3, <1>8 DEF all, d

\* Take (ringbuffer.go:37): the oldest bytes leave, the rest keeps its order.
LEMMA TakeProperties ==
  ASSUME NEW S, NEW buf \in Seq(S), NEW size \in Nat
  PROVE  /\ TakeCount(buf, size) \in Nat
         /\ TakeCount(buf, size) <= size
         /\ TakeCount(buf, size) <= Len(buf)
         /\ TakeRest(buf, size) \in Seq(S)
         /\ Len(TakeRest(buf, size)) = Len(buf) - TakeCount(buf, size)
         /\ \A i \in 1..Len(TakeRest(buf, size)) :
              TakeRest(buf, size)[i] = buf[TakeCount(buf, size) + i]
         /\ TakeFrame(buf, size) \in [1..size -> S \union {Silence}]
<1> DEFINE n == TakeCount(buf, size)
<1>1. Len(buf) \in Nat
  BY LenProperties
<1>2. n \in Nat /\ n <= size /\ n <= Len(buf)
  BY <1>1 DEF TakeCount
<1>3. \A i \in n + 1 .. Len(buf) : buf[i] \in S
  BY <1>1, <1>2, ElementOfSeq
<1> HIDE DEF n
<1>4. /\ SubSeq(buf, n + 1, Len(buf)) \in Seq(S)
      /\ Len(SubSeq(buf, n + 1, Len(buf)))
           = IF n + 1 <= Len(buf) THEN Len(buf) - (n + 1) + 1 ELSE 0
      /\ \A i \in 1 .. Len(buf) - (n + 1) + 1 :
           SubSeq(buf, n + 1, Len(buf))[i] = buf[n + 1 + i - 1]
  <2>1. n + 1 \in Int /\ Len(buf) \in Int
    BY <1>1, <1>2
  <2>2. QED
    BY <1>3, <2>1, SubSeqProperties
<1>5. /\ Len(SubSeq(buf, n + 1, Len(buf))) = Len(buf) - n
      /\ \A i \in 1 .. Len(buf) - n : SubSeq(buf, n + 1, Len(buf))[i] = buf[n + i]
  BY <1>1, <1>2, <1>4
<1>6. TakeFrame(buf, size) \in [1..size -> S \union {Silence}]
  <2>1. \A i \in 1..size : i <= Len(buf) => buf[i] \in S
    BY <1>1, ElementOfSeq
  <2>2. QED
    BY <2>1 DEF TakeFrame
<1>7. QED
  BY <1>2, <1>4, <1>5, <1>6 DEF n, TakeRest
===========================================================================
