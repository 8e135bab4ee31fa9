---------------------------- MODULE FramingProofs ----------------------------
(***************************************************************************)
(* What a connection delivers, for every number of senders, all sizes of   *)
(* frames, buffers and reads, and every way the bytes are cut.             *)
(*                                                                         *)
(* The argument is about the bytes sent and not yet delivered, read or     *)
(* not.  They are consecutive: each is followed by the next one of its     *)
(* frame or the first one of the next frame, they begin where a frame      *)
(* does, after the frames delivered, and end where the sender that has the *)
(* lock goes on.  That decode_frames finds the same frames is by induction *)
(* on the places of the bytes ever read, from the last one back.           *)
(***************************************************************************)
EXTENDS Framing, Integers, SequenceTheorems, FiniteSetTheorems,
        WellFoundedInduction, TLAPS

Byte == Nat \X Nat

Stream == rbuf \o wire

\* The byte that follows b.
After(b) == IF b[2] < Size(sent[b[1]]) THEN <<b[1], b[2] + 1>>
                                       ELSE <<b[1] + 1, 1>>

\* The first byte that was not delivered, and the one that comes next after
\* those in the stream.
Undelivered == <<Len(delivered) + 1, 1>>
Tip == IF Stream = << >> THEN Undelivered ELSE After(Stream[Len(Stream)])

StreamTypeOK ==
    /\ sent \in Seq(Frames)
    /\ delivered \in Seq(Frames)
    /\ rbuf \in Seq(Byte)
    /\ wire \in Seq(Byte)
    /\ writing \in [Writers -> [frame : Nat, done : Nat]]
    /\ closed \in BOOLEAN

\* The bytes of the stream are bytes of frames sent, and consecutive.
Consecutive ==
    /\ \A k \in 1..Len(Stream) :
          /\ Stream[k][1] \in 1..Len(sent)
          /\ Stream[k][2] \in 1..Size(sent[Stream[k][1]])
    /\ Len(Stream) > 0 => Stream[1] = Undelivered
    /\ \A k \in 1..(Len(Stream) - 1) : Stream[k + 1] = After(Stream[k])

\* One sender at most writes, and it writes the last frame at the tip.
WritesAtTip ==
    ~closed =>
       /\ \A w \in Writers : writing[w] # Nothing =>
             /\ writing[w].frame = Len(sent)
             /\ Len(sent) > 0
             /\ writing[w].done < Size(sent[Len(sent)])
             /\ Tip = <<Len(sent), writing[w].done + 1>>
             /\ \A v \in Writers \ {w} : writing[v] = Nothing
       /\ WriteLockFree => Tip = <<Len(sent) + 1, 1>>

FramingInv == StreamTypeOK /\ Consecutive /\ WritesAtTip /\ DeliveredInOrder

-----------------------------------------------------------------------------
(* Bytes and frames. *)

\* Every frame has a size, and the largest size bounds it.
LEMMA SizeBounds ==
    ASSUME NEW f \in Frames
    PROVE  /\ Size(f) \in Nat
           /\ HeaderLen + CrcLen <= Size(f) /\ Size(f) <= LargestFrame
           /\ 1 <= HeaderLen /\ HeaderLen <= Size(f)
           /\ HeaderLen \in Nat /\ CrcLen \in Nat /\ LargestFrame \in Nat
           /\ f.defect \in Defect
BY FramingAssumption DEF Size, LargestFrame

\* Two sequences of bytes in a row, byte by byte.
LEMMA JoinedShape ==
    ASSUME NEW s \in Seq(Byte), NEW t \in Seq(Byte)
    PROVE  /\ s \o t \in Seq(Byte)
           /\ Len(s \o t) = Len(s) + Len(t)
           /\ Len(s) \in Nat /\ Len(t) \in Nat
           /\ \A k \in 1..Len(s) : (s \o t)[k] = s[k]
           /\ \A k \in 1..Len(t) : (s \o t)[Len(s) + k] = t[k]
           /\ s \o t = << >> <=> Len(s \o t) = 0
<1>1. Len(s) \in Nat /\ Len(t) \in Nat
  BY LenProperties
<1>2. /\ s \o t \in Seq(Byte)
      /\ Len(s \o t) = Len(s) + Len(t)
      /\ \A k \in 1..(Len(s) + Len(t)) :
            (s \o t)[k] = IF k <= Len(s) THEN s[k] ELSE t[k - Len(s)]
  BY ConcatProperties
<1>3. s \o t = << >> <=> Len(s \o t) = 0
  BY <1>2, EmptySeq
<1>4. ASSUME NEW k \in 1..Len(s) PROVE (s \o t)[k] = s[k]
  BY <1>1, <1>2
<1>5. ASSUME NEW k \in 1..Len(t) PROVE (s \o t)[Len(s) + k] = t[k]
  <2>1. /\ Len(s) + k \in 1..(Len(s) + Len(t))
        /\ ~(Len(s) + k <= Len(s))
        /\ Len(s) + k - Len(s) = k
    BY <1>1
  <2>. QED
    BY <1>2, <2>1
<1>. QED
  BY <1>1, <1>2, <1>3, <1>4, <1>5

\* The stream byte by byte.
LEMMA StreamShape ==
    ASSUME StreamTypeOK
    PROVE  /\ Stream \in Seq(Byte)
           /\ Len(Stream) = Len(rbuf) + Len(wire)
           /\ Len(rbuf) \in Nat /\ Len(wire) \in Nat
           /\ \A k \in 1..Len(rbuf) : Stream[k] = rbuf[k]
           /\ \A k \in 1..Len(wire) : Stream[Len(rbuf) + k] = wire[k]
           /\ Stream = << >> <=> Len(Stream) = 0
BY JoinedShape DEF StreamTypeOK, Stream

\* What is left of a sequence when its first k elements are dropped.
LEMMA DroppedShape ==
    ASSUME NEW s \in Seq(Byte), NEW k \in 0..Len(s)
    PROVE  /\ Dropped(s, k) \in Seq(Byte)
           /\ Len(Dropped(s, k)) = Len(s) - k
           /\ \A j \in 1..(Len(s) - k) : Dropped(s, k)[j] = s[k + j]
<1>1. Len(s) \in Nat /\ \A i \in (k + 1)..Len(s) : s[i] \in Byte
  BY LenProperties, ElementOfSeq
<1>. QED
  BY <1>1, SubSeqProperties DEF Dropped

\* It does not matter which of three pieces are put together first.
LEMMA Regrouped ==
    \A a, b, c \in Seq(Byte) : (a \o b) \o c = a \o (b \o c)
  BY ConcatAssociative, SMTT(20)

\* Bytes moved from one end of a buffer to another stay where they are in the
\* stream.
LEMMA MovedBytes ==
    ASSUME NEW s \in Seq(Byte), NEW t \in Seq(Byte), NEW k \in 0..Len(t)
    PROVE  /\ SubSeq(t, 1, k) \in Seq(Byte)
           /\ Len(SubSeq(t, 1, k)) = k
           /\ s \o SubSeq(t, 1, k) \in Seq(Byte)
           /\ Len(s \o SubSeq(t, 1, k)) = Len(s) + k
           /\ (s \o SubSeq(t, 1, k)) \o Dropped(t, k) = s \o t
<1>1. Len(t) \in Nat /\ Len(s) \in Nat
  BY LenProperties
<1>2. \A i \in 1..k : t[i] \in Byte
  BY <1>1, ElementOfSeq
<1>3. SubSeq(t, 1, k) \in Seq(Byte) /\ Len(SubSeq(t, 1, k)) = k
  BY <1>1, <1>2, SubSeqProperties
<1>4. Dropped(t, k) \in Seq(Byte)
  BY DroppedShape
<1>5. SubSeq(t, 1, k) \o Dropped(t, k) = t
  <2>1. /\ 1 \in 1..(Len(t) + 1)
        /\ k \in (1 - 1)..Len(t)
        /\ Len(t) \in k..Len(t)
    BY <1>1
  <2>2. SubSeq(t, 1, k) \o SubSeq(t, k + 1, Len(t)) = SubSeq(t, 1, Len(t))
    BY <2>1, ConcatAdjacentSubSeq
  <2>. QED
    BY <2>2, SubSeqFull DEF Dropped
<1>6. (s \o SubSeq(t, 1, k)) \o Dropped(t, k)
         = s \o (SubSeq(t, 1, k) \o Dropped(t, k))
  BY <1>3, <1>4, Regrouped, Zenon
<1>7. /\ s \o SubSeq(t, 1, k) \in Seq(Byte)
      /\ Len(s \o SubSeq(t, 1, k)) = Len(s) + k
  BY <1>3, ConcatProperties
<1>8. (s \o SubSeq(t, 1, k)) \o Dropped(t, k) = s \o t
  BY <1>5, <1>6, Zenon
<1>. QED
  BY <1>3, <1>7, <1>8

-----------------------------------------------------------------------------
(* The operations of the sending side. *)

\* A frame that is announced begins at the tip.
LEMMA SendBeginKeeps ==
    ASSUME FramingInv, NEW w \in Writers, NEW f \in Frames, SendBegin(w, f)
    PROVE  FramingInv'
<1>. DEFINE n == Len(sent)
<1>1. /\ sent' = Append(sent, f)
      /\ writing' = [writing EXCEPT ![w] = [frame |-> n + 1, done |-> 0]]
      /\ ~closed /\ closed' = closed /\ wire' = wire /\ rbuf' = rbuf
      /\ delivered' = delivered
      /\ \A v \in Writers : writing[v] = Nothing
      /\ StreamTypeOK /\ Consecutive /\ WritesAtTip /\ DeliveredInOrder
  BY DEF SendBegin, FramingInv, WriteLockFree
<1>2. /\ n \in Nat
      /\ sent' \in Seq(Frames) /\ Len(sent') = n + 1
      /\ \A m \in 1..n : sent'[m] = sent[m]
      /\ sent'[n + 1] = f
  BY <1>1, LenProperties, AppendProperties DEF StreamTypeOK
<1>3. Stream' = Stream /\ Undelivered' = Undelivered
  BY <1>1 DEF Stream, Undelivered
<1>4. StreamTypeOK'
  BY <1>1, <1>2 DEF StreamTypeOK
<1>5. \A k \in 1..Len(Stream) : After(Stream[k])' = After(Stream[k])
  BY <1>1, <1>2, <1>3 DEF Consecutive, After, Size
<1>6. Consecutive'
  <2>1. ASSUME NEW k \in 1..Len(Stream)
        PROVE  /\ Stream[k][1] \in 1..Len(sent')
               /\ Stream[k][2] \in 1..Size(sent'[Stream[k][1]])
    BY <1>1, <1>2 DEF Consecutive
  <2>2. Len(Stream) \in Nat
    BY <1>1, StreamShape
  <2>3. ASSUME NEW k \in 1..(Len(Stream) - 1)
        PROVE  Stream'[k + 1] = After(Stream[k])'
    BY <1>1, <1>3, <1>5, <2>2 DEF Consecutive
  <2>. QED
    BY <1>1, <1>3, <2>1, <2>3 DEF Consecutive
<1>7. Tip' = <<n + 1, 1>>
  <2>1. Tip = <<n + 1, 1>>
    BY <1>1 DEF WritesAtTip, WriteLockFree
  <2>2. Stream # << >> => Len(Stream) \in 1..Len(Stream)
    BY <1>1, StreamShape
  <2>. QED
    BY <1>3, <1>5, <2>1, <2>2 DEF Tip
<1>8. WritesAtTip'
  <2>1. /\ Size(f) > 0 /\ writing'[w] = [frame |-> n + 1, done |-> 0]
        /\ \A v \in Writers \ {w} : writing'[v] = Nothing
    BY <1>1, SizeBounds DEF StreamTypeOK
  <2>2. writing'[w] # Nothing
    BY <1>2, <2>1 DEF Nothing
  <2>3. Size(sent'[Len(sent')]) = Size(f)
    BY <1>2
  <2>. QED
    BY <1>2, <1>7, <2>1, <2>2, <2>3 DEF WritesAtTip, WriteLockFree
<1>9. DeliveredInOrder'
  BY <1>1, <1>2, LenProperties DEF DeliveredInOrder, StreamTypeOK
<1>. QED
  BY <1>4, <1>6, <1>8, <1>9 DEF FramingInv

\* The bytes a sender adds are the ones that come next.
LEMMA SendSomeKeeps ==
    ASSUME FramingInv, NEW w \in Writers, NEW k \in 1..WireCapacity,
           SendSome(w, k)
    PROVE  FramingInv'
<1>. DEFINE n == writing[w].frame
            done == writing[w].done
            added == Bytes(n, done, done + k)
            L == Len(Stream)
<1>1. /\ ~closed /\ n # 0 /\ done + k <= Size(sent[n])
      /\ wire' = wire \o added
      /\ writing' = [writing EXCEPT ![w] =
                        IF done + k = Size(sent[n]) THEN Nothing
                        ELSE [frame |-> n, done |-> done + k]]
      /\ sent' = sent /\ closed' = closed /\ rbuf' = rbuf
      /\ delivered' = delivered
      /\ StreamTypeOK /\ Consecutive /\ WritesAtTip /\ DeliveredInOrder
  BY DEF SendSome, FramingInv
<1>2. /\ k \in Nat /\ k > 0 /\ n \in Nat /\ done \in Nat
  BY <1>1, FramingAssumption DEF StreamTypeOK
<1>3. /\ n = Len(sent) /\ Len(sent) > 0
      /\ Tip = <<n, done + 1>>
      /\ \A v \in Writers \ {w} : writing[v] = Nothing
  <2>1. writing[w] # Nothing
    BY <1>1 DEF Nothing
  <2>. QED
    BY <1>1, <2>1 DEF WritesAtTip
<1>4. n \in 1..Len(sent) /\ Size(sent[n]) \in Nat
  BY <1>1, <1>2, <1>3, SizeBounds, ElementOfSeq DEF StreamTypeOK
<1>5. /\ added \in Seq(Byte) /\ Len(added) = k
      /\ \A j \in 1..k : added[j] = <<n, done + j>>
  <2>1. /\ added = [j \in 1..k |-> <<n, done + j>>]
        /\ \A j \in 1..k : <<n, done + j>> \in Byte
    BY <1>2 DEF Bytes, Byte
  <2>. QED
    BY <1>2, <2>1
<1>6. /\ wire' \in Seq(Byte) /\ Stream \in Seq(Byte) /\ L \in Nat
      /\ Stream' = Stream \o added
      /\ L = 0 <=> Stream = << >>
  <2>1. rbuf \in Seq(Byte) /\ wire \in Seq(Byte)
    BY <1>1 DEF StreamTypeOK
  <2>2. Stream' = Stream \o added
    BY <1>1, <1>5, <2>1, Regrouped, Zenon DEF Stream
  <2>3. wire' \in Seq(Byte)
    BY <1>1, <1>5, <2>1, ConcatProperties
  <2>. QED
    BY <1>1, <2>2, <2>3, StreamShape
<1>7. /\ Stream' \in Seq(Byte) /\ Len(Stream') = L + k
      /\ \A j \in 1..L : Stream'[j] = Stream[j]
      /\ \A j \in 1..k : Stream'[L + j] = <<n, done + j>>
  <2>. HIDE DEF added
  <2>1. /\ Stream' \in Seq(Byte) /\ Len(Stream') = L + k
        /\ \A j \in 1..(L + k) :
              Stream'[j] = IF j <= L THEN Stream[j] ELSE added[j - L]
    BY <1>5, <1>6, ConcatProperties
  <2>2. ASSUME NEW j \in 1..k PROVE Stream'[L + j] = <<n, done + j>>
    <3>1. L + j \in 1..(L + k) /\ ~(L + j <= L) /\ L + j - L = j
      BY <1>2, <1>6
    <3>. QED
      BY <1>5, <2>1, <3>1
  <2>3. ASSUME NEW j \in 1..L PROVE Stream'[j] = Stream[j]
    BY <1>2, <1>6, <2>1
  <2>. QED
    BY <2>1, <2>2, <2>3
<1>. HIDE DEF added, L
<1>nat. L \in Nat /\ k \in Nat /\ k > 0 /\ n \in Nat /\ done \in Nat
  BY <1>2, <1>6
<1>8. StreamTypeOK'
  <2>1. writing' \in [Writers -> [frame : Nat, done : Nat]]
    BY <1>1, <1>2 DEF StreamTypeOK, Nothing
  <2>. QED
    BY <1>1, <1>6, <2>1 DEF StreamTypeOK
<1>9. /\ Undelivered' = Undelivered
      /\ \A b : After(b)' = After(b)
  BY <1>1 DEF Undelivered, After
<1>10. \A j \in 1..(L + k) : j \in 1..L \/ (j - L \in 1..k /\ j = L + (j - L))
  BY <1>2, <1>6
<1>11. Consecutive'
  <2>1. ASSUME NEW j \in 1..(L + k)
        PROVE  /\ Stream'[j][1] \in 1..Len(sent)
               /\ Stream'[j][2] \in 1..Size(sent[Stream'[j][1]])
    <3>1. CASE j \in 1..L
      BY <1>1, <1>7, <3>1 DEF Consecutive, L
    <3>2. CASE j - L \in 1..k /\ j = L + (j - L)
      <4>1. Stream'[j] = <<n, done + (j - L)>>
        BY <1>7, <3>2
      <4>2. done + (j - L) \in 1..Size(sent[n])
        BY <1>1, <1>2, <1>4, <3>2
      <4>. QED
        BY <1>4, <4>1, <4>2
    <3>. QED
      BY <1>10, <3>1, <3>2
  <2>2. Stream'[1] = Undelivered
    <3>1. CASE L = 0
      <4>1. Stream'[1] = <<n, done + 1>>
        BY <1>2, <1>7, <3>1
      <4>. QED
        BY <1>3, <1>6, <3>1, <4>1 DEF Tip
    <3>2. CASE L > 0
      <4>1. 1 \in 1..L /\ Stream[1] = Undelivered
        BY <1>1, <1>6, <3>2 DEF Consecutive, L
      <4>. QED
        BY <1>7, <4>1
    <3>3. L = 0 \/ L > 0
      BY <1>nat
    <3>. QED
      BY <3>1, <3>2, <3>3
  <2>3. ASSUME NEW j \in 1..(L + k - 1)
        PROVE  Stream'[j + 1] = After(Stream'[j])
    <3>1. CASE j < L
      <4>1. j \in 1..L /\ j + 1 \in 1..L /\ j \in 1..(L - 1)
        BY <1>6, <3>1
      <4>. QED
        BY <1>1, <1>7, <4>1 DEF Consecutive, L
    <3>2. CASE j = L
      <4>1. Stream'[j + 1] = <<n, done + 1>>
        BY <1>2, <1>7, <3>2
      <4>2. L \in 1..L /\ Stream # << >>
        BY <1>6, <3>2
      <4>. QED
        BY <1>3, <1>7, <3>2, <4>1, <4>2 DEF Tip, L
    <3>3. CASE j > L
      <4>0. j \in Nat /\ j < L + k
        BY <1>nat
      <4>1. /\ j - L \in 1..k /\ j = L + (j - L)
            /\ (j - L) + 1 \in 1..k /\ j + 1 = L + ((j - L) + 1)
            /\ done + (j - L) < Size(sent[n])
            /\ done + ((j - L) + 1) = (done + (j - L)) + 1
        <5>1. done + k <= Size(sent[n]) /\ Size(sent[n]) \in Nat
          BY <1>1, <1>4
        <5>. QED
          BY <1>nat, <3>3, <4>0, <5>1
      <4>2. /\ Stream'[j] = <<n, done + (j - L)>>
            /\ Stream'[j + 1] = <<n, (done + (j - L)) + 1>>
        BY <1>7, <4>1
      <4>. QED
        BY <4>1, <4>2 DEF After
    <3>4. j < L \/ j = L \/ j > L
      BY <1>nat
    <3>. QED
      BY <3>1, <3>2, <3>3, <3>4
  <2>5. \A j \in 1..Len(Stream') :
           /\ Stream'[j][1] \in 1..Len(sent')
           /\ Stream'[j][2] \in 1..Size(sent'[Stream'[j][1]])
    BY <1>1, <1>7, <2>1
  <2>6. Len(Stream') > 0 => Stream'[1] = Undelivered'
    BY <1>9, <2>2
  <2>7. \A j \in 1..(Len(Stream') - 1) : Stream'[j + 1] = After(Stream'[j])
    <3>1. Len(Stream') = L + k
      BY <1>7
    <3>2. ASSUME NEW j \in 1..(Len(Stream') - 1)
          PROVE  Stream'[j + 1] = After(Stream'[j])
      <4>1. j \in 1..(L + k - 1)
        BY <1>nat, <3>1
      <4>. QED
        BY <2>3, <4>1
    <3>. QED
      BY <3>2
  <2>. QED
    BY <1>1, <2>5, <2>6, <2>7 DEF Consecutive, After
<1>12. Tip' = IF done + k = Size(sent[n]) THEN <<n + 1, 1>>
              ELSE <<n, done + k + 1>>
  <2>1. k \in 1..k /\ L + k > 0
    BY <1>nat
  <2>2. /\ Stream'[L + k] = <<n, done + k>>
        /\ Len(Stream') = L + k
        /\ Stream' # << >>
    BY <1>7, <2>1, EmptySeq
  <2>3. Tip' = After(<<n, done + k>>)
    BY <1>1, <2>2 DEF Tip, After
  <2>4. /\ done + k \in Nat
        /\ done + k < Size(sent[n]) <=> done + k # Size(sent[n])
    BY <1>1, <1>nat, <1>4
  <2>5. After(<<n, done + k>>) = IF done + k < Size(sent[n])
                                 THEN <<n, done + k + 1>> ELSE <<n + 1, 1>>
    BY DEF After
  <2>. QED
    BY <2>3, <2>4, <2>5, Zenon
<1>13. WritesAtTip'
  <2>1. /\ writing'[w] = IF done + k = Size(sent[n]) THEN Nothing
                         ELSE [frame |-> n, done |-> done + k]
        /\ \A v \in Writers \ {w} : writing'[v] = Nothing
    BY <1>1, <1>3 DEF StreamTypeOK
  <2>2. CASE done + k = Size(sent[n])
    <3>1. \A v \in Writers : writing'[v] = Nothing
      BY <2>1, <2>2
    <3>. QED
      BY <1>1, <1>3, <1>12, <2>2, <3>1 DEF WritesAtTip, WriteLockFree
  <2>3. CASE done + k # Size(sent[n])
    <3>0. writing'[w] = [frame |-> n, done |-> done + k]
      BY <2>1, <2>3
    <3>1. /\ writing'[w].frame = n /\ writing'[w].done = done + k
          /\ writing'[w] # Nothing
          /\ done + k < Size(sent[n])
      <4>1. done + k < Size(sent[n])
        BY <1>1, <1>nat, <1>4, <2>3
      <4>2. Nothing.frame = 0
        BY DEF Nothing
      <4>. QED
        BY <1>1, <3>0, <4>1, <4>2
    <3>2. Tip' = <<n, writing'[w].done + 1>>
      BY <1>12, <2>3, <3>1
    <3>. QED
      BY <1>1, <1>3, <2>1, <3>1, <3>2 DEF WritesAtTip, WriteLockFree
  <2>. QED
    BY <2>2, <2>3
<1>14. DeliveredInOrder'
  BY <1>1 DEF DeliveredInOrder
<1>. QED
  BY <1>8, <1>11, <1>13, <1>14 DEF FramingInv

\* What arrives of a frame in the middle of which the sender stopped stays
\* consecutive, and nothing follows it.
LEMMA CloseKeeps ==
    ASSUME FramingInv, Close
    PROVE  FramingInv'
<1>1. /\ closed' = TRUE
      /\ writing' = [w \in Writers |-> Nothing]
      /\ sent' = sent /\ wire' = wire /\ rbuf' = rbuf
      /\ delivered' = delivered
  BY DEF Close
<1>2. StreamTypeOK'
  BY <1>1 DEF FramingInv, StreamTypeOK, Nothing
<1>3. Consecutive'
  BY <1>1 DEF FramingInv, Consecutive, Stream, Undelivered, After
<1>4. WritesAtTip' /\ DeliveredInOrder'
  BY <1>1 DEF FramingInv, WritesAtTip, DeliveredInOrder
<1>. QED
  BY <1>2, <1>3, <1>4 DEF FramingInv

-----------------------------------------------------------------------------
(* The operations of the receiving side. *)

\* The buffer begins with the frame that is to be delivered next.
LEMMA BufferHead ==
    ASSUME FramingInv, Len(rbuf) > 0
    PROVE  /\ rbuf[1] = Undelivered
           /\ Len(delivered) + 1 \in 1..Len(sent)
           /\ First(rbuf) = sent[Len(delivered) + 1]
           /\ First(rbuf) \in Frames
<1>1. /\ StreamTypeOK /\ Consecutive
      /\ sent \in Seq(Frames)
  BY DEF FramingInv, StreamTypeOK
<1>2. 1 \in 1..Len(rbuf) /\ 1 \in 1..Len(Stream) /\ Len(Stream) > 0
  BY <1>1, StreamShape
<1>3. rbuf[1] = Stream[1] /\ Stream[1] = Undelivered
  BY <1>1, <1>2, StreamShape DEF Consecutive
<1>4. Undelivered[1] = Len(delivered) + 1
  BY DEF Undelivered
<1>5. Len(delivered) + 1 \in 1..Len(sent)
  BY <1>1, <1>2, <1>3, <1>4 DEF Consecutive
<1>. QED
  BY <1>1, <1>3, <1>4, <1>5, ElementOfSeq DEF First

\* What each verdict says of the buffer.
LEMMA VerdictMeans ==
    ASSUME FramingInv
    PROVE  /\ Verdict(rbuf) = "frame" =>
                 /\ Len(rbuf) > 0
                 /\ First(rbuf).defect = "none"
                 /\ Size(First(rbuf)) <= Len(rbuf)
                 /\ Whole(rbuf, Size(First(rbuf)))
           /\ Verdict(rbuf) = "more" /\ Len(rbuf) > 0 =>
                 Len(rbuf) < Size(First(rbuf))
<1>1. Len(rbuf) \in Nat
  BY LenProperties DEF FramingInv, StreamTypeOK
<1>2. CASE Len(rbuf) < HeaderLen
  <2>1. Verdict(rbuf) = "more"
    BY <1>1, <1>2, FramingAssumption DEF Verdict
  <2>2. Len(rbuf) > 0 => Len(rbuf) < Size(First(rbuf))
    BY <1>1, <1>2, BufferHead, SizeBounds
  <2>. QED
    BY <2>1, <2>2
<1>3. CASE Len(rbuf) >= HeaderLen
  <2>1. Len(rbuf) > 0
    BY <1>1, <1>3, FramingAssumption
  <2>2. /\ First(rbuf).defect \in Defect
        /\ Size(First(rbuf)) \in Nat
    BY <2>1, BufferHead, SizeBounds
  <2>3. ~(Len(rbuf) < HeaderLen)
    BY <1>1, <1>3, FramingAssumption
  <2>4. Verdict(rbuf) = "frame" =>
           /\ First(rbuf).defect = "none"
           /\ Len(rbuf) >= Size(First(rbuf))
           /\ Whole(rbuf, Size(First(rbuf)))
    BY <1>3, <2>2, <2>3 DEF Verdict, Defect, Enough
  <2>5. Verdict(rbuf) = "more" => ~(Len(rbuf) >= Size(First(rbuf)))
    BY <1>3, <2>2, <2>3 DEF Verdict, Defect, Enough
  <2>. QED
    BY <1>1, <2>1, <2>2, <2>4, <2>5
<1>. QED
  BY <1>1, <1>2, <1>3, FramingAssumption

\* A frame that is delivered leaves the next one at the head.
LEMMA DeliverKeeps ==
    ASSUME FramingInv, Deliver
    PROVE  FramingInv'
<1>. DEFINE n == Len(delivered) + 1
            f == First(rbuf)
            z == Size(f)
            L == Len(Stream)
<1>1. /\ Verdict(rbuf) = "frame"
      /\ delivered' = Append(delivered, f)
      /\ rbuf' = Dropped(rbuf, z)
      /\ sent' = sent /\ writing' = writing /\ closed' = closed
      /\ wire' = wire
      /\ StreamTypeOK /\ Consecutive /\ WritesAtTip /\ DeliveredInOrder
  BY DEF Deliver, FramingInv
<1>2. /\ Len(rbuf) > 0 /\ f.defect = "none" /\ z <= Len(rbuf)
      /\ \A j \in 1..z : rbuf[j] = <<rbuf[1][1], j>>
  BY <1>1, VerdictMeans DEF Whole
<1>3. /\ rbuf[1] = <<n, 1>> /\ n \in 1..Len(sent) /\ f = sent[n]
      /\ f \in Frames
  BY <1>2, BufferHead DEF Undelivered
<1>4. z \in Nat /\ z > 0 /\ z \in 1..z
  BY <1>3, SizeBounds
<1>5. rbuf[z] = <<n, z>>
  BY <1>2, <1>3, <1>4
<1>6. /\ Len(delivered) \in Nat
      /\ delivered' \in Seq(Frames) /\ Len(delivered') = n
      /\ \A m \in 1..Len(delivered) : delivered'[m] = delivered[m]
      /\ delivered'[n] = f
      /\ Undelivered' = <<n + 1, 1>>
  BY <1>1, <1>3, LenProperties, AppendProperties DEF StreamTypeOK, Undelivered
<1>7. /\ Len(rbuf) \in Nat /\ Len(wire) \in Nat
      /\ L = Len(rbuf) + Len(wire)
      /\ rbuf \in Seq(Byte) /\ wire \in Seq(Byte)
      /\ z \in 0..Len(rbuf)
  BY <1>1, <1>2, <1>4, StreamShape DEF StreamTypeOK
<1>8. /\ rbuf' \in Seq(Byte) /\ Len(rbuf') = Len(rbuf) - z
      /\ \A j \in 1..(Len(rbuf) - z) : rbuf'[j] = rbuf[z + j]
  BY <1>1, <1>7, DroppedShape
<1>9. StreamTypeOK'
  BY <1>1, <1>6, <1>8 DEF StreamTypeOK
<1>next. /\ Stream' \in Seq(Byte)
         /\ Len(Stream') = Len(rbuf') + Len(wire')
         /\ \A k \in 1..Len(rbuf') : Stream'[k] = rbuf'[k]
         /\ \A k \in 1..Len(wire') : Stream'[Len(rbuf') + k] = wire'[k]
         /\ Stream' = << >> <=> Len(Stream') = 0
  <2>1. Stream' = rbuf' \o wire'
    BY DEF Stream
  <2>2. rbuf' \in Seq(Byte) /\ wire' \in Seq(Byte)
    BY <1>1, <1>7, <1>8
  <2>. QED
    BY <2>1, <2>2, JoinedShape
<1>10. /\ Len(Stream') = L - z /\ L - z \in Nat /\ L \in Nat
       /\ Stream' = << >> <=> Len(Stream') = 0
       /\ Stream = << >> <=> L = 0
  <2>1. Stream = << >> <=> L = 0
    BY <1>1, StreamShape
  <2>. QED
    BY <1>1, <1>4, <1>7, <1>8, <1>next, <2>1
<1>11. ASSUME NEW j \in 1..(L - z) PROVE Stream'[j] = Stream[z + j]
  <2>1. CASE j <= Len(rbuf) - z
    <3>1. /\ j \in 1..Len(rbuf') /\ z + j \in 1..Len(rbuf)
          /\ j \in 1..(Len(rbuf) - z)
      BY <1>4, <1>7, <1>8, <1>10, <2>1
    <3>2. Stream'[j] = rbuf'[j]
      BY <1>next, <3>1
    <3>3. Stream[z + j] = rbuf[z + j]
      BY <1>1, <3>1, StreamShape
    <3>. QED
      BY <1>8, <3>1, <3>2, <3>3
  <2>2. CASE j > Len(rbuf) - z
    <3>. DEFINE m == j - (Len(rbuf) - z)
    <3>1. /\ m \in 1..Len(wire)
          /\ j = Len(rbuf') + m /\ z + j = Len(rbuf) + m
      BY <1>4, <1>7, <1>8, <1>10, <2>2
    <3>. HIDE DEF m
    <3>2. Stream'[Len(rbuf') + m] = wire'[m]
      BY <1>1, <1>next, <3>1
    <3>3. Stream[Len(rbuf) + m] = wire[m]
      BY <1>1, <3>1, StreamShape
    <3>. QED
      BY <1>1, <3>1, <3>2, <3>3
  <2>3. j <= Len(rbuf) - z \/ j > Len(rbuf) - z
    BY <1>4, <1>7, <1>10
  <2>. QED
    BY <2>1, <2>2, <2>3
<1>12. After(Stream[z]) = <<n + 1, 1>> /\ Stream[z] = <<n, z>>
  <2>1. Stream[z] = <<n, z>>
    BY <1>1, <1>4, <1>5, <1>7, StreamShape
  <2>. QED
    BY <1>3, <1>4, <2>1 DEF After
<1>. HIDE DEF L, z, f
<1>13. Consecutive'
  <2>1. ASSUME NEW j \in 1..(L - z)
        PROVE  /\ Stream'[j][1] \in 1..Len(sent)
               /\ Stream'[j][2] \in 1..Size(sent[Stream'[j][1]])
    <3>1. z + j \in 1..L
      BY <1>4, <1>10
    <3>. QED
      BY <1>1, <1>11, <3>1 DEF Consecutive, L
  <2>2. L - z > 0 => Stream'[1] = Undelivered'
    <3>1. ASSUME L - z > 0
          PROVE  1 \in 1..(L - z) /\ z \in 1..(L - 1)
      BY <1>4, <1>10, <3>1
    <3>. QED
      BY <1>1, <1>6, <1>11, <1>12, <3>1 DEF Consecutive, L
  <2>3. ASSUME NEW j \in 1..(L - z - 1)
        PROVE  Stream'[j + 1] = After(Stream'[j])
    <3>1. /\ j \in 1..(L - z) /\ j + 1 \in 1..(L - z)
          /\ z + j \in 1..(L - 1) /\ z + (j + 1) = (z + j) + 1
      BY <1>4, <1>10
    <3>. QED
      BY <1>1, <1>11, <3>1 DEF Consecutive, L
  <2>4. Len(Stream') = L - z
    BY <1>10
  <2>5. \A j \in 1..Len(Stream') :
           /\ Stream'[j][1] \in 1..Len(sent')
           /\ Stream'[j][2] \in 1..Size(sent'[Stream'[j][1]])
    BY <1>1, <2>1, <2>4
  <2>6. Len(Stream') > 0 => Stream'[1] = Undelivered'
    BY <2>2, <2>4
  <2>7. ASSUME NEW j \in 1..(Len(Stream') - 1)
        PROVE  Stream'[j + 1] = After(Stream'[j])
    <3>1. j \in 1..(L - z - 1)
      BY <1>4, <1>10, <2>4
    <3>. QED
      BY <2>3, <3>1
  <2>. QED
    BY <1>1, <2>5, <2>6, <2>7 DEF Consecutive, After
<1>14. Tip' = Tip
  <2>1. L > 0 /\ Stream # << >> /\ Tip = After(Stream[L])
    BY <1>4, <1>10 DEF Tip, L
  <2>2. CASE L = z
    <3>1. Stream' = << >>
      BY <1>4, <1>10, <2>2
    <3>2. Tip' = <<n + 1, 1>>
      BY <1>6, <3>1 DEF Tip
    <3>. QED
      BY <1>12, <2>1, <2>2, <3>2
  <2>3. CASE L # z
    <3>1. /\ L - z \in 1..(L - z) /\ z + (L - z) = L
          /\ Len(Stream') # 0
      BY <1>4, <1>10, <2>3
    <3>2. Stream'[Len(Stream')] = Stream[L]
      BY <1>10, <1>11, <3>1
    <3>. QED
      BY <1>1, <1>10, <2>1, <3>1, <3>2 DEF Tip, After
  <2>. QED
    BY <2>2, <2>3
<1>15. WritesAtTip'
  BY <1>1, <1>14 DEF WritesAtTip, WriteLockFree
<1>16. DeliveredInOrder'
  <2>1. /\ DOMAIN delivered' = 1..n
        /\ DOMAIN delivered = 1..Len(delivered)
    BY <1>1, <1>6, LenProperties DEF StreamTypeOK
  <2>. QED
    BY <1>1, <1>2, <1>3, <1>6, <2>1 DEF DeliveredInOrder
<1>. QED
  BY <1>9, <1>13, <1>15, <1>16 DEF FramingInv

\* Reading moves bytes within the stream.
LEMMA ReadSomeKeeps ==
    ASSUME FramingInv, NEW k \in 1..ReadSize, ReadSome(k)
    PROVE  /\ FramingInv'
           /\ Len(rbuf') = Len(rbuf) + k
           /\ Len(wire') = Len(wire) - k
           /\ Stream' = Stream
<1>1. /\ k <= Len(wire)
      /\ rbuf' = rbuf \o SubSeq(wire, 1, k)
      /\ wire' = Dropped(wire, k)
      /\ sent' = sent /\ writing' = writing /\ closed' = closed
      /\ delivered' = delivered
      /\ rbuf \in Seq(Byte) /\ wire \in Seq(Byte)
  BY DEF ReadSome, FramingInv, StreamTypeOK
<1>2. k \in 0..Len(wire)
  <2>1. k \in Nat /\ Len(wire) \in Nat
    BY <1>1, LenProperties, FramingAssumption
  <2>. QED
    BY <1>1, <2>1
<1>3. /\ rbuf' \in Seq(Byte) /\ wire' \in Seq(Byte)
      /\ Len(rbuf') = Len(rbuf) + k /\ Len(wire') = Len(wire) - k
      /\ rbuf' \o wire' = rbuf \o wire
  BY <1>1, <1>2, MovedBytes, DroppedShape
<1>4. StreamTypeOK'
  BY <1>1, <1>3 DEF FramingInv, StreamTypeOK
<1>5. Stream' = Stream
  BY <1>3 DEF Stream
<1>6. Consecutive'
  BY <1>1, <1>5 DEF FramingInv, Consecutive, Undelivered, After
<1>7. Tip' = Tip
  BY <1>1, <1>5 DEF Tip, Undelivered, After
<1>8. WritesAtTip' /\ DeliveredInOrder'
  BY <1>1, <1>7
     DEF FramingInv, WritesAtTip, WriteLockFree, DeliveredInOrder
<1>. QED
  BY <1>3, <1>4, <1>5, <1>6, <1>8 DEF FramingInv

-----------------------------------------------------------------------------
(* The invariant. *)

\* Nothing the invariant is about changes.
StreamVars == <<sent, writing, closed, wire, rbuf, delivered>>

LEMMA StreamUnchanged ==
    ASSUME FramingInv, UNCHANGED StreamVars
    PROVE  FramingInv'
<1>1. Stream' = Stream
  BY DEF StreamVars, Stream
<1>2. Tip' = Tip
  BY <1>1 DEF StreamVars, Tip, Undelivered, After
<1>3. Consecutive'
  BY <1>1 DEF StreamVars, FramingInv, Consecutive, Undelivered, After
<1>. QED
  BY <1>2, <1>3
     DEF StreamVars, FramingInv, StreamTypeOK, WritesAtTip, WriteLockFree,
         DeliveredInOrder

LEMMA InitInv == FramingInit => FramingInv
<1>. SUFFICES ASSUME FramingInit PROVE FramingInv
  OBVIOUS
<1>1. StreamTypeOK
  BY EmptySeq DEF FramingInit, StreamTypeOK, Nothing
<1>2. Len(Stream) = 0 /\ Stream = << >> /\ Len(delivered) = 0 /\ Len(sent) = 0
  BY <1>1, StreamShape, EmptySeq DEF FramingInit
<1>3. Consecutive
  BY <1>2 DEF Consecutive
<1>4. WritesAtTip
  BY <1>2 DEF FramingInit, WritesAtTip, Tip, Undelivered
<1>5. DeliveredInOrder
  BY <1>2 DEF FramingInit, DeliveredInOrder
<1>. QED
  BY <1>1, <1>3, <1>4, <1>5 DEF FramingInv

LEMMA NextInv ==
    ASSUME FramingInv, [FramingNext]_framingVars
    PROVE  FramingInv'
<1>1. CASE \E kind \in {"blocking", "nonblocking"} : ReceiveBegin(kind)
  BY <1>1, StreamUnchanged DEF ReceiveBegin, StreamVars
<1>2. CASE Deliver
  BY <1>2, DeliverKeeps
<1>3. CASE Reject
  BY <1>3, StreamUnchanged DEF Reject, StreamVars
<1>4. CASE \E k \in 1..ReadSize : ReadSome(k)
  BY <1>4, ReadSomeKeeps
<1>5. CASE ReadEnd
  BY <1>5, StreamUnchanged DEF ReadEnd, StreamVars
<1>6. CASE \E w \in Writers : \E k \in 1..WireCapacity : SendSome(w, k)
  BY <1>6, SendSomeKeeps
<1>7. CASE \E w \in Writers, f \in Frames : SendBegin(w, f)
  BY <1>7, SendBeginKeeps
<1>8. CASE Close
  BY <1>8, CloseKeeps
<1>9. CASE UNCHANGED framingVars
  BY <1>9, StreamUnchanged DEF framingVars, StreamVars
<1>. QED
  BY <1>1, <1>2, <1>3, <1>4, <1>5, <1>6, <1>7, <1>8, <1>9
     DEF FramingNext, Receiving, Sending

LEMMA StreamConsecutive == FramingSpec => []FramingInv
  BY InitInv, NextInv, PTL DEF FramingSpec

\* However many threads send, however their writes and the reads are cut, and
\* wherever the sender dies: the frames delivered are the first ones sent, in
\* order, and legal.
THEOREM AlwaysDeliveredInOrder == FramingSpec => []DeliveredInOrder
<1>1. FramingInv => DeliveredInOrder
  BY DEF FramingInv
<1>. QED
  BY <1>1, StreamConsecutive, PTL

-----------------------------------------------------------------------------
(* The receive buffer. *)

\* A buffer with more to come is shorter than the largest frame.
LEMMA MoreIsSmall ==
    ASSUME FramingInv, Verdict(rbuf) = "more"
    PROVE  Len(rbuf) < LargestFrame
<1>1. Len(rbuf) \in Nat /\ LargestFrame \in Nat /\ LargestFrame > 0
  <2>1. Len(rbuf) \in Nat
    BY LenProperties DEF FramingInv, StreamTypeOK
  <2>. QED
    BY <2>1, FramingAssumption DEF LargestFrame
<1>2. CASE Len(rbuf) > 0
  <2>1. Len(rbuf) < Size(First(rbuf))
    BY <1>2, VerdictMeans
  <2>2. Size(First(rbuf)) \in Nat /\ Size(First(rbuf)) <= LargestFrame
    BY <1>2, BufferHead, SizeBounds
  <2>. QED
    BY <1>1, <2>1, <2>2
<1>. QED
  BY <1>1, <1>2

\* No step lets the buffer or the wire outgrow its limit.
LEMMA NextType ==
    ASSUME FramingInv, FramingInv', FramingTypeOK, [FramingNext]_framingVars
    PROVE  FramingTypeOK'
<1>1. /\ sent' \in Seq(Frames)
      /\ rbuf \in Seq(Byte) /\ wire \in Seq(Byte)
      /\ Len(rbuf) \in Nat /\ Len(wire) \in Nat
      /\ LargestFrame \in Nat /\ ReadSize \in Nat /\ WireCapacity \in Nat
  BY LenProperties, FramingAssumption
     DEF FramingInv, StreamTypeOK, LargestFrame
<1>2. ASSUME Len(rbuf') = Len(rbuf), Len(wire') <= WireCapacity,
             reply' = reply \/ reply' \in {"malformed", "oversized", "mismatch",
                                           "closed", "partial"}
      PROVE  FramingTypeOK'
  BY <1>1, <1>2 DEF FramingTypeOK
<1>3. CASE Deliver
  <2>. DEFINE z == Size(First(rbuf))
  <2>1. /\ reply' = "frame" /\ wire' = wire /\ rbuf' = Dropped(rbuf, z)
    BY <1>3 DEF Deliver, Return
  <2>2. z \in Nat /\ z <= Len(rbuf)
    BY <1>3, VerdictMeans, BufferHead, SizeBounds DEF Deliver
  <2>3. Len(rbuf') = Len(rbuf) - z
    BY <1>1, <2>1, <2>2, DroppedShape
  <2>. QED
    BY <1>1, <2>1, <2>2, <2>3 DEF FramingTypeOK
<1>4. ASSUME NEW k \in 1..ReadSize, ReadSome(k) PROVE FramingTypeOK'
  <2>1. Len(rbuf') = Len(rbuf) + k /\ Len(wire') = Len(wire) - k
    BY <1>4, ReadSomeKeeps
  <2>2. Len(rbuf) < LargestFrame
    BY <1>4, MoreIsSmall DEF ReadSome
  <2>3. reply' \in {reply, "overflow", "incomplete"}
    BY <1>4 DEF ReadSome, Return
  <2>. QED
    BY <1>1, <2>1, <2>2, <2>3 DEF FramingTypeOK
<1>5. ASSUME NEW w \in Writers, NEW k \in 1..WireCapacity, SendSome(w, k)
      PROVE  FramingTypeOK'
  <2>. DEFINE added == Bytes(writing[w].frame, writing[w].done,
                             writing[w].done + k)
  <2>1. /\ wire' = wire \o added
        /\ Len(wire) + k <= WireCapacity
        /\ rbuf' = rbuf /\ reply' = reply
    BY <1>5 DEF SendSome
  <2>2. added \in Seq(Byte) /\ Len(added) = k
    <3>1. writing[w].frame \in Nat /\ writing[w].done \in Nat /\ k \in Nat
      BY <1>1 DEF FramingInv, StreamTypeOK
    <3>2. /\ added = [j \in 1..k |-> <<writing[w].frame, writing[w].done + j>>]
          /\ \A j \in 1..k :
                <<writing[w].frame, writing[w].done + j>> \in Byte
      BY <3>1 DEF Bytes, Byte
    <3>. QED
      BY <3>1, <3>2
  <2>3. Len(wire') = Len(wire) + k
    BY <1>1, <2>1, <2>2, ConcatProperties
  <2>. QED
    BY <1>2, <2>1, <2>3
<1>6. CASE Reject
  BY <1>2, <1>6 DEF Reject, Return, FramingTypeOK
<1>7. CASE ReadEnd
  BY <1>2, <1>7 DEF ReadEnd, Return, EndReply, FramingTypeOK
<1>8. CASE UNCHANGED <<rbuf, wire, reply>>
  BY <1>2, <1>8 DEF FramingTypeOK
<1>. QED
  BY <1>3, <1>4, <1>5, <1>6, <1>7, <1>8
     DEF FramingNext, Receiving, Sending, ReceiveBegin, SendBegin, Close,
         framingVars

\* The buffer is bounded for every size of frames and reads, also when
\* receive() is called again after it gave up on it.
THEOREM FramingTypeCorrect == FramingSpec => []FramingTypeOK
<1>1. FramingInit => FramingTypeOK
  BY EmptySeq, FramingAssumption DEF FramingInit, FramingTypeOK, LargestFrame
<1>2. FramingInv /\ FramingInv' /\ FramingTypeOK /\ [FramingNext]_framingVars
         => FramingTypeOK'
  BY NextType
<1>. QED
  BY <1>1, <1>2, StreamConsecutive, PTL DEF FramingSpec

\* What the buffer begins with does not change while frames are sent.
LEMMA HeadStays ==
    ASSUME FramingInv, Len(rbuf) > 0, rbuf' = rbuf,
           sent' = sent \/ \E f \in Frames : sent' = Append(sent, f)
    PROVE  First(rbuf)' = First(rbuf) /\ Verdict(rbuf)' = Verdict(rbuf)
<1>1. /\ rbuf[1][1] = Len(delivered) + 1
      /\ rbuf[1][1] \in 1..Len(sent)
  BY BufferHead DEF Undelivered
<1>2. \A n \in 1..Len(sent) : sent'[n] = sent[n]
  BY AppendProperties DEF FramingInv, StreamTypeOK
<1>3. First(rbuf)' = First(rbuf)
  BY <1>1, <1>2 DEF First
<1>4. Verdict(rbuf)' = Verdict(rbuf)
  BY <1>3 DEF Verdict, Whole, Enough, Size
<1>. QED
  BY <1>3, <1>4

\* A buffer that has outgrown its limit after a read of k bytes begins with a
\* frame close to the largest size.
LEMMA OverflowIsLarge ==
    ASSUME FramingInv, NEW k \in 1..ReadSize, ReadSome(k),
           Len(rbuf') > LargestFrame
    PROVE  Size(First(rbuf)') + ReadSize > LargestFrame + 1
<1>. DEFINE f == sent[Len(delivered) + 1]
<1>1. /\ sent' = sent
      /\ Len(rbuf') = Len(rbuf) + k
      /\ Stream' = Stream
      /\ Verdict(rbuf) = "more"
  BY ReadSomeKeeps DEF ReadSome
<1>2. /\ StreamTypeOK /\ Consecutive /\ StreamTypeOK'
      /\ sent \in Seq(Frames)
  BY ReadSomeKeeps DEF FramingInv, StreamTypeOK
<1>3. /\ Len(rbuf) \in Nat /\ k \in Nat /\ 1 <= k /\ k <= ReadSize
      /\ ReadSize \in Nat
  BY <1>2, StreamShape, FramingAssumption
<1>4. rbuf'[1] = Stream[1] /\ Len(Stream) > 0
  <2>1. /\ rbuf' \in Seq(Byte) /\ wire' \in Seq(Byte)
        /\ rbuf' \o wire' = Stream
    BY <1>1, <1>2 DEF StreamTypeOK, Stream
  <2>2. 1 \in 1..Len(rbuf') /\ Len(rbuf') > 0
    BY <1>1, <1>3
  <2>3. /\ (rbuf' \o wire')[1] = rbuf'[1]
        /\ Len(rbuf' \o wire') = Len(rbuf') + Len(wire')
        /\ Len(rbuf') \in Nat /\ Len(wire') \in Nat
    BY <2>1, <2>2, JoinedShape
  <2>. QED
    BY <2>1, <2>2, <2>3
<1>5. Stream[1] = Undelivered /\ Len(delivered) + 1 \in 1..Len(sent)
  <2>1. 1 \in 1..Len(Stream)
    BY <1>2, <1>4, StreamShape
  <2>2. Stream[1] = Undelivered
    BY <1>2, <1>4 DEF Consecutive
  <2>. QED
    BY <1>2, <2>1, <2>2 DEF Consecutive, Undelivered
<1>6. First(rbuf)' = f /\ f \in Frames
  BY <1>1, <1>2, <1>4, <1>5, ElementOfSeq DEF First, Undelivered
<1>7. /\ Size(f) \in Nat /\ HeaderLen + CrcLen <= Size(f)
      /\ HeaderLen \in Nat /\ CrcLen \in Nat /\ LargestFrame \in Nat
      /\ HeaderLen <= Size(f) /\ 1 <= HeaderLen
  BY <1>6, SizeBounds
<1>8. Len(rbuf) < Size(f)
  <2>1. CASE Len(rbuf) > 0
    <3>1. Len(rbuf) < Size(First(rbuf))
      BY <1>1, <2>1, VerdictMeans
    <3>2. First(rbuf) = f
      BY <2>1, BufferHead
    <3>. QED
      BY <3>1, <3>2
  <2>. QED
    BY <1>3, <1>7, <2>1
<1>. HIDE DEF f
<1>. QED
  BY <1>1, <1>3, <1>6, <1>7, <1>8

\* However many small frames one read brings along, receive() gives up only on
\* a buffer that begins with a frame close to the largest size.
THEOREM OverflowOnlyOfLargeFrame == FramingSpec => []OverflowNeedsLargeFrame
<1>1. FramingInit => OverflowNeedsLargeFrame
  BY DEF FramingInit, OverflowNeedsLargeFrame
<1>2. ASSUME FramingInv, OverflowNeedsLargeFrame, [FramingNext]_framingVars
      PROVE  OverflowNeedsLargeFrame'
  <2>1. ASSUME NEW k \in 1..ReadSize, ReadSome(k)
        PROVE  OverflowNeedsLargeFrame'
    <3>1. /\ reply' = "overflow" /\ call' = "none"
             => Len(rbuf') > LargestFrame
      BY <2>1 DEF ReadSome, Return, Limit
    <3>. QED
      BY <1>2, <2>1, <3>1, OverflowIsLarge DEF OverflowNeedsLargeFrame, Size
  <2>2. ASSUME rbuf' = rbuf, call' = call, reply' = reply,
               sent' = sent \/ \E f \in Frames : sent' = Append(sent, f)
        PROVE  OverflowNeedsLargeFrame'
    <3>1. rbuf # << >> => Len(rbuf) > 0
      BY <1>2, EmptySeq DEF FramingInv, StreamTypeOK
    <3>. QED
      BY <1>2, <2>2, <3>1, HeadStays DEF OverflowNeedsLargeFrame, Size
  <2>3. ASSUME reply' # "overflow" \/ call' # "none"
        PROVE  OverflowNeedsLargeFrame'
    BY <2>3 DEF OverflowNeedsLargeFrame
  <2>4. Deliver \/ Reject \/ ReadEnd => reply' # "overflow"
    BY DEF Deliver, Reject, ReadEnd, Return, EndReply
  <2>5. ASSUME NEW kind \in {"blocking", "nonblocking"}, ReceiveBegin(kind)
        PROVE  call' # "none"
    BY <2>5 DEF ReceiveBegin
  <2>. QED
    BY <1>2, <2>1, <2>2, <2>3, <2>4, <2>5
       DEF FramingNext, Receiving, Sending, SendBegin, SendSome, Close,
           framingVars
<1>. QED
  BY <1>1, <1>2, StreamConsecutive, PTL DEF FramingSpec

-----------------------------------------------------------------------------
(* Frames that are not legal. *)

Illegal == {"malformed", "oversized", "mismatch"}

\* A connection that rejected a frame still has it at the head of its buffer.
Rejected == reply \in Illegal => Len(rbuf) > 0 /\ Verdict(rbuf) = reply

LEMMA RejectedStep ==
    ASSUME FramingInv, Rejected, [FramingNext]_framingVars
    PROVE  /\ Rejected'
           /\ reply \in Illegal => reply' = reply /\ delivered' = delivered
<1>1. ASSUME rbuf' = rbuf, reply' = reply, delivered' = delivered,
             sent' = sent \/ \E f \in Frames : sent' = Append(sent, f)
      PROVE  /\ Rejected'
             /\ reply \in Illegal => reply' = reply /\ delivered' = delivered
  BY <1>1, HeadStays DEF Rejected
<1>2. ASSUME reply' \notin Illegal, Verdict(rbuf) \notin Illegal
      PROVE  Rejected' /\ reply \notin Illegal
  BY <1>2 DEF Rejected
<1>3. Deliver => reply' \notin Illegal /\ Verdict(rbuf) \notin Illegal
  BY DEF Deliver, Return, Illegal
<1>4. ReadEnd => reply' \notin Illegal /\ Verdict(rbuf) \notin Illegal
  BY DEF ReadEnd, Return, EndReply, Illegal
<1>5. ASSUME NEW k \in 1..ReadSize, ReadSome(k)
      PROVE  reply' \notin Illegal /\ Verdict(rbuf) \notin Illegal
  <2>1. Verdict(rbuf) = "more" /\ reply' \in {"overflow", "incomplete", reply}
    BY <1>5 DEF ReadSome, Return
  <2>. QED
    BY <2>1 DEF Illegal, Rejected
<1>6. ASSUME Reject
      PROVE  /\ Rejected'
             /\ reply \in Illegal => reply' = reply /\ delivered' = delivered
  <2>1. /\ reply' = Verdict(rbuf) /\ reply' \in Illegal
        /\ rbuf' = rbuf /\ sent' = sent /\ delivered' = delivered
    BY <1>6 DEF Reject, Return, Illegal
  <2>2. Len(rbuf) > 0
    <3>1. Len(rbuf) \in Nat /\ HeaderLen \in Nat /\ HeaderLen > 0
      BY LenProperties, FramingAssumption DEF FramingInv, StreamTypeOK
    <3>2. Len(rbuf) < HeaderLen => Verdict(rbuf) = "more"
      BY <3>1 DEF Verdict
    <3>. QED
      BY <2>1, <3>1, <3>2 DEF Illegal
  <2>. QED
    BY <2>1, <2>2, HeadStays DEF Rejected
<1>. QED
  BY <1>1, <1>2, <1>3, <1>4, <1>5, <1>6
     DEF FramingNext, Receiving, Sending, ReceiveBegin, SendBegin, SendSome,
         Close, framingVars

\* However often receive() is called again, nothing behind a frame that is not
\* legal is taken for a frame.
THEOREM MalformedAlwaysSticks == FramingSpec => MalformedSticks
<1>1. FramingInit => Rejected
  BY DEF FramingInit, Rejected, Illegal
<1>2. FramingInv /\ Rejected /\ [FramingNext]_framingVars => Rejected'
  BY RejectedStep
<1>3. FramingInv /\ Rejected /\ [FramingNext]_framingVars
         => [/\ reply \in {"malformed", "oversized", "mismatch"}
             => reply' = reply /\ delivered' = delivered]_framingVars
  BY RejectedStep DEF Illegal
<1>. QED
  BY <1>1, <1>2, <1>3, StreamConsecutive, PTL DEF FramingSpec, MalformedSticks

-----------------------------------------------------------------------------
(* What decode_frames makes of bytes. *)

\* A set of places in a sequence of length n has a last one.
LEMMA LastPlace ==
    ASSUME NEW n \in Nat, NEW B \in SUBSET (0..n), B # {}
    PROVE  \E k \in B : \A j \in B : j <= k
<1>. DEFINE S == 0..n
            From(k) == {j \in S : k <= j}
            T == { From(k) : k \in B }
<1>1. FiniteSubsetsOf(S) = SUBSET S
  <2>1. IsFiniteSet(0..n)
    BY FS_Interval
  <2>. QED
    BY <2>1, FS_FiniteSubsetsOfFinite
<1>2. IsWellFoundedOn(StrictSubsetOrdering(S), SUBSET S)
  BY <1>1, FS_StrictSubsetOrderingWellFounded
<1>3. T \subseteq SUBSET S /\ T # {}
  OBVIOUS
<1>4. PICK x \in T : \A y \in T : <<y, x>> \notin StrictSubsetOrdering(S)
  <2>. HIDE DEF S, T
  <2>. QED
    BY <1>2, <1>3, WFMin
<1>5. PICK k \in B : x = From(k)
  BY <1>4
<1>6. ASSUME NEW j \in B, k < j PROVE FALSE
  <2>1. /\ From(j) \in T /\ From(j) \subseteq From(k)
        /\ k \in From(k) /\ k \notin From(j)
    BY <1>6
  <2>2. <<From(j), From(k)>> \in StrictSubsetOrdering(S)
    BY <2>1 DEF StrictSubsetOrdering
  <2>. QED
    BY <1>4, <1>5, <2>1, <2>2
<1>. QED
  BY <1>6

\* The bytes of a buffer that are known are bytes of frames that were sent.
Known(b) ==
    /\ b \in Seq(Byte)
    /\ \A j \in 1..Len(b) : b[j][1] \in 1..Len(sent)

\* A frame decode_frames or receive() finds is one that was sent, and is there
\* to its last byte.
LEMMA FrameFits ==
    ASSUME sent \in Seq(Frames), NEW b, Known(b), NEW k \in 0..Len(b),
           Dropped(b, k) # << >>, Verdict(Dropped(b, k)) = "frame"
    PROVE  LET z == Size(First(Dropped(b, k)))
           IN  z \in Nat /\ z > 0 /\ k + z \in (k + 1)..Len(b)
<1>. DEFINE s == Dropped(b, k)
            f == First(s)
<1>1. /\ s \in Seq(Byte) /\ Len(s) = Len(b) - k
      /\ \A j \in 1..(Len(b) - k) : s[j] = b[k + j]
      /\ Len(b) \in Nat /\ k \in Nat /\ k <= Len(b)
  <2>1. b \in Seq(Byte)
    BY DEF Known
  <2>2. Len(b) \in Nat
    BY <2>1, LenProperties
  <2>3. k \in Nat /\ k <= Len(b)
    BY <2>2
  <2>. QED
    BY <2>1, <2>2, <2>3, DroppedShape
<1>2. Len(s) > 0
  BY <1>1, EmptySeq
<1>3. f \in Frames
  <2>1. s[1] = b[k + 1] /\ k + 1 \in 1..Len(b)
    BY <1>1, <1>2
  <2>. QED
    BY <2>1, ElementOfSeq DEF Known, First
<1>4. Size(f) \in Nat /\ HeaderLen \in Nat /\ Size(f) > 0
  BY <1>3, SizeBounds
<1>5. Len(s) >= Size(f)
  <2>1. ~(Len(s) < HeaderLen) => Len(s) >= HeaderLen
    BY <1>1, <1>4
  <2>. QED
    BY <2>1 DEF Verdict, Enough
<1>. QED
  BY <1>1, <1>4, <1>5

\* A round looks only at what later places make.
LEMMA DecodeLooksAhead ==
    ASSUME sent \in Seq(Frames), NEW b, Known(b), NEW k \in 0..Len(b),
           NEW g, NEW h, \A j \in (k + 1)..Len(b) : g[j] = h[j]
    PROVE  DecodeAt(b, g, k) = DecodeAt(b, h, k)
<1>. DEFINE s == Dropped(b, k)
<1>1. CASE s # << >> /\ Verdict(s) = "frame"
  <2>1. g[k + Size(First(s))] = h[k + Size(First(s))]
    BY <1>1, FrameFits
  <2>. QED
    BY <1>1, <2>1 DEF DecodeAt
<1>2. CASE ~(s # << >> /\ Verdict(s) = "frame")
  BY <1>2 DEF DecodeAt
<1>. QED
  BY <1>1, <1>2

\* The recursion of decode_frames is well-founded: there is a function that
\* gives what it makes of the bytes from each place on.
LEMMA DecodingExists ==
    ASSUME sent \in Seq(Frames), NEW b, Known(b)
    PROVE  \E f : f = [k \in 0..Len(b) |-> DecodeAt(b, f, k)]
<1>. DEFINE L == Len(b)
            From(g, m) == /\ g = [k \in 0..L |-> g[k]]
                          /\ \A k \in m..L : g[k] = DecodeAt(b, g, k)
            Bad == {m \in 0..L : \A g : ~From(g, m)}
<1>1. L \in Nat
  BY LenProperties DEF Known
<1>2. ASSUME Bad # {} PROVE FALSE
  <2>1. PICK m \in Bad : \A j \in Bad : j <= m
    BY <1>1, <1>2, LastPlace
  <2>2. m \in 0..L /\ \A g : ~From(g, m)
    BY <2>1
  <2>3. PICK g : /\ g = [k \in 0..L |-> g[k]]
                 /\ \A k \in (m + 1)..L : g[k] = DecodeAt(b, g, k)
    <3>1. CASE m = L
      <4>. DEFINE g == [k \in 0..L |-> 0]
      <4>1. g = [k \in 0..L |-> g[k]]
        OBVIOUS
      <4>2. (m + 1)..L = {}
        BY <1>1, <3>1
      <4>. QED
        BY <4>1, <4>2
    <3>2. CASE m # L
      <4>1. m + 1 \in 0..L /\ ~(m + 1 <= m)
        BY <1>1, <2>2, <3>2
      <4>2. m + 1 \notin Bad
        BY <2>1, <4>1
      <4>. QED
        BY <4>1, <4>2
    <3>. QED
      BY <3>1, <3>2
  <2>. DEFINE h == [g EXCEPT ![m] = DecodeAt(b, g, m)]
  <2>4. /\ h = [k \in 0..L |-> h[k]]
        /\ h[m] = DecodeAt(b, g, m)
        /\ \A k \in (0..L) \ {m} : h[k] = g[k]
    BY <2>2, <2>3
  <2>. HIDE DEF h
  <2>5. ASSUME NEW k \in m..L PROVE h[k] = DecodeAt(b, h, k)
    <3>1. k \in 0..L /\ (\A j \in (k + 1)..L : j \in (0..L) \ {m})
      BY <1>1, <2>2
    <3>2. \A j \in (k + 1)..L : g[j] = h[j]
      BY <2>4, <3>1
    <3>3. DecodeAt(b, g, k) = DecodeAt(b, h, k)
      BY <3>1, <3>2, DecodeLooksAhead
    <3>4. h[k] = DecodeAt(b, g, k)
      <4>1. CASE k = m
        BY <2>4, <4>1
      <4>2. CASE k # m
        <5>1. k \in (m + 1)..L /\ k \in (0..L) \ {m}
          BY <1>1, <2>2, <4>2
        <5>. QED
          BY <2>3, <2>4, <5>1
      <4>. QED
        BY <4>1, <4>2
    <3>. QED
      BY <3>3, <3>4
  <2>. QED
    BY <2>2, <2>4, <2>5
<1>3. PICK g : From(g, 0)
  BY <1>1, <1>2
<1>4. g = [k \in 0..L |-> DecodeAt(b, g, k)]
  BY <1>3
<1>. QED
  BY <1>4

\* decode_frames returns what that function gives for the first place.
LEMMA DecodeFramesIs ==
    ASSUME sent \in Seq(Frames), NEW b, Known(b)
    PROVE  \E f : /\ DecodeFrames(b) = f[0]
                  /\ \A k \in 0..Len(b) : f[k] = DecodeAt(b, f, k)
<1>. DEFINE from == CHOOSE f : f = [k \in 0..Len(b) |-> DecodeAt(b, f, k)]
<1>1. DecodeFrames(b) = from[0]
  BY DEF DecodeFrames
<1>2. from = [k \in 0..Len(b) |-> DecodeAt(b, from, k)]
  BY DecodingExists
<1>. HIDE DEF from
<1>3. \A k \in 0..Len(b) : from[k] = DecodeAt(b, from, k)
  BY <1>2
<1>. QED
  BY <1>1, <1>3

\* A complete and legal frame f begins at place k of b.
FrameAt(b, k, f) ==
    /\ Dropped(b, k) # << >> /\ Verdict(Dropped(b, k)) = "frame"
    /\ First(Dropped(b, k)) = f

\* A sequence is its head and what follows, from each place on.
LEMMA FromPlace ==
    ASSUME NEW d \in Seq(Frames), NEW i \in 1..Len(d)
    PROVE  <<d[i]>> \o SubSeq(d, i + 1, Len(d)) = SubSeq(d, i, Len(d))
<1>1. /\ Len(d) \in Nat /\ i \in Nat
      /\ \A j \in 1..Len(d) : d[j] \in Frames
  BY LenProperties, ElementOfSeq
<1>. DEFINE t == SubSeq(d, i + 1, Len(d))
            u == SubSeq(d, i, Len(d))
<1>2. /\ t \in Seq(Frames) /\ Len(t) = Len(d) - i
      /\ \A j \in 1..(Len(d) - i) : t[j] = d[i + j]
  BY <1>1, SubSeqProperties
<1>3. /\ u \in Seq(Frames) /\ Len(u) = Len(d) - i + 1
      /\ \A j \in 1..(Len(d) - i + 1) : u[j] = d[i + j - 1]
  BY <1>1, SubSeqProperties
<1>4. <<d[i]>> \in Seq(Frames) /\ Len(<<d[i]>>) = 1
  BY <1>1
<1>. HIDE DEF t, u
<1>5. /\ <<d[i]>> \o t \in Seq(Frames)
      /\ Len(<<d[i]>> \o t) = Len(d) - i + 1
      /\ \A j \in 1..(Len(d) - i + 1) :
            (<<d[i]>> \o t)[j] = IF j <= 1 THEN <<d[i]>>[j] ELSE t[j - 1]
  <2>1. PICK e : e = <<d[i]>>
    OBVIOUS
  <2>2. e \in Seq(Frames) /\ Len(e) = 1 /\ 1 + Len(t) = Len(d) - i + 1
    BY <1>1, <1>2, <1>4, <2>1
  <2>3. /\ e \o t \in Seq(Frames) /\ Len(e \o t) = Len(e) + Len(t)
        /\ \A j \in 1..(Len(e) + Len(t)) :
              (e \o t)[j] = IF j <= Len(e) THEN e[j] ELSE t[j - Len(e)]
    BY <1>2, <2>2, ConcatProperties
  <2>. QED
    BY <2>1, <2>2, <2>3
<1>6. ASSUME NEW j \in 1..(Len(d) - i + 1) PROVE (<<d[i]>> \o t)[j] = u[j]
  <2>1. CASE j = 1
    BY <1>1, <1>3, <1>5, <2>1
  <2>2. CASE j # 1
    <3>1. j - 1 \in 1..(Len(d) - i) /\ ~(j <= 1) /\ i + (j - 1) = i + j - 1
      BY <1>1, <2>2
    <3>. QED
      BY <1>2, <1>3, <1>5, <3>1
  <2>. QED
    BY <2>1, <2>2
<1>7. <<d[i]>> \o t = u
  BY <1>3, <1>5, <1>6, SeqEqual
<1>. QED
  BY <1>7 DEF t, u

\* Bytes that are the frames d one after the other, and then no frame, are
\* decoded to d.
LEMMA DecodeFollows ==
    ASSUME sent \in Seq(Frames), NEW b, Known(b),
           NEW d \in Seq(Frames), NEW cut \in [0..Len(d) -> 0..Len(b)],
           cut[0] = 0,
           \A i \in 1..Len(d) : /\ FrameAt(b, cut[i - 1], d[i])
                                /\ cut[i] = cut[i - 1] + Size(d[i]),
           NEW r, r = Dropped(b, cut[Len(d)]),
           r = << >> \/ Verdict(r) # "frame"
    PROVE  DecodeFrames(b) =
             [frames |-> d,
              status |-> IF r = << >> THEN "good" ELSE Verdict(r)]
<1>. DEFINE n == Len(d)
            z == IF r = << >> THEN "good" ELSE Verdict(r)
            Rest(i) == [frames |-> SubSeq(d, i + 1, n), status |-> z]
<1>1. PICK from : /\ DecodeFrames(b) = from[0]
                  /\ \A k \in 0..Len(b) : from[k] = DecodeAt(b, from, k)
  BY DecodeFramesIs
<1>2. n \in Nat
  BY LenProperties
<1>3. from[cut[n]] = Rest(n)
  <2>1. cut[n] \in 0..Len(b)
    BY <1>2
  <2>2. DecodeAt(b, from, cut[n]) = [frames |-> << >>, status |-> z]
    BY DEF DecodeAt
  <2>3. SubSeq(d, n + 1, n) = << >>
    BY <1>2, SubSeqProperties, EmptySeq
  <2>. QED
    BY <1>1, <2>1, <2>2, <2>3
<1>. HIDE DEF z
<1>4. ASSUME NEW i \in 1..n, from[cut[i]] = Rest(i)
      PROVE  from[cut[i - 1]] = Rest(i - 1)
  <2>1. cut[i - 1] \in 0..Len(b) /\ (i - 1) + 1 = i
    <3>1. i \in 1..n /\ n \in Nat
      BY <1>2
    <3>2. i - 1 \in 0..n /\ (i - 1) + 1 = i
      <4>. HIDE DEF n
      <4>. QED
        BY ONLY <3>1
    <3>. QED
      BY <3>2
  <2>2. /\ FrameAt(b, cut[i - 1], d[i])
        /\ cut[i] = cut[i - 1] + Size(d[i])
    OBVIOUS
  <2>3. DecodeAt(b, from, cut[i - 1])
           = [Rest(i) EXCEPT !.frames = <<d[i]>> \o @]
    BY <1>4, <2>2 DEF DecodeAt, FrameAt
  <2>4. [Rest(i) EXCEPT !.frames = <<d[i]>> \o @]
           = [frames |-> <<d[i]>> \o SubSeq(d, i + 1, n), status |-> z]
    <3>1. PICK x : x = SubSeq(d, i + 1, n)
      OBVIOUS
    <3>2. Rest(i) = [frames |-> x, status |-> z]
      BY <3>1
    <3>. HIDE DEF Rest
    <3>3. Rest(i).frames = x
      BY <3>2
    <3>4. PICK y : y = <<d[i]>> \o x
      OBVIOUS
    <3>5. [Rest(i) EXCEPT !.frames = y] = [frames |-> y, status |-> z]
      <4>. HIDE DEF n
      <4>. QED
        BY ONLY <3>2
    <3>. QED
      BY <3>1, <3>3, <3>4, <3>5
  <2>5. <<d[i]>> \o SubSeq(d, i + 1, n) = SubSeq(d, (i - 1) + 1, n)
    BY <2>1, FromPlace
  <2>. QED
    BY <1>1, <2>1, <2>3, <2>4, <2>5
<1>. HIDE DEF Rest
<1>5. from[cut[0]] = Rest(0)
  <2>. DEFINE Bad == {i \in 0..n : from[cut[i]] # Rest(i)}
  <2>1. ASSUME Bad # {} PROVE FALSE
    <3>1. PICK i \in Bad : \A j \in Bad : j <= i
      BY <1>2, <2>1, LastPlace
    <3>2. i \in 0..n /\ from[cut[i]] # Rest(i) /\ i # n
      BY <1>3, <3>1
    <3>3. i + 1 \in 1..n /\ i + 1 \in 0..n /\ ~(i + 1 <= i) /\ (i + 1) - 1 = i
      BY <1>2, <3>2
    <3>4. from[cut[i + 1]] = Rest(i + 1)
      BY <3>1, <3>3
    <3>. QED
      BY <1>4, <3>2, <3>3, <3>4
  <2>. QED
    BY <1>2, <2>1
<1>6. Rest(0) = [frames |-> d, status |-> z]
  <2>1. SubSeq(d, 0 + 1, n) = d
    <3>1. /\ SubSeq(d, 1, n) \in Seq(Frames) /\ Len(SubSeq(d, 1, n)) = n
          /\ \A j \in 1..n : SubSeq(d, 1, n)[j] = d[j]
      <4>1. \A j \in 1..n : d[j] \in Frames
        BY ElementOfSeq
      <4>. QED
        BY <1>2, <4>1, SubSeqProperties
    <3>. QED
      BY <3>1, SeqEqual
  <2>. QED
    BY <2>1 DEF Rest
<1>. QED
  BY <1>1, <1>5, <1>6 DEF z

-----------------------------------------------------------------------------
(* All bytes ever read. *)

\* The n-th frame delivered lies between the places cut[n - 1] and cut[n] of
\* the bytes ever read, and the buffer behind the last one.
Cuts(cut) ==
    /\ cut \in [0..Len(delivered) -> Nat]
    /\ cut[0] = 0
    /\ \A i \in 1..Len(delivered) :
          /\ cut[i] = cut[i - 1] + Size(delivered[i])
          /\ cut[i] <= Len(received)
          /\ \A j \in 1..Size(delivered[i]) :
                received[cut[i - 1] + j] = <<i, j>>
    /\ cut[Len(delivered)] + Len(rbuf) = Len(received)
    /\ \A j \in 1..Len(rbuf) : received[cut[Len(delivered)] + j] = rbuf[j]

\* All bytes ever read are those of the frames delivered and the buffer.
AllAccounted == Known(received) /\ \E cut : Cuts(cut)

\* Once receive() has seen the end of the stream, nothing comes any more.
Ended ==
    reply \in {"closed", "partial"} =>
       /\ closed /\ wire = << >>
       /\ Verdict(rbuf) = "more" /\ reply = EndReply

\* What a frame in the bytes read looks like to decode_frames.
LEMMA CutIsFrame ==
    ASSUME FramingInv, Known(received), NEW cut, Cuts(cut),
           NEW i \in 1..Len(delivered)
    PROVE  cut[i - 1] \in 0..Len(received)
           /\ FrameAt(received, cut[i - 1], delivered[i])
<1>. DEFINE c == cut[i - 1]
            s == Dropped(received, c)
            f == delivered[i]
            z == Size(f)
<1>1. /\ sent \in Seq(Frames) /\ delivered \in Seq(Frames)
      /\ Len(delivered) \in Nat /\ Len(sent) \in Nat /\ Len(received) \in Nat
      /\ Len(delivered) <= Len(sent)
      /\ f = sent[i] /\ f \in Frames /\ f.defect = "none"
  BY LenProperties, ElementOfSeq
     DEF FramingInv, StreamTypeOK, DeliveredInOrder, Known
<1>2. /\ z \in Nat /\ z > 0 /\ HeaderLen \in Nat /\ HeaderLen > 0
      /\ HeaderLen <= z
  BY <1>1, SizeBounds
<1>3. /\ c \in Nat /\ c + z <= Len(received)
      /\ \A j \in 1..z : received[c + j] = <<i, j>>
  <2>1. i - 1 \in 0..Len(delivered)
    BY <1>1
  <2>2. cut \in [0..Len(delivered) -> Nat]
    BY DEF Cuts
  <2>3. c \in Nat
    BY <2>1, <2>2
  <2>. QED
    BY <2>3 DEF Cuts
<1>. HIDE DEF z, c, f
<1>4. /\ Len(s) = Len(received) - c /\ c \in 0..Len(received)
      /\ \A j \in 1..z : s[j] = <<i, j>>
  <2>1. c \in 0..Len(received)
    BY <1>1, <1>2, <1>3
  <2>2. /\ Len(s) = Len(received) - c
        /\ \A j \in 1..(Len(received) - c) : s[j] = received[c + j]
    BY <2>1, DroppedShape DEF Known
  <2>3. \A j \in 1..z : j \in 1..(Len(received) - c)
    BY <1>1, <1>2, <1>3
  <2>. QED
    BY <1>3, <2>1, <2>2, <2>3
<1>. HIDE DEF s
<1>5. Len(s) \in Nat /\ Len(s) >= z /\ Len(s) >= HeaderLen /\ s # << >>
  BY <1>1, <1>2, <1>3, <1>4
<1>6. s[1] = <<i, 1>> /\ First(s) = f
  <2>1. 1 \in 1..z
    BY <1>2
  <2>. QED
    BY <1>1, <1>4, <2>1 DEF First
<1>7. Whole(s, z) /\ Whole(s, HeaderLen)
  <2>1. \A j \in 1..HeaderLen : j \in 1..z
    BY <1>2
  <2>2. s[1][1] = i
    BY <1>6
  <2>. QED
    BY <1>4, <2>1, <2>2 DEF Whole
<1>8. Verdict(s) = "frame"
  <2>1. ~(Len(s) < HeaderLen)
    BY <1>2, <1>5
  <2>2. /\ First(s).defect = "none"
        /\ Enough(s, First(s)) /\ Whole(s, Size(First(s)))
    BY <1>1, <1>5, <1>6, <1>7 DEF Enough, z
  <2>. QED
    BY <1>5, <1>7, <2>1, <2>2 DEF Verdict
<1>. QED
  BY <1>4, <1>5, <1>6, <1>8 DEF FrameAt, c, s, f

\* So decode_frames finds the frames delivered, and ends as the buffer does.
LEMMA DecodesToDelivered ==
    ASSUME FramingInv, AllAccounted, Verdict(rbuf) # "frame"
    PROVE  DecodeFrames(received) =
             [frames |-> delivered,
              status |-> IF rbuf = << >> THEN "good" ELSE Verdict(rbuf)]
<1>1. PICK cut : Cuts(cut)
  BY DEF AllAccounted
<1>. DEFINE n == Len(delivered)
            r == Dropped(received, cut[n])
<1>2. /\ sent \in Seq(Frames) /\ delivered \in Seq(Frames) /\ rbuf \in Seq(Byte)
      /\ Known(received) /\ received \in Seq(Byte)
      /\ n \in Nat /\ Len(received) \in Nat /\ Len(rbuf) \in Nat
  BY LenProperties DEF FramingInv, StreamTypeOK, AllAccounted, Known
<1>3. /\ cut \in [0..n -> Nat] /\ cut[0] = 0 /\ cut[n] \in Nat
      /\ cut[n] + Len(rbuf) = Len(received)
      /\ \A j \in 1..Len(rbuf) : received[cut[n] + j] = rbuf[j]
      /\ \A i \in 1..n : /\ cut[i] = cut[i - 1] + Size(delivered[i])
                         /\ cut[i] <= Len(received)
  <2>1. /\ cut \in [0..n -> Nat] /\ cut[0] = 0
        /\ cut[n] + Len(rbuf) = Len(received)
        /\ \A j \in 1..Len(rbuf) : received[cut[n] + j] = rbuf[j]
        /\ \A i \in 1..n : /\ cut[i] = cut[i - 1] + Size(delivered[i])
                           /\ cut[i] <= Len(received)
    BY <1>1, Zenon DEF Cuts
  <2>2. n \in 0..n
    BY <1>2
  <2>3. cut[n] \in Nat
    <3>. HIDE DEF n
    <3>. QED
      BY <2>1, <2>2
  <2>. QED
    BY <2>1, <2>3
<1>4. cut \in [0..n -> 0..Len(received)]
  <2>1. ASSUME NEW i \in 0..n PROVE cut[i] \in 0..Len(received)
    <3>1. CASE i = 0
      BY <1>2, <1>3, <3>1
    <3>2. CASE i # 0
      <4>1. cut[i] \in Nat
        BY <1>3
      <4>2. i \in 1..n
        <5>. HIDE DEF n
        <5>. QED
          BY <1>2, <3>2
      <4>3. cut[i] <= Len(received)
        BY <1>3, <4>2
      <4>. QED
        BY <1>2, <4>1, <4>3
    <3>. QED
      BY <3>1, <3>2
  <2>. QED
    BY <1>3, <2>1
<1>5. r = rbuf
  <2>1. /\ r \in Seq(Byte) /\ Len(r) = Len(received) - cut[n]
        /\ \A j \in 1..(Len(received) - cut[n]) : r[j] = received[cut[n] + j]
    <3>1. cut[n] \in 0..Len(received)
      <4>1. n \in 0..n
        BY <1>2
      <4>. QED
        BY <1>4, <4>1
    <3>. HIDE DEF n
    <3>. QED
      BY <1>2, <3>1, DroppedShape
  <2>2. Len(r) = Len(rbuf) /\ \A j \in 1..Len(r) : r[j] = rbuf[j]
    BY <1>2, <1>3, <2>1
  <2>. QED
    BY <1>2, <2>1, <2>2, SeqEqual
<1>6. \A i \in 1..n : /\ FrameAt(received, cut[i - 1], delivered[i])
                      /\ cut[i] = cut[i - 1] + Size(delivered[i])
  BY <1>1, <1>2, <1>3, CutIsFrame
<1>7. /\ rbuf = Dropped(received, cut[Len(delivered)])
      /\ rbuf = << >> \/ Verdict(rbuf) # "frame"
  BY <1>5
<1>8. /\ sent \in Seq(Frames) /\ delivered \in Seq(Frames) /\ Known(received)
      /\ cut \in [0..Len(delivered) -> 0..Len(received)] /\ cut[0] = 0
      /\ \A i \in 1..Len(delivered) :
            /\ FrameAt(received, cut[i - 1], delivered[i])
            /\ cut[i] = cut[i - 1] + Size(delivered[i])
  BY <1>2, <1>3, <1>4, <1>6
<1>. QED
  BY ONLY <1>7, <1>8, DecodeFollows

-----------------------------------------------------------------------------
(* Every step keeps account of the bytes. *)

\* A step that reads and delivers nothing changes no place; frames that are
\* sent meanwhile are behind the ones the bytes are of.
LEMMA NothingReadKeeps ==
    ASSUME FramingInv, AllAccounted,
           rbuf' = rbuf, received' = received, delivered' = delivered,
           sent' = sent \/ \E f \in Frames : sent' = Append(sent, f)
    PROVE  AllAccounted'
<1>1. PICK cut : Cuts(cut)
  BY DEF AllAccounted
<1>2. Cuts(cut)'
  BY <1>1 DEF Cuts, Size
<1>3. 1..Len(sent) \subseteq 1..Len(sent')
  <2>1. Len(sent) \in Nat /\ Len(sent') \in {Len(sent), Len(sent) + 1}
    BY LenProperties, AppendProperties DEF FramingInv, StreamTypeOK
  <2>. QED
    BY <2>1
<1>4. Known(received)'
  <2>1. Known(received)
    BY DEF AllAccounted
  <2>. QED
    BY <1>3, <2>1 DEF Known
<1>. QED
  BY <1>2, <1>4 DEF AllAccounted

\* The frame that is delivered lies between the last place and a new one.
LEMMA DeliverAccounted ==
    ASSUME FramingInv, AllAccounted, Deliver PROVE AllAccounted'
<1>. DEFINE n == Len(delivered)
            f == First(rbuf)
            z == Size(f)
<1>1. PICK cut : Cuts(cut)
  BY DEF AllAccounted
<1>2. /\ Verdict(rbuf) = "frame"
      /\ delivered' = Append(delivered, f) /\ rbuf' = Dropped(rbuf, z)
      /\ sent' = sent /\ received' = received
  BY DEF Deliver
<1>3. /\ Len(rbuf) > 0 /\ z <= Len(rbuf)
      /\ \A j \in 1..z : rbuf[j] = <<rbuf[1][1], j>>
  BY <1>2, VerdictMeans DEF Whole
<1>4. rbuf[1][1] = n + 1 /\ f \in Frames
  BY <1>3, BufferHead DEF Undelivered
<1>5. z \in Nat /\ z > 0
  BY <1>4, SizeBounds
<1>6. /\ n \in Nat /\ Len(rbuf) \in Nat /\ Len(received) \in Nat
      /\ rbuf \in Seq(Byte) /\ delivered \in Seq(Frames) /\ Known(received)
  BY LenProperties DEF FramingInv, StreamTypeOK, AllAccounted, Known
<1>7. /\ delivered' \in Seq(Frames) /\ Len(delivered') = n + 1
      /\ \A m \in 1..n : delivered'[m] = delivered[m]
      /\ delivered'[n + 1] = f
  BY <1>2, <1>4, <1>6, AppendProperties
<1>8. /\ Len(rbuf') = Len(rbuf) - z
      /\ \A j \in 1..(Len(rbuf) - z) : rbuf'[j] = rbuf[z + j]
  <2>1. z \in 0..Len(rbuf)
    BY <1>3, <1>5, <1>6
  <2>. HIDE DEF z
  <2>. QED
    BY <1>2, <1>6, <2>1, DroppedShape
<1>. HIDE DEF n, f, z
<1>cut. PICK cut2 :
          cut2 = [i \in 0..(n + 1) |-> IF i <= n THEN cut[i] ELSE cut[n] + z]
  OBVIOUS
<1>9. /\ cut \in [0..n -> Nat] /\ cut[0] = 0 /\ cut[n] \in Nat
      /\ cut[n] + Len(rbuf) = Len(received)
      /\ \A j \in 1..Len(rbuf) : received[cut[n] + j] = rbuf[j]
      /\ \A i \in 1..n :
            /\ cut[i] = cut[i - 1] + Size(delivered[i])
            /\ cut[i] <= Len(received)
            /\ \A j \in 1..Size(delivered[i]) :
                  received[cut[i - 1] + j] = <<i, j>>
  BY <1>1, <1>6 DEF Cuts, n
<1>10. /\ cut2 \in [0..(n + 1) -> Nat]
       /\ \A i \in 0..n : cut2[i] = cut[i]
       /\ cut2[n + 1] = cut[n] + z
  BY <1>5, <1>6, <1>9, <1>cut
<1>11. ASSUME NEW i \in 1..(n + 1)
       PROVE  /\ cut2[i] = cut2[i - 1] + Size(delivered'[i])
              /\ cut2[i] <= Len(received)
              /\ \A j \in 1..Size(delivered'[i]) :
                    received[cut2[i - 1] + j] = <<i, j>>
  <2>1. CASE i \in 1..n
    <3>1. /\ i \in 0..n /\ i - 1 \in 0..n
      BY <1>6, <2>1
    <3>2. /\ cut2[i] = cut[i] /\ cut2[i - 1] = cut[i - 1]
          /\ delivered'[i] = delivered[i]
      BY <1>7, <1>10, <2>1, <3>1
    <3>. QED
      BY <1>9, <2>1, <3>2
  <2>2. CASE i = n + 1
    <3>1. n \in 0..n /\ i - 1 = n
      BY <1>6, <2>2
    <3>2. cut2[i] = cut[n] + z /\ cut2[i - 1] = cut[n] /\ delivered'[i] = f
      BY <1>7, <1>10, <2>2, <3>1
    <3>3. Size(delivered'[i]) = z
      BY <3>2 DEF z
    <3>4. cut[n] + z <= Len(received)
      BY <1>3, <1>5, <1>6, <1>9
    <3>5. ASSUME NEW j \in 1..z PROVE received[cut[n] + j] = <<i, j>>
      <4>1. j \in 1..Len(rbuf)
        BY <1>3, <1>5, <1>6
      <4>. QED
        BY <1>3, <1>4, <1>9, <2>2, <4>1
    <3>. QED
      BY <3>2, <3>3, <3>4, <3>5
  <2>3. i \in 1..n \/ i = n + 1
    BY <1>6
  <2>. QED
    BY <2>1, <2>2, <2>3
<1>12. /\ cut2[0] = 0
       /\ cut2[n + 1] + Len(rbuf') = Len(received)
  <2>1. 0 \in 0..n
    BY <1>6
  <2>. QED
    BY <1>5, <1>6, <1>8, <1>9, <1>10, <2>1
<1>13. ASSUME NEW j \in 1..Len(rbuf') PROVE received[cut2[n + 1] + j] = rbuf'[j]
  <2>1. /\ j \in 1..(Len(rbuf) - z) /\ z + j \in 1..Len(rbuf)
        /\ (cut[n] + z) + j = cut[n] + (z + j)
    BY <1>5, <1>6, <1>8, <1>9
  <2>. QED
    BY <1>8, <1>9, <1>10, <2>1
<1>14. Cuts(cut2)'
  BY <1>2, <1>7, <1>10, <1>11, <1>12, <1>13 DEF Cuts, Size
<1>15. Known(received)'
  BY <1>2, <1>6 DEF Known
<1>. QED
  BY <1>14, <1>15 DEF AllAccounted

\* What is read goes behind the buffer, there and in all that was read.
LEMMA ReadAccounted ==
    ASSUME FramingInv, AllAccounted, NEW k \in 1..ReadSize, ReadSome(k)
    PROVE  AllAccounted'
<1>. DEFINE t == SubSeq(wire, 1, k)
            n == Len(delivered)
<1>1. PICK cut : Cuts(cut)
  BY DEF AllAccounted
<1>2. /\ rbuf' = rbuf \o t /\ received' = received \o t
      /\ sent' = sent /\ delivered' = delivered
      /\ k <= Len(wire)
  BY DEF ReadSome
<1>3. /\ rbuf \in Seq(Byte) /\ wire \in Seq(Byte) /\ received \in Seq(Byte)
      /\ Known(received) /\ n \in Nat /\ Len(sent) \in Nat
      /\ Len(rbuf) \in Nat /\ Len(wire) \in Nat /\ Len(received) \in Nat
  BY LenProperties DEF FramingInv, StreamTypeOK, AllAccounted, Known
<1>4. /\ t \in Seq(Byte) /\ Len(t) = k /\ k \in Nat
      /\ \A j \in 1..k : t[j] = wire[j] /\ j \in 1..Len(wire)
  <2>1. k \in Nat /\ \A j \in 1..k : j \in 1..Len(wire)
    BY <1>2, <1>3, FramingAssumption
  <2>2. \A j \in 1..k : wire[j] \in Byte
    BY <1>3, <2>1, ElementOfSeq
  <2>. QED
    BY <1>2, <1>3, <2>1, <2>2, SubSeqProperties
<1>5. \A j \in 1..k : t[j][1] \in 1..Len(sent)
  <2>1. ASSUME NEW j \in 1..Len(wire) PROVE wire[j][1] \in 1..Len(sent)
    <3>1. /\ Stream[Len(rbuf) + j] = wire[j]
          /\ Len(Stream) = Len(rbuf) + Len(wire)
      BY StreamShape DEF FramingInv
    <3>2. Len(rbuf) + j \in 1..Len(Stream)
      BY <1>3, <3>1
    <3>. QED
      BY <3>1, <3>2 DEF FramingInv, Consecutive
  <2>. QED
    BY <1>4, <2>1
<1>. HIDE DEF t
<1>6. /\ rbuf' \in Seq(Byte) /\ Len(rbuf') = Len(rbuf) + k
      /\ \A j \in 1..Len(rbuf) : rbuf'[j] = rbuf[j]
      /\ \A j \in 1..k : rbuf'[Len(rbuf) + j] = t[j]
  <2>1. /\ rbuf \o t \in Seq(Byte) /\ Len(rbuf \o t) = Len(rbuf) + Len(t)
        /\ \A j \in 1..Len(rbuf) : (rbuf \o t)[j] = rbuf[j]
        /\ \A j \in 1..Len(t) : (rbuf \o t)[Len(rbuf) + j] = t[j]
    BY <1>3, <1>4, JoinedShape
  <2>. QED
    BY <1>2, <1>4, <2>1
<1>7. /\ received' \in Seq(Byte) /\ Len(received') = Len(received) + k
      /\ \A j \in 1..Len(received) : received'[j] = received[j]
      /\ \A j \in 1..k : received'[Len(received) + j] = t[j]
  <2>1. /\ received \o t \in Seq(Byte)
        /\ Len(received \o t) = Len(received) + Len(t)
        /\ \A j \in 1..Len(received) : (received \o t)[j] = received[j]
        /\ \A j \in 1..Len(t) : (received \o t)[Len(received) + j] = t[j]
    BY <1>3, <1>4, JoinedShape
  <2>. QED
    BY <1>2, <1>4, <2>1
<1>8. Known(received)'
  <2>1. ASSUME NEW j \in 1..Len(received')
        PROVE  received'[j][1] \in 1..Len(sent)
    <3>1. CASE j <= Len(received)
      BY <1>3, <1>7, <3>1 DEF Known
    <3>2. CASE ~(j <= Len(received))
      <4>1. /\ j - Len(received) \in 1..k
            /\ Len(received) + (j - Len(received)) = j
        BY <1>3, <1>4, <1>7, <3>2
      <4>. QED
        BY <1>5, <1>7, <4>1
    <3>. QED
      BY <3>1, <3>2
  <2>. QED
    BY <1>2, <1>7, <2>1 DEF Known
<1>. HIDE DEF n
<1>9. /\ cut \in [0..n -> Nat] /\ cut[0] = 0 /\ cut[n] \in Nat
      /\ cut[n] + Len(rbuf) = Len(received)
      /\ \A j \in 1..Len(rbuf) : received[cut[n] + j] = rbuf[j]
      /\ \A i \in 1..n :
            /\ cut[i] = cut[i - 1] + Size(delivered[i])
            /\ cut[i] <= Len(received)
            /\ \A j \in 1..Size(delivered[i]) :
                  received[cut[i - 1] + j] = <<i, j>>
  BY <1>1, <1>3 DEF Cuts, n
<1>10. ASSUME NEW i \in 1..n
       PROVE  /\ cut[i] <= Len(received')
              /\ \A j \in 1..Size(delivered[i]) :
                    received'[cut[i - 1] + j] = <<i, j>>
  <2>1. cut[i] \in Nat /\ cut[i - 1] \in Nat
    <3>1. i \in 0..n /\ i - 1 \in 0..n
      BY <1>3
    <3>. QED
      BY <1>9, <3>1
  <2>2. Size(delivered[i]) \in Nat
    BY <1>3, ElementOfSeq, SizeBounds DEF FramingInv, StreamTypeOK, n
  <2>3. /\ cut[i] = cut[i - 1] + Size(delivered[i]) /\ cut[i] <= Len(received)
        /\ \A j \in 1..Size(delivered[i]) : received[cut[i - 1] + j] = <<i, j>>
    BY <1>9
  <2>4. ASSUME NEW j \in 1..Size(delivered[i])
        PROVE  received'[cut[i - 1] + j] = <<i, j>>
    <3>1. cut[i - 1] + j \in 1..Len(received)
      BY <1>3, <2>1, <2>2, <2>3
    <3>. QED
      BY <1>7, <2>3, <3>1
  <2>5. cut[i] <= Len(received')
    BY <1>3, <1>4, <1>7, <2>1, <2>3
  <2>. QED
    BY <2>4, <2>5
<1>11. ASSUME NEW j \in 1..Len(rbuf') PROVE received'[cut[n] + j] = rbuf'[j]
  <2>1. CASE j <= Len(rbuf)
    <3>1. j \in 1..Len(rbuf) /\ cut[n] + j \in 1..Len(received)
      BY <1>3, <1>6, <1>9, <2>1
    <3>. QED
      BY <1>6, <1>7, <1>9, <3>1
  <2>2. CASE ~(j <= Len(rbuf))
    <3>1. PICK m : m = j - Len(rbuf)
      OBVIOUS
    <3>2. j \in Nat /\ j <= Len(rbuf) + k
      BY <1>3, <1>4, <1>6
    <3>3. m \in 1..k /\ Len(rbuf) + m = j
      BY <1>3, <1>4, <2>2, <3>1, <3>2
    <3>4. cut[n] \in Nat /\ cut[n] + Len(rbuf) = Len(received)
      BY <1>9
    <3>5. Len(received) + m = cut[n] + j
      <4>1. PICK a, l : a = cut[n] /\ l = Len(rbuf)
        OBVIOUS
      <4>2. a \in Nat /\ l \in Nat /\ j \in Nat /\ m = j - l
        BY <1>3, <3>1, <3>2, <3>4, <4>1
      <4>3. (a + l) + m = a + j
        BY ONLY <4>2
      <4>. QED
        BY <3>4, <4>1, <4>3
    <3>. QED
      BY <1>6, <1>7, <3>3, <3>5
  <2>. QED
    BY <2>1, <2>2
<1>12. cut[n] + Len(rbuf') = Len(received')
  <2>1. PICK a, l : a = cut[n] /\ l = Len(rbuf)
    OBVIOUS
  <2>2. a \in Nat /\ l \in Nat /\ k \in Nat /\ a + l = Len(received)
    BY <1>3, <1>4, <1>9, <2>1
  <2>3. a + (l + k) = (a + l) + k
    BY ONLY <2>2
  <2>. QED
    BY <1>6, <1>7, <2>1, <2>2, <2>3
<1>13. Cuts(cut)'
  <2>1. /\ cut \in [0..n -> Nat] /\ cut[0] = 0
        /\ \A i \in 1..n :
              /\ cut[i] = cut[i - 1] + Size(delivered[i])
              /\ cut[i] <= Len(received')
              /\ \A j \in 1..Size(delivered[i]) :
                    received'[cut[i - 1] + j] = <<i, j>>
        /\ cut[n] + Len(rbuf') = Len(received')
        /\ \A j \in 1..Len(rbuf') : received'[cut[n] + j] = rbuf'[j]
    BY <1>9, <1>10, <1>11, <1>12
  <2>2. delivered' = delivered
    BY <1>2
  <2>. QED
    BY ONLY <2>1, <2>2 DEF Cuts, Size, n
<1>. QED
  BY <1>8, <1>13 DEF AllAccounted

\* At first nothing is read.
LEMMA AccountedInit == FramingInit => AllAccounted
<1>. SUFFICES ASSUME FramingInit PROVE AllAccounted
  OBVIOUS
<1>1. /\ Len(delivered) = 0 /\ Len(received) = 0 /\ Len(rbuf) = 0
      /\ received \in Seq(Byte)
  BY EmptySeq DEF FramingInit
<1>2. PICK cut : cut = [i \in 0..0 |-> 0]
  OBVIOUS
<1>3. Cuts(cut)
  BY <1>1, <1>2 DEF Cuts
<1>4. Known(received)
  BY <1>1 DEF Known
<1>. QED
  BY <1>3, <1>4 DEF AllAccounted

\* No step loses account of a byte.
LEMMA AccountedStep ==
    ASSUME FramingInv, AllAccounted, [FramingNext]_framingVars
    PROVE  AllAccounted'
<1>1. CASE /\ UNCHANGED <<rbuf, received, delivered>>
           /\ sent' = sent \/ \E f \in Frames : sent' = Append(sent, f)
  BY <1>1, NothingReadKeeps
<1>2. CASE \E kind \in {"blocking", "nonblocking"} : ReceiveBegin(kind)
  BY <1>1, <1>2 DEF ReceiveBegin
<1>3. CASE Reject \/ ReadEnd \/ Close
  BY <1>1, <1>3 DEF Reject, ReadEnd, Close
<1>4. CASE Sending
  BY <1>1, <1>4 DEF Sending, SendSome
<1>5. CASE \E w \in Writers, f \in Frames : SendBegin(w, f)
  BY <1>1, <1>5 DEF SendBegin
<1>6. CASE UNCHANGED framingVars
  BY <1>1, <1>6 DEF framingVars
<1>. QED
  BY <1>2, <1>3, <1>4, <1>5, <1>6, DeliverAccounted, ReadAccounted
     DEF FramingNext, Receiving

\* The end of the stream is the end: no step sends or reads any more.
LEMMA EndedStep ==
    ASSUME FramingInv, Ended, [FramingNext]_framingVars
    PROVE  Ended'
<1>1. CASE /\ UNCHANGED <<closed, wire, rbuf, reply, sent>>
  BY <1>1 DEF Ended, EndReply, Verdict, Whole, First, Enough, Size
<1>2. CASE /\ UNCHANGED <<closed, wire, rbuf, sent>>
           /\ reply' \notin {"closed", "partial"}
  BY <1>2 DEF Ended
<1>3. CASE ReadEnd
  BY <1>3 DEF ReadEnd, Return, Ended, EndReply, Verdict, Whole, First, Enough,
              Size
<1>4. CASE Deliver \/ Reject
  BY <1>4 DEF Deliver, Reject, Return, Ended
<1>5. ASSUME NEW k \in 1..ReadSize, ReadSome(k) PROVE Ended'
  <2>1. /\ k <= Len(wire) /\ reply' \in {reply, "overflow", "incomplete"}
    BY <1>5 DEF ReadSome, Return
  <2>2. wire # << >>
    <3>1. Len(<< >>) = 0
      BY EmptySeq
    <3>2. k \in Nat /\ k > 0
      BY FramingAssumption
    <3>. QED
      BY <2>1, <3>1, <3>2
  <2>3. reply' \notin {"closed", "partial"}
    BY <2>1, <2>2 DEF Ended
  <2>. QED
    BY <2>3 DEF Ended
<1>6. CASE Sending \/ Close \/ \E w \in Writers, f \in Frames : SendBegin(w, f)
  <2>1. ~closed /\ reply' = reply
    BY <1>6 DEF Sending, SendSome, Close, SendBegin
  <2>. QED
    BY <2>1 DEF Ended
<1>7. CASE \E kind \in {"blocking", "nonblocking"} : ReceiveBegin(kind)
  BY <1>1, <1>7 DEF ReceiveBegin
<1>8. CASE UNCHANGED framingVars
  BY <1>1, <1>8 DEF framingVars
<1>. QED
  BY <1>3, <1>4, <1>5, <1>6, <1>7, <1>8 DEF FramingNext, Receiving

\* Wherever reads and calls cut the bytes, and whatever the peer sends:
\* receive() delivers what decode_frames makes of them all, and ends as it does.
THEOREM ReceiveAlwaysAgrees == FramingSpec => []ReceiveAgreesWithDecode
<1>1. FramingInit => AllAccounted /\ Ended /\ Rejected
  BY AccountedInit DEF FramingInit, Ended, Rejected, Illegal
<1>2. ASSUME FramingInv, AllAccounted, Ended, Rejected,
             [FramingNext]_framingVars
      PROVE  AllAccounted' /\ Ended' /\ Rejected'
  BY <1>2, AccountedStep, EndedStep, RejectedStep
<1>3. FramingInv /\ AllAccounted /\ Ended /\ Rejected => ReceiveAgreesWithDecode
  <2>. SUFFICES ASSUME FramingInv, AllAccounted, Ended, Rejected
                PROVE  ReceiveAgreesWithDecode
    OBVIOUS
  <2>1. CASE reply = "closed"
    <3>1. rbuf = << >> /\ Verdict(rbuf) = "more"
      BY <2>1 DEF Ended, EndReply
    <3>2. DecodeFrames(received) = [frames |-> delivered, status |-> "good"]
      BY <3>1, DecodesToDelivered
    <3>. QED
      BY <2>1, <3>2 DEF ReceiveAgreesWithDecode
  <2>2. CASE reply = "partial"
    <3>1. rbuf # << >> /\ Verdict(rbuf) = "more"
      BY <2>2 DEF Ended, EndReply
    <3>2. DecodeFrames(received) = [frames |-> delivered, status |-> "more"]
      BY <3>1, DecodesToDelivered
    <3>. QED
      BY <2>2, <3>2 DEF ReceiveAgreesWithDecode
  <2>3. CASE reply \in Illegal
    <3>1. Verdict(rbuf) = reply /\ Len(rbuf) > 0
      BY <2>3 DEF Rejected
    <3>2. rbuf # << >> /\ Verdict(rbuf) # "frame"
      BY <2>3, <3>1, EmptySeq DEF Illegal
    <3>3. DecodeFrames(received) = [frames |-> delivered, status |-> reply]
      BY <3>1, <3>2, DecodesToDelivered
    <3>. QED
      BY <2>3, <3>3 DEF ReceiveAgreesWithDecode, Illegal
  <2>4. CASE reply \notin Illegal \cup {"closed", "partial"}
    BY <2>4 DEF ReceiveAgreesWithDecode, Illegal
  <2>. QED
    BY <2>1, <2>2, <2>3, <2>4
<1>. QED
  BY <1>1, <1>2, <1>3, StreamConsecutive, PTL DEF FramingSpec
=============================================================================
