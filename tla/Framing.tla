------------------------------- MODULE Framing -------------------------------
(***************************************************************************)
(* Connection: framed messages over one direction of a stream socket.      *)
(* Several threads send, one receives; writes and reads are partial, and   *)
(* the sending side may close or die in the middle of a frame.  The peer   *)
(* need not be a Connection and may send frames that are not legal.        *)
(*                                                                         *)
(* A byte is <<n, j>>, the j-th byte of the n-th frame sent.               *)
(***************************************************************************)
EXTENDS Sequences, Naturals

CONSTANTS
    Writers,            \* threads that call send()
    Frames,             \* the frames they may send
    HeaderLen, CrcLen,  \* kFrameHeaderLen, kFrameCrcLen
    MaxPayload,         \* kMaxFramePayload
    ReadSize,           \* of the buffer recv() fills
    WireCapacity,       \* of the socket's buffers
    MaxFrames           \* how many frames are sent: a bound of the instance

\* What is wrong with a frame, if anything: its magic or version, a length
\* beyond MaxPayload, its checksum.
Defect == {"none", "header", "length", "checksum"}

ASSUME FramingAssumption ==
    /\ HeaderLen \in Nat \ {0} /\ CrcLen \in Nat
    /\ MaxPayload \in Nat
    /\ ReadSize \in Nat \ {0} /\ WireCapacity \in Nat \ {0}
    /\ Frames \subseteq [len : 0..MaxPayload, defect : Defect]

VARIABLES
    sent,           \* the frames sent, in the order their sends began
    writing,        \* the frame each thread is writing and how far it got
    closed,         \* the sending side is closed
    wire,           \* bytes on their way
    received,       \* all bytes ever read
    rbuf,           \* rbuf_
    call,           \* the receive() under way
    reply,          \* what the last receive() returned
    delivered       \* the frames received

framingVars == <<sent, writing, closed, wire, received, rbuf, call, reply,
                 delivered>>

-----------------------------------------------------------------------------
(* Bytes and frames. *)

Size(f) == HeaderLen + f.len + CrcLen
LargestFrame == HeaderLen + MaxPayload + CrcLen
Bytes(n, from, to) == [j \in 1..(to - from) |-> <<n, from + j>>]
Dropped(s, k) == SubSeq(s, k + 1, Len(s))

\* The first k bytes are those of one and the same frame.
Whole(s, k) == \A j \in 1..k : s[j] = <<s[1][1], j>>
First(s) == sent[s[1][1]]

EnoughButOne(s, f) == Len(s) > Size(f)

\* The frame s begins with is there to its last byte.
Enough(s, f) == Len(s) >= Size(f)

\* What the checks of receive() and decode_frames() say of the first frame.
Verdict(s) ==
    CASE Len(s) < HeaderLen -> "more"
      [] Len(s) >= HeaderLen
         /\ (~Whole(s, HeaderLen) \/ First(s).defect = "header") ->
            "malformed"
      [] Len(s) >= HeaderLen /\ Whole(s, HeaderLen)
         /\ First(s).defect = "length" ->
            "oversized"
      [] OTHER ->
            IF ~Enough(s, First(s)) THEN "more"
            ELSE IF ~Whole(s, Size(First(s))) \/ First(s).defect = "checksum"
            THEN "mismatch"
            ELSE "frame"

\* One round of decode_frames' loop, at place k: what it makes of the bytes from
\* there on, given what it makes of those from each later place on.
DecodeAt(bytes, from, k) ==
    LET s == Dropped(bytes, k)
    IN  CASE s = << >> -> [frames |-> << >>, status |-> "good"]
          [] s # << >> /\ Verdict(s) = "frame" ->
                LET rest == from[k + Size(First(s))]
                IN  [rest EXCEPT !.frames = <<First(s)>> \o @]
          [] OTHER -> [frames |-> << >>, status |-> Verdict(s)]

\* decode_frames: the complete frames of a buffer and what it ends with.
DecodeFrames(bytes) ==
    LET from[k \in 0..Len(bytes)] == DecodeAt(bytes, from, k)
    IN  from[0]

-----------------------------------------------------------------------------
Nothing == [frame |-> 0, done |-> 0]

FramingInit ==
    /\ sent = << >> /\ writing = [w \in Writers |-> Nothing] /\ closed = FALSE
    /\ wire = << >> /\ received = << >> /\ rbuf = << >>
    /\ call = "none" /\ reply = "none" /\ delivered = << >>

-----------------------------------------------------------------------------
(* send(). *)

WriteLockIgnored == TRUE

\* write_mu_ is free.
WriteLockFree == \A w \in Writers : writing[w] = Nothing

\* send() of a frame begins once it has the lock ...
SendBegin(w, f) ==
    /\ ~closed
    /\ writing[w] = Nothing
    /\ WriteLockFree
    /\ Len(sent) < MaxFrames
    /\ sent' = Append(sent, f)
    /\ writing' = [writing EXCEPT ![w] = [frame |-> Len(sent) + 1, done |-> 0]]
    /\ UNCHANGED <<closed, wire, received, rbuf, call, reply, delivered>>

\* ... and write_all hands the socket as much at a time as it takes.
SendSome(w, k) ==
    LET n == writing[w].frame
        done == writing[w].done
    IN  /\ ~closed
        /\ n # 0
        /\ done + k <= Size(sent[n])
        /\ Len(wire) + k <= WireCapacity
        /\ wire' = wire \o Bytes(n, done, done + k)
        /\ writing' = [writing EXCEPT ![w] =
                         IF done + k = Size(sent[n])
                         THEN Nothing
                         ELSE [frame |-> n, done |-> done + k]]
        /\ UNCHANGED <<sent, closed, received, rbuf, call, reply, delivered>>

\* The sending side closes or dies, perhaps in the middle of a frame.
Close ==
    /\ ~closed
    /\ closed' = TRUE
    /\ writing' = [w \in Writers |-> Nothing]
    /\ UNCHANGED <<sent, wire, received, rbuf, call, reply, delivered>>

-----------------------------------------------------------------------------
(* receive(). *)

Return(result) == call' = "none" /\ reply' = result

\* receive(frame, blocking) is called, also again after it failed.
ReceiveBegin(kind) ==
    /\ call = "none"
    /\ call' = kind
    /\ UNCHANGED <<sent, writing, closed, wire, received, rbuf, reply,
                   delivered>>

\* The buffer begins with a complete frame.
Deliver ==
    /\ call # "none"
    /\ Verdict(rbuf) = "frame"
    /\ delivered' = Append(delivered, First(rbuf))
    /\ rbuf' = Dropped(rbuf, Size(First(rbuf)))
    /\ Return("frame")
    /\ UNCHANGED <<sent, writing, closed, wire, received>>

RejectAndSkip ==
    /\ call # "none"
    /\ Verdict(rbuf) \in {"malformed", "oversized", "mismatch"}
    /\ Return(Verdict(rbuf))
    /\ rbuf' = << >>
    /\ UNCHANGED <<sent, writing, closed, wire, received, delivered>>

\* It begins with one that is not legal, and keeps it.
Reject ==
    /\ call # "none"
    /\ Verdict(rbuf) \in {"malformed", "oversized", "mismatch"}
    /\ Return(Verdict(rbuf))
    /\ UNCHANGED <<sent, writing, closed, wire, received, rbuf, delivered>>

LimitWithoutFrame == MaxPayload

\* How much the buffer may hold after a read.
Limit == LargestFrame

\* There is more to read; the buffer must not outgrow one frame of the largest
\* size, whatever it holds, and a call that is not blocking reads only once.
ReadSome(k) ==
    /\ call # "none"
    /\ Verdict(rbuf) = "more"
    /\ k <= Len(wire)
    /\ rbuf' = rbuf \o SubSeq(wire, 1, k)
    /\ received' = received \o SubSeq(wire, 1, k)
    /\ wire' = Dropped(wire, k)
    /\ IF Len(rbuf') > Limit THEN Return("overflow")
       ELSE IF call = "nonblocking" THEN Return("incomplete")
       ELSE UNCHANGED <<call, reply>>
    /\ UNCHANGED <<sent, writing, closed, delivered>>

EndReplyClosed == "closed"
EndReply == IF rbuf = << >> THEN "closed" ELSE "partial"

\* The peer has closed and there is nothing left to read.
ReadEnd ==
    /\ call # "none"
    /\ Verdict(rbuf) = "more"
    /\ closed /\ wire = << >>
    /\ Return(EndReply)
    /\ UNCHANGED <<sent, writing, closed, wire, received, rbuf, delivered>>

-----------------------------------------------------------------------------
Receiving ==
    \/ \E kind \in {"blocking", "nonblocking"} : ReceiveBegin(kind)
    \/ Deliver
    \/ Reject
    \/ \E k \in 1..ReadSize : ReadSome(k)
    \/ ReadEnd

Sending == \E w \in Writers : \E k \in 1..WireCapacity : SendSome(w, k)

FramingNext ==
    \/ Receiving
    \/ Sending
    \/ \E w \in Writers, f \in Frames : SendBegin(w, f)
    \/ Close

FramingSpec == FramingInit /\ [][FramingNext]_framingVars

\* A send that was begun goes on, and the receiving side keeps calling.
FramingFairSpec ==
    FramingSpec /\ WF_framingVars(Sending) /\ WF_framingVars(Receiving)

-----------------------------------------------------------------------------
(* Properties. *)

\* Types; and the buffer is bounded, also when receive() is called again after
\* it gave up on it.
FramingTypeOK ==
    /\ sent \in Seq(Frames)
    /\ reply \in {"none", "frame", "malformed", "oversized", "mismatch",
                  "overflow", "incomplete", "closed", "partial"}
    /\ Len(wire) <= WireCapacity
    /\ Len(rbuf) < LargestFrame + ReadSize

\* The frames delivered are the first ones sent, each once and in the order in
\* which the senders got the lock, and none that is not legal: neither two
\* senders nor partial writes and reads mix them.
DeliveredInOrder ==
    /\ Len(delivered) <= Len(sent)
    /\ \A n \in DOMAIN delivered :
          delivered[n] = sent[n] /\ sent[n].defect = "none"

\* However the bytes were cut into reads, receive() delivers what decode_frames
\* makes of all of them at once, and ends as it does: with nothing left, in the
\* middle of a frame, or at the first one that is not legal.
ReceiveAgreesWithDecode ==
    LET decoded == DecodeFrames(received)
    IN  /\ reply = "closed" => decoded = [frames |-> delivered,
                                          status |-> "good"]
        /\ reply = "partial" => decoded = [frames |-> delivered,
                                           status |-> "more"]
        /\ reply \in {"malformed", "oversized", "mismatch"} =>
              decoded = [frames |-> delivered, status |-> reply]

\* A receive() that gives up on its buffer had a frame in it that is within
\* ReadSize of the largest size: a stream of smaller frames is never refused,
\* however many of them one read brings along.
OverflowNeedsLargeFrame ==
    reply = "overflow" /\ call = "none" /\ rbuf # << >> =>
        Size(First(rbuf)) + ReadSize > LargestFrame + 1

\* A connection that received a frame that is not legal delivers nothing more.
MalformedSticks ==
    [][/\ reply \in {"malformed", "oversized", "mismatch"}
       => reply' = reply /\ delivered' = delivered]_framingVars

\* Frame n was handed to the socket to its last byte, after legal ones only.
Written(n) ==
    /\ n \in DOMAIN sent
    /\ \A m \in 1..n : sent[m].defect = "none"
    /\ ~closed /\ \A w \in Writers : writing[w].frame # n

\* A legal frame that was written is delivered, as long as the receiving side
\* calls again when it was told that its buffer overflowed or that there was
\* nothing complete yet, even if the sender closes afterwards.
WrittenIsDelivered ==
    \A n \in 1..MaxFrames : Written(n) ~> Len(delivered) >= n
=============================================================================
