---------------------------- MODULE MessageDecode ----------------------------
(***************************************************************************)
(* net::messagedecode (src/src/Message.cpp): frames, each a big-endian     *)
(* length and that many bytes, are recovered from a byte stream that TCP   *)
(* delivers in pieces of any size.  The numbers are scaled: a length has   *)
(* HeadSize digits of base Base instead of four of base 256, and the       *)
(* limits of a message and of the consumed part of the buffer are small.   *)
(***************************************************************************)
EXTENDS Integers, Sequences

CONSTANTS Base,       \* bytes are 0..Base-1
          MaxLen,     \* messagemaxlen
          Consumed,   \* 1024*512: more than this in front of idx is cut off
          MaxStream   \* bound: bytes the peer sends

ASSUME ScalesAssumption == /\ Base \in Nat /\ Base > 1 /\ MaxLen \in Nat /\ MaxLen > 0
                           /\ Consumed \in Nat /\ MaxStream \in Nat

HeadSize == 2

VARIABLES stream,    \* the bytes the peer has sent so far
          Inputbuf, idx, msg, error,  \* members of messagedecode
          taken      \* what take() has handed out, over time

decodeVars == <<stream, Inputbuf, idx, msg, error, taken>>

Bytes == 0..(Base - 1)

DecodeTypeOK == /\ stream \in Seq(Bytes)
                /\ Inputbuf \in Seq(Bytes)
                /\ idx \in 0..Len(Inputbuf)
                /\ \A i \in 1..Len(msg) : msg[i] \in Seq(Bytes) /\ Len(msg[i]) <= MaxLen
                /\ error \in BOOLEAN

DecodeInit == /\ stream = <<>>
              /\ Inputbuf = <<>>
              /\ idx = 0
              /\ msg = <<>>
              /\ error = FALSE
              /\ taken = <<>>

\* The decoder while feed works on it.
Decoder(b, i, m, e) == [buf |-> b, idx |-> i, msg |-> m, error |-> e]

\* A decoder that never cuts the consumed bytes off.
CompactNever(d) == d

Compact(d) == IF d.idx > Consumed
              THEN [d EXCEPT !.buf = SubSeq(d.buf, d.idx + 1, Len(d.buf)), !.idx = 0]
              ELSE d

Available(d) == Len(d.buf) - d.idx

MsgLen(d) == d.buf[d.idx + 1] * Base + d.buf[d.idx + 2]

\* A limit that excludes the longest message.
TooLongOrEqual(d) == MsgLen(d) >= MaxLen

TooLong(d) == MsgLen(d) > MaxLen

Frame(d) ==
    LET first == d.idx + HeadSize + 1
        last  == d.idx + HeadSize + MsgLen(d)
    IN  [d EXCEPT !.msg = Append(@, SubSeq(d.buf, first, last)), !.idx = last]

\* The loop of feed: at most n turns, of which there are never as many as bytes.
Loop[n \in Nat] ==
    [d \in [buf : Seq(Bytes), idx : Nat, msg : Seq(Seq(Bytes)), error : BOOLEAN] |->
        LET c == Compact(d)
        IN  IF Available(c) < HeadSize THEN c
            ELSE IF TooLong(c) THEN Decoder(<<>>, 0, c.msg, TRUE)
            ELSE IF Available(c) - HeadSize < MsgLen(c) \/ n = 0 THEN c
            ELSE Loop[n - 1][Frame(c)]]

\* feed: a decoder that is broken swallows what it gets.
Feed(data) ==
    /\ Len(stream) + Len(data) <= MaxStream
    /\ stream' = stream \o data
    /\ IF error THEN UNCHANGED <<Inputbuf, idx, msg, error>>
       ELSE LET d == Loop[MaxStream][Decoder(Inputbuf \o data, idx, msg, FALSE)]
            IN  /\ Inputbuf' = d.buf
                /\ idx' = d.idx
                /\ msg' = d.msg
                /\ error' = d.error
    /\ UNCHANGED taken

\* take: the messages are moved out.
Take == /\ msg # <<>>
        /\ taken' = taken \o msg
        /\ msg' = <<>>
        /\ UNCHANGED <<stream, Inputbuf, idx, error>>

DecodeNext == \/ \E n \in 1..MaxStream : \E data \in [1..n -> Bytes] : Feed(data)
              \/ Take

DecodeSpec == DecodeInit /\ [][DecodeNext]_decodeVars

-----------------------------------------------------------------------------

\* The frames of a whole stream, and whether a length in it is too long: the
\* reference, which knows nothing of pieces, buffers and indices.
Frames[s \in Seq(Bytes)] ==
    IF Len(s) < HeadSize THEN [msgs |-> <<>>, broken |-> FALSE]
    ELSE LET len  == s[1] * Base + s[2]
             rest == Frames[SubSeq(s, HeadSize + len + 1, Len(s))]
         IN  IF len > MaxLen THEN [msgs |-> <<>>, broken |-> TRUE]
             ELSE IF Len(s) < HeadSize + len THEN [msgs |-> <<>>, broken |-> FALSE]
             ELSE [rest EXCEPT !.msgs = <<SubSeq(s, HeadSize + 1, HeadSize + len)>> \o @]

\* However the stream is cut into pieces, and whenever take is called, the
\* messages are those of the whole stream, and the decoder is broken exactly
\* if the stream is.
ChunkingIrrelevant ==
    LET whole == Frames[stream]
    IN  /\ taken \o msg = whole.msgs
        /\ error = whole.broken

\* The buffer does not grow with the stream: when feed returns it holds at
\* most one partial frame behind a limited number of consumed bytes.
BufferBounded == Len(Inputbuf) < Consumed + HeadSize + MaxLen
=============================================================================
