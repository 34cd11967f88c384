-------------------------------- MODULE Wire --------------------------------
(***************************************************************************)
(* One direction of a connection, byte by byte: the goroutines that write  *)
(* messages on a Conn, the socket buffers between the two hosts, and the   *)
(* goroutine that reads messages at the other end.                         *)
(*                                                                         *)
(* A frame is one byte for the type, four bytes for the length of the      *)
(* payload, most significant first, and the payload.  The number of byte   *)
(* values, 256 in the code, is a parameter.  The JSON text of a payload is *)
(* a sequence of bytes that is never empty.                                *)
(***************************************************************************)
EXTENDS Naturals, Sequences, FiniteSets

CONSTANTS Base,          \* number of byte values
          MaxFrameSize,  \* largest payload
          PayloadTypes,  \* type bytes of the messages that have a payload
          EmptyTypes,    \* MSG_PING, MSG_PONG
          Messages,      \* messages the writers send
          Writers,       \* goroutines that share the Conn
          PipeCap,       \* bytes the socket buffers hold
          MaxMessages    \* calls of WriteMessage

Byte == 0 .. Base - 1
HeaderSize == 5
None == "none"

ASSUME WireAssumption ==
  /\ Base \in Nat \ {0, 1}
  /\ MaxFrameSize \in Nat /\ MaxFrameSize < Base * Base * Base * Base
  /\ PayloadTypes \subseteq Byte /\ EmptyTypes \subseteq Byte
  /\ PayloadTypes \cap EmptyTypes = {}
  /\ Messages \subseteq [type : PayloadTypes \cup EmptyTypes, body : Seq(Byte)]
  /\ \A m \in Messages : m.body = <<>> <=> m.type \in EmptyTypes
  /\ None \notin Writers /\ PipeCap \in Nat /\ MaxMessages \in Nat

VARIABLES up,      \* the connection is there
          wmu,     \* the writer that holds the lock, or None
          frame,   \* what each writer has encoded and not yet written
          busy,    \* writers inside WriteMessage
          pipe,    \* bytes between the two hosts
          rbuf,    \* bytes of the current frame the reader has
          reader,  \* "reads", or why ReadMessage returned an error
          got,     \* messages read
          calls,
          flight,  \* history: the frames whose writer has locked and which are
                   \* not yet read, with the position at which each starts
          done     \* history: number of bytes of the frames that were read

hist == <<flight, done>>
vars == <<up, wmu, frame, busy, pipe, rbuf, reader, got, calls, hist>>

Init ==
  /\ up = TRUE /\ wmu = None /\ frame = [w \in Writers |-> <<>>] /\ busy = {}
  /\ pipe = <<>> /\ rbuf = <<>> /\ reader = "reads" /\ got = <<>> /\ calls = 0
  /\ flight = <<>> /\ done = 0

-----------------------------------------------------------------------------
(* The codec.                                                              *)

\* binary.BigEndian.PutUint32 and Uint32.
PutLength(n) ==
  LET n1 == n \div Base
      n2 == n1 \div Base
      n3 == n2 \div Base
  IN <<n3 % Base, n2 % Base, n1 % Base, n % Base>>

Length(b1, b2, b3, b4) == ((b1 * Base + b2) * Base + b3) * Base + b4

\* Mutant: no limit when writing.
EncodableAny(m) == TRUE

\* Encode returns an error for a payload that is too large.
Encodable(m) == Len(m.body) <= MaxFrameSize

Encode(m) == <<m.type>> \o PutLength(Len(m.body)) \o m.body

\* What a reader that has seen exactly these bytes of a frame returns: it
\* needs more, has the message, or rejects the frame.
More == [what |-> "more"]
Reject == [what |-> "rejected"]
Whole(t, body) == [what |-> "message", msg |-> [type |-> t, body |-> body]]

\* parseMessage: an unknown type is an error.
parseMessage(t, body) == IF t \in PayloadTypes \cup EmptyTypes THEN Whole(t, body) ELSE Reject

\* Mutant: the length is read one byte too early.
ReadFrameShort(bytes) ==
  IF Len(bytes) < HeaderSize THEN More
  ELSE LET length == Length(bytes[1], bytes[2], bytes[3], bytes[4])
       IN IF Len(bytes) < HeaderSize + length THEN More
          ELSE Whole(bytes[1], SubSeq(bytes, HeaderSize + 1, HeaderSize + length))

\* Conn.ReadMessage: the header with io.ReadFull, its checks, then the payload.
ReadFrame(bytes) ==
  IF Len(bytes) < HeaderSize THEN More
  ELSE LET t      == bytes[1]
           length == Length(bytes[2], bytes[3], bytes[4], bytes[5])
       IN IF length > MaxFrameSize \/ (length = 0 /\ t \notin EmptyTypes) THEN Reject
          ELSE IF Len(bytes) < HeaderSize + length THEN More
          ELSE IF length = 0 THEN Whole(t, <<>>)
          ELSE parseMessage(t, SubSeq(bytes, HeaderSize + 1, HeaderSize + length))

\* The message DecodeFrame returns for a whole frame.
DecodeFrame(bytes) ==
  LET length == Length(bytes[2], bytes[3], bytes[4], bytes[5])
  IN [type |-> bytes[1], body |-> SubSeq(bytes, HeaderSize + 1, HeaderSize + length)]

-----------------------------------------------------------------------------
(* Conn.WriteMessage.                                                      *)

\* Encode comes before the lock, and fails before anything is written.
WriteBegins(w, m) ==
  /\ w \notin busy
  /\ calls < MaxMessages
  /\ calls' = calls + 1
  /\ IF Encodable(m) THEN frame' = [frame EXCEPT ![w] = Encode(m)] /\ busy' = busy \cup {w}
                     ELSE UNCHANGED <<frame, busy>>
  /\ UNCHANGED <<up, wmu, pipe, rbuf, reader, got, hist>>

\* The bytes between the writer that holds the lock and the reader.
Unwritten == IF up /\ wmu # None THEN frame[wmu] ELSE <<>>
Stream == rbuf \o pipe \o Unwritten

\* Mutant: the lock is taken although another writer holds it.
WriteLocksAnyway(w) ==
  /\ w \in busy /\ wmu # w
  /\ wmu' = w
  /\ flight' = IF up THEN Append(flight, [bytes |-> frame[w], start |-> done + Len(Stream)])
                     ELSE flight
  /\ UNCHANGED <<up, frame, busy, pipe, rbuf, reader, got, calls, done>>

WriteLocks(w) ==
  /\ w \in busy
  /\ wmu = None
  /\ wmu' = w
  /\ flight' = IF up THEN Append(flight, [bytes |-> frame[w], start |-> done + Len(Stream)])
                     ELSE flight
  /\ UNCHANGED <<up, frame, busy, pipe, rbuf, reader, got, calls, done>>

\* The kernel takes bytes as long as there is room; Write blocks meanwhile.
WriteByte(w) ==
  /\ wmu = w /\ up
  /\ frame[w] # <<>>
  /\ Len(pipe) < PipeCap
  /\ pipe' = Append(pipe, Head(frame[w]))
  /\ frame' = [frame EXCEPT ![w] = Tail(@)]
  /\ UNCHANGED <<up, wmu, busy, rbuf, reader, got, calls, hist>>

\* Mutant: an error returns without unlocking.
WriteReturnsLocked(w) ==
  /\ wmu = w
  /\ frame[w] = <<>> \/ ~up
  /\ wmu' = IF up THEN None ELSE w
  /\ frame' = [frame EXCEPT ![w] = <<>>]
  /\ busy' = busy \ {w}
  /\ UNCHANGED <<up, pipe, rbuf, reader, got, calls, hist>>

\* Everything was written, or the connection is gone: Unlock and return.
WriteReturns(w) ==
  /\ wmu = w
  /\ frame[w] = <<>> \/ ~up
  /\ wmu' = None
  /\ frame' = [frame EXCEPT ![w] = <<>>]
  /\ busy' = busy \ {w}
  /\ UNCHANGED <<up, pipe, rbuf, reader, got, calls, hist>>

-----------------------------------------------------------------------------
(* The reader and the network.                                             *)

ReadByte ==
  /\ reader = "reads"
  /\ pipe # <<>>
  /\ pipe' = Tail(pipe)
  /\ LET bytes == Append(rbuf, Head(pipe))
         r     == ReadFrame(bytes)
     IN /\ rbuf'   = IF r = More THEN bytes ELSE <<>>
        /\ got'    = IF r.what = "message" THEN Append(got, r.msg) ELSE got
        /\ reader' = IF r = Reject THEN "rejected" ELSE "reads"
        /\ flight' = IF r.what = "message" THEN Tail(flight) ELSE flight
        /\ done'   = IF r.what = "message" THEN done + Len(bytes) ELSE done
  /\ UNCHANGED <<up, wmu, frame, busy, calls>>

\* io.EOF, or io.ErrUnexpectedEOF within a frame.
ReadEOF ==
  /\ reader = "reads"
  /\ ~up /\ pipe = <<>>
  /\ reader' = "eof"
  /\ UNCHANGED <<up, wmu, frame, busy, pipe, rbuf, got, calls, hist>>

\* The connection is lost with any part of what the buffers held.
Cut ==
  /\ up
  /\ up' = FALSE
  /\ \E k \in 0 .. Len(pipe) : pipe' = SubSeq(pipe, 1, k)
  /\ UNCHANGED <<wmu, frame, busy, rbuf, reader, got, calls, hist>>

-----------------------------------------------------------------------------
WriterNext(w) ==
  (\E m \in Messages : WriteBegins(w, m)) \/ WriteLocks(w) \/ WriteByte(w) \/ WriteReturns(w)

Next == (\E w \in Writers : WriterNext(w)) \/ ReadByte \/ ReadEOF \/ Cut

Spec == Init /\ [][Next]_vars

\* The peer goes on reading, and a writer that can go on does.
FairSpec ==
  /\ Spec /\ WF_vars(ReadByte) /\ WF_vars(ReadEOF)
  /\ \A w \in Writers : WF_vars(WriteLocks(w) \/ WriteByte(w) \/ WriteReturns(w))

-----------------------------------------------------------------------------
TypeOK ==
  /\ up \in BOOLEAN /\ wmu \in Writers \cup {None} /\ busy \subseteq Writers
  /\ frame \in [Writers -> Seq(Byte)]
  /\ pipe \in Seq(Byte) /\ Len(pipe) <= PipeCap
  /\ rbuf \in Seq(Byte) /\ Len(rbuf) < HeaderSize + MaxFrameSize
  /\ reader \in {"reads", "rejected", "eof"} /\ got \in Seq(Messages)
  /\ calls \in 0 .. MaxMessages

\* However the writers of a connection interleave and wherever it is cut, the
\* reader never meets a frame it rejects: a session ends by the loss of the
\* connection and not by a message of its peer.
NeverRejects == reader # "rejected"

\* Where a frame under way ends.
End(f) == f.start + Len(f.bytes)

\* How many of the frames fs end at the position limit or before it.
Complete(fs, limit) ==
  CHOOSE n \in 0 .. Len(fs) : \A i \in DOMAIN fs : i <= n <=> End(fs[i]) <= limit

\* The messages under way: after a cut those of which no byte was lost.
UnderWay ==
  [i \in 1 .. Complete(flight, done + Len(Stream)) |-> DecodeFrame(flight[i].bytes)]

Abstract == INSTANCE Channel WITH open <- up, q <- UnderWay, got <- got

\* The connection is the channel the sessions rely on: whole messages, in the
\* order in which the writers took the lock, with a suffix lost at most.
IsChannel == Abstract!Spec

\* Every call of WriteMessage returns as long as the peer reads.
WritesReturn == \A w \in Writers : w \in busy ~> w \notin busy

=============================================================================
