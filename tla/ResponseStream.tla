--------------------------- MODULE ResponseStream ---------------------------
(***************************************************************************)
(* How a response becomes bytes on a connection.  send_response asks the   *)
(* response for the window of its content at pos (HttpObject::get_content), *)
(* hands the buffer to TcpLink::async_send, which may write it in pieces,  *)
(* and is called again for the next window.  The head is assembled and a   *)
(* file body is opened, measured and read anew for every window.           *)
(*                                                                         *)
(* A byte is named by where it comes from: offset and, for a file, which   *)
(* contents of the file it was read from.  Offsets count from 0, as in the *)
(* code; sequences count from 1.                                           *)
(***************************************************************************)
EXTENDS Integers, Sequences

CONSTANTS
  Heads,         \* lengths of the head
  Bodies,        \* lengths of a body or a file
  Ends,          \* values of the end argument of set_body_from_file
  SendBuff,      \* send_buff_size_
  PosValues,     \* number of values of the unsigned type POS, 2^64 in the code
  MaxVersion     \* bound: contents the body's file ever has

ASSUME StreamAssumption ==
  /\ Heads \subseteq Nat \ {0} /\ Bodies \subseteq Nat /\ Ends \subseteq Int
  /\ SendBuff \in Nat \ {0}       \* with 0 every response ends before it starts
  /\ MaxVersion \in Nat \ {0}
  /\ PosValues \in Nat
  /\ \A a \in Heads, b \in Bodies : a + b + SendBuff < PosValues
  /\ \A e \in Ends : e < PosValues

VARIABLES
  head,      \* length of the head
  cached,    \* is_cache_: the body is a file
  bodyLen,   \* length of body_ or, now, of the file; Missing if it is gone
  version,   \* which contents the file has
  range,     \* range_
  promised,  \* the Content-Length header
  pos,       \* position of the next window
  buff,      \* the part of the send buffer given to async_send
  begin,     \* how much of it is written
  wire,      \* the bytes the client receives
  pc         \* what is next for the response

response == <<head, cached, range, promised>>
file == <<bodyLen, version>>
rvars == <<response, file, pos, buff, begin, wire, pc>>

Missing == -1
Points == {"read", "send", "kept", "closed", "failed"}
HeadByte(k) == [part |-> "head", at |-> k, version |-> 0]
BodyByte(k, v) == [part |-> "body", at |-> k, version |-> v]
Byte == [part : {"head", "body"}, at : Nat, version : 0..MaxVersion]

StreamTypeOK ==
  /\ head \in Heads /\ cached \in BOOLEAN
  /\ bodyLen \in Bodies \cup {Missing}
  /\ version \in 1..MaxVersion
  /\ range \in [first : IF cached THEN Nat ELSE {-1}, last : Int]
  /\ promised \in Nat /\ pos \in Nat
  /\ buff \in Seq(Byte) /\ begin \in 0..Len(buff)
  /\ wire \in Seq(Byte)
  /\ pc \in Points

\* The offset in body_ or in the file at which the body begins.
First == IF cached THEN range.first ELSE 0
-----------------------------------------------------------------------------
(* The response as the server handler leaves it.                           *)

\* set_body.
SetBody ==
  /\ cached = FALSE
  /\ range = [first |-> -1, last |-> -1]
  /\ promised = bodyLen

SignedLength ==                                \* seeded fault: not unsigned
  /\ cached = TRUE
  /\ \E beg \in Bodies, end \in Ends :
       LET last == IF end < 0 THEN bodyLen - 1 ELSE end
       IN /\ beg <= last \/ last < 0
          /\ range = [first |-> beg, last |-> last]
          /\ promised = last - beg + 1
\* set_body_from_file.  end = -1 stands for the last byte; the comparison with beg
\* and the length are unsigned, so an empty file accepts every beg.
SetBodyFromFile ==
  /\ cached = TRUE
  /\ \E beg \in Bodies, end \in Ends :
       LET last == IF end < 0 THEN bodyLen - 1 ELSE end
       IN /\ beg <= last \/ last < 0
          /\ range = [first |-> beg, last |-> last]
          /\ promised = (last - beg + 1) % PosValues

Init ==
  /\ head \in Heads /\ bodyLen \in Bodies /\ version = 1
  /\ SetBody \/ SetBodyFromFile
  /\ pos = 0 /\ buff = <<>> /\ begin = 0 /\ wire = <<>> /\ pc = "read"
-----------------------------------------------------------------------------
(* HttpObject: get_body and get_content.                                   *)

\* How many bytes get_body copies to the buffer from offset beg, negative on an error.
\* The end of the range plays no part.
StartForgotten(beg, len) ==                    \* seeded fault: measures the whole file
  LET left == bodyLen - beg IN
  IF bodyLen = Missing \/ left < 0 THEN -1 ELSE IF len > left THEN left ELSE len
BodyCount(beg, len) ==
  LET left == bodyLen - beg - First IN
  IF bodyLen = Missing \/ left < 0 THEN -1 ELSE IF len > left THEN left ELSE len

HeadBytes(beg, n) == [i \in 1..n |-> HeadByte(beg + i - 1)]
BodyBytes(beg, n) ==
  [i \in 1..n |-> BodyByte(First + beg + i - 1, version)]

\* What get_content returns: the code and the bytes before it in the buffer.  A window
\* that ends in the head stays there; one that reaches the body answers with the
\* length of the body's part alone, unless it is empty.
Failed == [ret |-> -1, bytes |-> <<>>]
GetContent(beg, len) ==
  LET inHead == IF beg > head THEN 0 ELSE head - beg
      bodyBeg == IF beg > head THEN beg - head ELSE 0
      n == BodyCount(bodyBeg, len - inHead)
  IN  IF inHead >= len
        THEN [ret |-> len, bytes |-> HeadBytes(beg, len)]
      ELSE IF n < 0 THEN Failed
      ELSE LET all == HeadBytes(beg, inHead) \o BodyBytes(bodyBeg, n)
               ret == IF n # 0 THEN n ELSE inHead
           IN  [ret |-> ret, bytes |-> SubSeq(all, 1, ret)]
-----------------------------------------------------------------------------
(* send_response and TcpLink::async_send.                                  *)

SendWindow(c) ==
  /\ buff' = c.bytes /\ begin' = 0 /\ pos' = pos + c.ret /\ pc' = "send"
  /\ UNCHANGED <<response, file, wire>>

\* The response is over: the connection is kept for the next request or closed, as
\* its Connection header says; or it is closed for an error.
End(points) ==
  /\ pc' \in points
  /\ UNCHANGED <<response, file, pos, buff, begin, wire>>

EndsByLength ==                                \* seeded fault: counts on the header
  /\ pc = "read"
  /\ LET c == GetContent(pos, SendBuff) IN
       IF pos = head + promised THEN End({"kept", "closed"})
       ELSE IF c.ret < 0 THEN End({"failed"})
       ELSE IF c.ret = 0 THEN End({"read"}) ELSE SendWindow(c)
\* send_response: reads the next window; 0 bytes mean that the content is over.
ReadWindow ==
  /\ pc = "read"
  /\ LET c == GetContent(pos, SendBuff) IN
       \/ c.ret > 0 /\ SendWindow(c)
       \/ c.ret = 0 /\ End({"kept", "closed"})
       \/ c.ret < 0 /\ End({"failed"})

\* There is no memory for the buffer.
NoBuffer == pc = "read" /\ End({"failed"})

BeginKept ==                                   \* seeded fault: sends the start again
  /\ pc = "send"
  /\ \E s \in 1..(Len(buff) - begin) :
       /\ wire' = wire \o SubSeq(buff, 1, s)
       /\ begin' = begin + s
  /\ pc' = IF begin' = Len(buff) THEN "read" ELSE "send"
  /\ UNCHANGED <<response, file, pos, buff>>
\* write_handler: the socket took s bytes of what is left of the buffer; the rest is
\* sent from begin + s on, or send_response is called again.
WriteSome ==
  /\ pc = "send"
  /\ \E s \in 1..(Len(buff) - begin) :
       /\ wire' = wire \o SubSeq(buff, begin + 1, begin + s)
       /\ begin' = begin + s
  /\ pc' = IF begin' = Len(buff) THEN "read" ELSE "send"
  /\ UNCHANGED <<response, file, pos, buff>>

\* An error, a time-out, or the link was closed by somebody else.
WriteFails == pc = "send" /\ End({"failed"})

Over == pc \in {"kept", "closed", "failed"}

\* Another process, or an upload to the same path, rewrites or removes the file.
FileChanges ==
  /\ cached /\ ~Over /\ version < MaxVersion
  /\ bodyLen' \in Bodies \cup {Missing}
  /\ version' = version + 1
  /\ UNCHANGED <<response, pos, buff, begin, wire, pc>>

Next ==
  \/ ReadWindow \/ NoBuffer \/ WriteSome \/ WriteFails \/ FileChanges
  \/ Over /\ UNCHANGED rvars

\* A worker takes the callback; the time-out bounds the wait for the socket.
Fairness == WF_rvars(ReadWindow) /\ WF_rvars(WriteSome \/ WriteFails)

Spec == Init /\ [][Next]_rvars
FairSpec == Spec /\ Fairness
-----------------------------------------------------------------------------
(* Properties.                                                             *)

\* Byte b is one that belongs at position k of a message with a head of h bytes and a
\* body from offset f on, whichever contents of the file it is from.
PlacedAt(b, k, h, f) ==
  IF k <= h THEN b.part = "head" /\ b.at = k - 1
  ELSE b.part = "body" /\ b.at = f + (k - h) - 1
InPlace(b, k) == PlacedAt(b, k, head, First)

\* Whatever the sizes of the windows and of the pieces the socket takes, and although
\* get_content answers with less than it put in the buffer: no byte is skipped, sent
\* twice or out of place, even when the file changes between two windows.
InOrder == \A k \in DOMAIN wire : InPlace(wire[k], k)

Position(b) == IF b.part = "head" THEN b.at + 1 ELSE head + (b.at - First) + 1

\* The head's promise is not, or no longer, about what get_body reads: the file has
\* changed, or the range ends before it (get_body never looks at the range's end).
Broken == version # 1 \/ (cached /\ range.last # bodyLen - 1)

Stream == INSTANCE ByteStream WITH
  wire <- [k \in DOMAIN wire |-> Position(wire[k])],
  total <- head + promised,
  state <- IF Broken \/ pc = "failed" THEN "aborted"
           ELSE IF pc \in {"kept", "closed"} THEN "finished" ELSE "open"

\* A response is a stream of exactly the bytes its head promises, as long as the promise
\* is about the bytes that get_body reads: a connection is kept only after all of them, so
\* the next response is not taken for the rest of this one.
Streamed == Stream!Spec

\* Every response comes to an end, also when a window yields less than it holds.
ResponseEnds == <>Over
=============================================================================
