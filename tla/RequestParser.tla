--------------------------- MODULE RequestParser ---------------------------
(***************************************************************************)
(* HttpObject::parser: a request is parsed as it arrives, one call for     *)
(* every receive, cut anywhere.  Until the blank line is there all bytes   *)
(* wait in parser_cache_; then the body is collected, in memory or, above  *)
(* max_size_, in a cache file, until Content-Length bytes are there.       *)
(* recv_request_handler receives again, serves the request or closes,      *)
(* depending on the status.                                                *)
(*                                                                         *)
(* A byte is its position on the connection, from 1.  What the head says   *)
(* is a variable chosen at the start: all the parser learns from it.       *)
(***************************************************************************)
EXTENDS Integers, Sequences

CONSTANTS
  HeadEnds,      \* positions at which the first blank line ends
  Lengths,       \* values of the Content-Length header; 0 when it is absent
  MaxStream,     \* bound: bytes the client ever sends
  MaxBody,       \* max_size_, BODY_MAX_SIZE
  PosValues,     \* number of values of size_t, 2^64 in the code
  DirFails       \* TRUE: the cache directory cannot be made, or an old file removed

ASSUME ParserAssumption ==
  /\ HeadEnds \subseteq Nat \ {0} /\ Lengths \subseteq Int
  /\ MaxStream \in Nat /\ MaxBody \in Nat /\ PosValues \in Nat \ {0}
  /\ \A n \in Lengths : -PosValues < n - MaxStream /\ n < PosValues
  /\ \A n \in Lengths : n < 0 => MaxStream < (n - MaxStream) % PosValues
  /\ MaxBody + MaxStream < PosValues
  /\ DirFails \in BOOLEAN

VARIABLES
  headEnd, wellFormed, length,   \* the request's head
  numeric,       \* FALSE: stoll cannot read the Content-Length
  received,      \* bytes given to parser() so far
  status,        \* status_, or "thrown" when an exception left parser()
  cache,         \* parser_cache_
  left,          \* parser_body_len_
  cached,        \* is_cache_
  body           \* body_ or the contents of the cache file

request == <<headEnd, wellFormed, length, numeric>>
pvars == <<request, received, status, cache, left, cached, body>>

Statuses == {"head", "body", "over", "error", "thrown"}

ParserTypeOK ==
  /\ headEnd \in HeadEnds /\ wellFormed \in BOOLEAN
  /\ length \in Lengths /\ numeric \in BOOLEAN
  /\ received \in 0..MaxStream
  /\ status \in Statuses
  /\ cache \in Seq(1..MaxStream)
  /\ left \in Int
  /\ cached \in BOOLEAN
  /\ body \in Seq(1..MaxStream)

Init ==
  /\ headEnd \in HeadEnds /\ wellFormed \in BOOLEAN
  /\ length \in Lengths /\ numeric \in BOOLEAN
  /\ received = 0 /\ status = "head" /\ cache = <<>> /\ left = 0
  /\ cached = FALSE /\ body = <<>>
-----------------------------------------------------------------------------
\* The value of a signed number compared with a size_t.
Unsigned(n) == n % PosValues

WithTerminator(n) == [i \in 1..(n + 1) |-> received + i]   \* seeded fault
\* The bytes of the next call.
Arrived(n) == [i \in 1..n |-> received + i]

KeepSurplus(n, data) == data                   \* seeded fault: the surplus is kept
\* The bytes of data that are of the body when n are still missing.
Wanted(n, data) ==
  IF Unsigned(n) <= Len(data) THEN SubSeq(data, 1, n) ELSE data

\* parser_body with n bytes of the body missing; a cache file may fail to open.
ParserBody(n, data, toFile) ==
  LET complete == Unsigned(n) <= Len(data) IN
  /\ cache' = <<>>
  /\ left' = IF complete THEN 0 ELSE n - Len(data)
  /\ \/ /\ body' = body \o Wanted(n, data)
        /\ status' = IF complete THEN "over" ELSE "body"
     \/ /\ toFile
        /\ status' = "error"
        /\ UNCHANGED body

\* The blank line has not come.
ParseNothing(n) ==
  /\ status = "head" /\ received + n < headEnd
  /\ cache' = cache \o Arrived(n)
  /\ UNCHANGED <<status, left, cached, body>>

\* The blank line is there: parser_head, and what follows it begins the body.
ParseHead(n) ==
  LET data == cache \o Arrived(n)
      rest == SubSeq(data, headEnd + 1, Len(data))
      large == Unsigned(length) > MaxBody
  IN
  /\ status = "head" /\ received + n >= headEnd
  /\ \/ /\ ~wellFormed
        /\ status' = "error" /\ cache' = rest
        /\ UNCHANGED <<left, cached, body>>
     \/ /\ wellFormed /\ ~numeric
        /\ status' = "thrown" /\ cache' = rest
        /\ UNCHANGED <<left, cached, body>>
     \/ /\ wellFormed /\ numeric /\ length = 0
        /\ status' = "over" /\ cache' = rest
        /\ UNCHANGED <<left, cached, body>>
     \/ /\ wellFormed /\ numeric /\ length # 0
        /\ cached' = large
        /\ ParserBody(length, rest, large)
     \/ \* the cache directory or file is not to be had
        /\ wellFormed /\ numeric /\ length # 0 /\ large /\ DirFails
        /\ cached' = TRUE /\ left' = length
        /\ status' = "over" /\ cache' = rest
        /\ UNCHANGED body

ParseBody(n) ==
  /\ status = "body"
  /\ ParserBody(left, cache \o Arrived(n), cached)
  /\ UNCHANGED cached

\* recv_request_handler with n bytes: it receives again while the head or the body is
\* not complete.
Receive(n) ==
  /\ received + n <= MaxStream
  /\ ParseNothing(n) \/ ParseHead(n) \/ ParseBody(n)
  /\ received' = received + n
  /\ UNCHANGED request

\* The request is served, refused or given up; the connection goes on without it.
Ended == status \in {"over", "error", "thrown"} \/ received = MaxStream

Next ==
  \/ \E n \in 1..MaxStream : Receive(n)
  \/ Ended /\ UNCHANGED pvars

Spec == Init /\ [][Next]_pvars
-----------------------------------------------------------------------------
(* Properties.                                                             *)

\* What one call of parser() with the first r bytes of the connection should say.
ReferenceStatus(r) ==
  IF r < headEnd THEN "head"
  ELSE IF ~wellFormed THEN "error"
  ELSE IF ~numeric THEN "thrown"
  ELSE IF length >= 0 /\ headEnd + length <= r THEN "over" ELSE "body"

\* The bytes of the body among them.
ReferenceBody(r) ==
  LET end == IF length >= 0 /\ headEnd + length <= r THEN headEnd + length ELSE r
  IN  [i \in 1..(end - headEnd) |-> headEnd + i]

\* The cache directory could not be made, or an old file removed: parser() reports the
\* request over (http_object.cpp:88, 104), and it is served without its body.
GivenUp == status = "over" /\ left # 0

\* The outcome does not depend on how the connection was cut: unless the cache file
\* fails, parser() knows after any number of calls exactly what it would know had it got
\* the same bytes in one, and has collected exactly those of the body.  A request that is
\* given up has none of them, however many were there.
ChunkIndependent ==
  IF GivenUp THEN body = <<>>
  ELSE status # "error" \/ ~wellFormed =>
         /\ status = ReferenceStatus(received)
         /\ status \in {"body", "over"} => body = ReferenceBody(received)
=============================================================================
