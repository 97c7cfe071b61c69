----------------------- MODULE ResponseStream_proofs -----------------------
(***************************************************************************)
(* What holds of every response, for every length of head, body and buffer *)
(* and every way the socket cuts the writes.                               *)
(***************************************************************************)
EXTENDS ResponseStream, SequenceTheorems, TLAPS

LEMMA FunctionIsSeq ==
  ASSUME NEW S, NEW n \in Nat, NEW f \in [1..n -> S]
  PROVE  f \in Seq(S) /\ Len(f) = n
OBVIOUS

\* n elements of a sequence after its first m.
LEMMA Piece ==
  ASSUME NEW S, NEW s \in Seq(S), NEW m \in Nat, NEW n \in Nat, m + n <= Len(s)
  PROVE  LET p == SubSeq(s, m + 1, m + n) IN
         p \in Seq(S) /\ Len(p) = n /\ \A i \in 1..n : p[i] = s[m + i]
<1>1. \A i \in (m + 1)..(m + n) : s[i] \in S
  <2>1. \A i \in (m + 1)..(m + n) : i \in 1..Len(s)
    OBVIOUS
  <2> QED
    BY <2>1, ElementOfSeq
<1>2. m + 1 \in Int /\ m + n \in Int
  OBVIOUS
<1> DEFINE p == SubSeq(s, m + 1, m + n)
<1>3. /\ p \in Seq(S)
      /\ Len(p) = IF m + 1 <= m + n THEN (m + n) - (m + 1) + 1 ELSE 0
      /\ \A i \in 1..((m + n) - (m + 1) + 1) : p[i] = s[(m + 1) + i - 1]
  BY <1>1, <1>2, SubSeqProperties
<1> HIDE DEF p
<1>4. Len(p) = n
  BY <1>3
<1>5. \A i \in 1..n : p[i] = s[m + i]
  <2>1. \A i \in 1..n : i \in 1..((m + n) - (m + 1) + 1) /\ (m + 1) + i - 1 = m + i
    OBVIOUS
  <2> QED
    BY <1>3, <2>1
<1> QED
  BY <1>3, <1>4, <1>5 DEF p

LEMMA FirstType == StreamTypeOK => First \in Nat
BY DEF StreamTypeOK, First

\* The bytes of the head and of the body are in place.
LEMMA HeadInPlace ==
  ASSUME StreamTypeOK, NEW beg \in Nat, NEW n \in Nat, beg + n <= head
  PROVE  /\ HeadBytes(beg, n) \in Seq(Byte) /\ Len(HeadBytes(beg, n)) = n
         /\ \A i \in 1..n : InPlace(HeadBytes(beg, n)[i], beg + i)
<1>1. head \in Nat
  BY StreamAssumption DEF StreamTypeOK
<1>2. \A i \in 1..n : /\ HeadByte(beg + i - 1) \in Byte
                      /\ InPlace(HeadByte(beg + i - 1), beg + i)
  BY <1>1, StreamAssumption DEF HeadByte, Byte, InPlace, PlacedAt
<1>3. HeadBytes(beg, n) \in [1..n -> Byte]
  BY <1>2 DEF HeadBytes
<1>4. HeadBytes(beg, n) \in Seq(Byte) /\ Len(HeadBytes(beg, n)) = n
  BY <1>3, FunctionIsSeq
<1> QED
  BY <1>2, <1>4 DEF HeadBytes

LEMMA BodyInPlace ==
  ASSUME StreamTypeOK, NEW beg \in Nat, NEW n \in Nat
  PROVE  /\ BodyBytes(beg, n) \in Seq(Byte) /\ Len(BodyBytes(beg, n)) = n
         /\ \A i \in 1..n : InPlace(BodyBytes(beg, n)[i], head + beg + i)
<1>1. head \in Nat /\ First \in Nat /\ version \in 0..MaxVersion
  BY StreamAssumption, FirstType DEF StreamTypeOK
<1>2. \A i \in 1..n : /\ BodyByte(First + beg + i - 1, version) \in Byte
                      /\ InPlace(BodyByte(First + beg + i - 1, version), head + beg + i)
  BY <1>1 DEF BodyByte, Byte, InPlace, PlacedAt
<1>3. BodyBytes(beg, n) \in [1..n -> Byte]
  BY <1>2 DEF BodyBytes
<1>4. BodyBytes(beg, n) \in Seq(Byte) /\ Len(BodyBytes(beg, n)) = n
  BY <1>3, FunctionIsSeq
<1> QED
  BY <1>2, <1>4 DEF BodyBytes

LEMMA BodyCountBounds ==
  ASSUME StreamTypeOK, NEW beg \in Nat, NEW len \in Nat
  PROVE  /\ BodyCount(beg, len) \in -1..len
         /\ BodyCount(beg, len) >= 0 => /\ beg + First + BodyCount(beg, len) <= bodyLen
                                        /\ BodyCount(beg, len) < len
                                             => beg + First + BodyCount(beg, len) = bodyLen
<1>1. bodyLen \in Nat \cup {-1} /\ First \in Nat
  BY StreamAssumption, FirstType DEF StreamTypeOK, Missing
<1> QED
  BY <1>1 DEF BodyCount, Missing

\* The window of get_content at the current position: its bytes are those of the
\* message that come next, and it is empty only at the end of the content.
LEMMA Window ==
  ASSUME StreamTypeOK
  PROVE  LET c == GetContent(pos, SendBuff) IN
         /\ c.ret \in Int /\ c.ret >= -1 /\ c.bytes \in Seq(Byte)
         /\ c.ret >= 0 => Len(c.bytes) = c.ret
         /\ \A i \in 1..Len(c.bytes) : InPlace(c.bytes[i], pos + i)
         /\ c.ret > 0 => pos + c.ret <= head \/ pos + c.ret <= head + bodyLen - First
         /\ c.ret = 0 => pos = head + bodyLen - First /\ bodyLen >= First
<1> DEFINE inHead == IF pos > head THEN 0 ELSE head - pos
           bodyBeg == IF pos > head THEN pos - head ELSE 0
           n == BodyCount(bodyBeg, SendBuff - inHead)
           h == HeadBytes(pos, inHead)
           b == BodyBytes(bodyBeg, n)
           ret == IF n # 0 THEN n ELSE inHead
<1>1. /\ head \in Nat /\ pos \in Nat /\ SendBuff \in Nat \ {0}
      /\ inHead \in Nat /\ bodyBeg \in Nat /\ First \in Nat
      /\ bodyLen \in Int
  BY StreamAssumption, FirstType DEF StreamTypeOK, Missing
<1>2. CASE inHead >= SendBuff
  <2>1. pos + SendBuff <= head
    BY <1>1, <1>2
  <2>2. GetContent(pos, SendBuff) = [ret |-> SendBuff, bytes |-> HeadBytes(pos, SendBuff)]
    BY <1>2 DEF GetContent
  <2> QED
    BY <1>1, <2>1, <2>2, HeadInPlace
<1>3. CASE inHead < SendBuff /\ n < 0
  <2>1. GetContent(pos, SendBuff) = Failed
    BY <1>1, <1>3 DEF GetContent
  <2> QED
    BY <2>1 DEF Failed
<1>4. CASE inHead < SendBuff /\ n >= 0
  <2>1. SendBuff - inHead \in Nat
    BY <1>1, <1>4
  <2>2. /\ n \in Nat /\ bodyBeg + First + n <= bodyLen
        /\ n < SendBuff - inHead => bodyBeg + First + n = bodyLen
    BY <1>1, <1>4, <2>1, BodyCountBounds
  <2>3. /\ h \in Seq(Byte) /\ Len(h) = inHead
        /\ \A i \in 1..inHead : InPlace(h[i], pos + i)
    <3>1. CASE pos <= head
      BY <1>1, <3>1, HeadInPlace
    <3>2. CASE pos > head
      BY <1>1, <3>2 DEF HeadBytes
    <3> QED
      BY <1>1, <3>1, <3>2
  <2>4. /\ b \in Seq(Byte) /\ Len(b) = n
        /\ \A i \in 1..n : InPlace(b[i], head + bodyBeg + i)
    BY <1>1, <2>2, BodyInPlace
  <2>5. head + bodyBeg = pos + inHead
    BY <1>1
  <2>6. /\ ret \in Nat /\ ret <= inHead + n
        /\ ret > 0 => pos + ret <= head \/ pos + ret <= head + bodyLen - First
        /\ ret = 0 => pos = head + bodyLen - First /\ bodyLen >= First
    BY <1>1, <1>4, <2>2, <2>5
  <2>7. GetContent(pos, SendBuff) =
           IF inHead >= SendBuff
             THEN [ret |-> SendBuff, bytes |-> HeadBytes(pos, SendBuff)]
           ELSE IF n < 0 THEN Failed
           ELSE [ret |-> ret, bytes |-> SubSeq(h \o b, 1, ret)]
    BY Zenon DEF GetContent
  <2> HIDE DEF inHead, bodyBeg, n, h, b, ret
  <2>13. GetContent(pos, SendBuff) = [ret |-> ret, bytes |-> SubSeq(h \o b, 1, ret)]
    BY <1>1, <1>4, <2>2, <2>7
  <2>8. /\ h \o b \in Seq(Byte) /\ Len(h \o b) = inHead + n
        /\ \A i \in 1..(inHead + n) :
             (h \o b)[i] = IF i <= inHead THEN h[i] ELSE b[i - inHead]
    BY <2>3, <2>4, ConcatProperties
  <2>9. \A i \in 1..(inHead + n) : InPlace((h \o b)[i], pos + i)
    <3> SUFFICES ASSUME NEW i \in 1..(inHead + n)
                 PROVE  InPlace((h \o b)[i], pos + i)
      OBVIOUS
    <3>1. CASE i <= inHead
      BY <1>1, <2>2, <2>3, <2>8, <3>1
    <3>2. CASE i > inHead
      <4>1. i - inHead \in 1..n /\ head + bodyBeg + (i - inHead) = pos + i
        BY <1>1, <2>2, <2>5, <3>2
      <4>2. InPlace(b[i - inHead], head + bodyBeg + (i - inHead))
        BY <2>4, <4>1
      <4>3. (h \o b)[i] = b[i - inHead]
        BY <1>1, <2>2, <2>8, <3>2
      <4> QED
        BY <4>1, <4>2, <4>3
    <3>3. i <= inHead \/ i > inHead
      BY <1>1
    <3> QED
      BY <3>1, <3>2, <3>3
  <2>10. \A i \in 1..ret : i \in 1..(inHead + n)
    BY <1>1, <2>2, <2>6
  <2>11. /\ SubSeq(h \o b, 1, ret) \in Seq(Byte) /\ Len(SubSeq(h \o b, 1, ret)) = ret
         /\ \A i \in 1..ret : SubSeq(h \o b, 1, ret)[i] = (h \o b)[i]
    <3>1. 0 + 1 = 1 /\ 0 + ret = ret /\ \A i \in 1..ret : 0 + i = i
      BY <2>6
    <3>2. 0 \in Nat /\ ret \in Nat /\ 0 + ret <= Len(h \o b)
      BY <2>6, <2>8
    <3> QED
      BY <2>8, <3>1, <3>2, Piece
  <2>12. \A i \in 1..ret : InPlace(SubSeq(h \o b, 1, ret)[i], pos + i)
    BY <2>9, <2>10, <2>11
  <2> DEFINE c == GetContent(pos, SendBuff)
  <2>14. c.ret = ret /\ c.bytes = SubSeq(h \o b, 1, ret)
    <3>1. \A x, y : [ret |-> x, bytes |-> y].ret = x /\ [ret |-> x, bytes |-> y].bytes = y
      OBVIOUS
    <3> QED
      BY <2>13, <3>1, Zenon
  <2>15. ret \in Int /\ ret >= -1
    BY <2>6
  <2> HIDE DEF c
  <2>16. \A i \in 1..Len(c.bytes) : InPlace(c.bytes[i], pos + i)
    BY <2>11, <2>12, <2>14, Zenon
  <2>17. /\ c.ret \in Int /\ c.ret >= -1 /\ c.bytes \in Seq(Byte)
         /\ c.ret >= 0 => Len(c.bytes) = c.ret
         /\ c.ret > 0 => pos + c.ret <= head \/ pos + c.ret <= head + bodyLen - First
         /\ c.ret = 0 => pos = head + bodyLen - First /\ bodyLen >= First
    BY <2>6, <2>11, <2>14, <2>15
  <2> QED
    BY <2>16, <2>17, Zenon DEF c
<1> QED
  BY <1>1, <1>2, <1>3, <1>4, BodyCountBounds
-----------------------------------------------------------------------------
(* The invariant: the buffer holds the bytes before pos, and the wire those *)
(* before the part of the buffer that is not yet written.                   *)

Buffered ==
  /\ pos = Len(wire) + Len(buff) - begin
  /\ pc = "read" => begin = Len(buff)
  /\ \A i \in 1..Len(buff) : InPlace(buff[i], pos - Len(buff) + i)
  /\ \A i \in 1..Len(wire) : InPlace(wire[i], i)

StreamInv == StreamTypeOK /\ Buffered

LEMMA StreamInit == Init => StreamInv
<1> SUFFICES ASSUME Init PROVE StreamInv
  OBVIOUS
<1>1. head \in Heads /\ bodyLen \in Bodies /\ version \in 1..MaxVersion
  BY StreamAssumption DEF Init
<1>2. cached \in BOOLEAN /\ range \in [first : IF cached THEN Nat ELSE {-1}, last : Int]
  <2>1. CASE SetBody
    <3>1. cached = FALSE /\ range \in [first : {-1}, last : Int]
      BY <2>1 DEF SetBody
    <3>2. (IF cached THEN Nat ELSE {-1}) = {-1}
      BY <3>1
    <3> QED
      BY <3>1, <3>2
  <2>2. CASE SetBodyFromFile
    <3>1. PICK beg \in Bodies, end \in Ends :
            range = [first |-> beg, last |-> IF end < 0 THEN bodyLen - 1 ELSE end]
      BY <2>2 DEF SetBodyFromFile
    <3>2. beg \in Nat /\ (IF end < 0 THEN bodyLen - 1 ELSE end) \in Int
      BY <1>1, StreamAssumption
    <3> QED
      BY <2>2, <3>1, <3>2 DEF SetBodyFromFile
  <2> QED
    BY <2>1, <2>2 DEF Init
<1>3. promised \in Nat
  <2>1. CASE SetBody
    BY <1>1, <2>1, StreamAssumption DEF SetBody
  <2>2. CASE SetBodyFromFile
    <3>1. PICK beg \in Bodies, end \in Ends :
            promised = ((IF end < 0 THEN bodyLen - 1 ELSE end) - beg + 1) % PosValues
      BY <2>2 DEF SetBodyFromFile
    <3>2. (IF end < 0 THEN bodyLen - 1 ELSE end) - beg + 1 \in Int
      BY <1>1, StreamAssumption
    <3>3. PosValues \in Nat /\ PosValues > 0
      BY <1>1, StreamAssumption
    <3> QED
      BY <3>1, <3>2, <3>3
  <2> QED
    BY <2>1, <2>2 DEF Init
<1>4. buff = <<>> /\ wire = <<>> /\ Len(buff) = 0 /\ Len(wire) = 0
  BY DEF Init
<1>5. StreamTypeOK
  BY <1>1, <1>2, <1>3, <1>4 DEF Init, StreamTypeOK, Points
<1>6. Buffered
  BY <1>4 DEF Init, Buffered
<1> QED
  BY <1>5, <1>6 DEF StreamInv

\* A byte's place depends only on the response, which no step changes.
LEMMA PlaceKept ==
  ASSUME UNCHANGED response
  PROVE  head' = head /\ cached' = cached /\ First' = First
BY DEF response, First

LEMMA EndStep ==
  ASSUME StreamInv, NEW points \in SUBSET (Points \ {"read"}), End(points)
  PROVE  StreamInv'
<1>1. UNCHANGED <<response, file, pos, buff, begin, wire>> /\ pc' \in Points \ {"read"}
  BY DEF End
<1> QED
  BY <1>1, PlaceKept DEF StreamInv, StreamTypeOK, Buffered, InPlace, response, file, Points

LEMMA ReadWindowStep ==
  ASSUME StreamInv, ReadWindow
  PROVE  StreamInv'
<1> DEFINE c == GetContent(pos, SendBuff)
<1>1. /\ StreamTypeOK /\ pc = "read" /\ begin = Len(buff) /\ pos = Len(wire)
      /\ \A i \in 1..Len(wire) : InPlace(wire[i], i)
  BY DEF StreamInv, Buffered, StreamTypeOK, ReadWindow
<1>2. /\ c.ret \in Int /\ c.bytes \in Seq(Byte)
      /\ c.ret >= 0 => Len(c.bytes) = c.ret
      /\ \A i \in 1..Len(c.bytes) : InPlace(c.bytes[i], pos + i)
  BY <1>1, Window
<1> HIDE DEF c
<1>3. CASE c.ret > 0 /\ SendWindow(c)
  <2>1. /\ buff' = c.bytes /\ begin' = 0 /\ pos' = pos + Len(buff') /\ pc' = "send"
        /\ UNCHANGED <<response, file, wire>> /\ Len(buff') \in Nat /\ Len(buff') > 0
    BY <1>2, <1>3 DEF SendWindow
  <2>2. head' = head /\ cached' = cached /\ First' = First /\ wire' = wire
    BY <2>1, PlaceKept
  <2>3. StreamTypeOK'
    BY <1>1, <1>2, <2>1 DEF StreamTypeOK, response, file, Points
  <2>4. \A i \in 1..Len(buff') : pos + i = pos' - Len(buff') + i
    BY <1>1, <2>1 DEF StreamTypeOK
  <2>5. \A i \in 1..Len(buff') : PlacedAt(buff'[i], pos' - Len(buff') + i, head', First')
    BY <1>2, <2>1, <2>2, <2>4, Zenon DEF InPlace
  <2>6. \A i \in 1..Len(wire') : PlacedAt(wire'[i], i, head', First')
    BY <1>1, <2>2, Zenon DEF InPlace
  <2>7. pos' = Len(wire') + Len(buff') - begin'
    BY <1>1, <2>1, <2>2 DEF StreamTypeOK
  <2>8. pc' # "read"
    BY <2>1
  <2> QED
    BY <2>3, <2>5, <2>6, <2>7, <2>8, Zenon DEF StreamInv, Buffered, InPlace
<1>4. CASE End({"kept", "closed"}) \/ End({"failed"})
  BY <1>4, EndStep DEF Points
<1> QED
  BY <1>3, <1>4 DEF ReadWindow, c

LEMMA WriteSomeStep ==
  ASSUME StreamInv, WriteSome
  PROVE  StreamInv'
<1>1. PICK s \in 1..(Len(buff) - begin) :
        wire' = wire \o SubSeq(buff, begin + 1, begin + s) /\ begin' = begin + s
  BY DEF WriteSome
<1>2. /\ UNCHANGED <<response, file, pos, buff>>
      /\ pc' = IF begin' = Len(buff) THEN "read" ELSE "send"
  BY DEF WriteSome
<1>3. /\ buff \in Seq(Byte) /\ wire \in Seq(Byte) /\ begin \in Nat /\ s \in Nat
      /\ Len(buff) \in Nat /\ Len(wire) \in Nat /\ begin + s <= Len(buff)
  BY DEF StreamInv, StreamTypeOK
<1> DEFINE p == SubSeq(buff, begin + 1, begin + s)
<1>4. p \in Seq(Byte) /\ Len(p) = s /\ \A i \in 1..s : p[i] = buff[begin + i]
  BY <1>3, Piece
<1> HIDE DEF p
<1>5. /\ wire' \in Seq(Byte) /\ Len(wire') = Len(wire) + s
      /\ \A i \in 1..(Len(wire) + s) :
           wire'[i] = IF i <= Len(wire) THEN wire[i] ELSE p[i - Len(wire)]
  BY <1>1, <1>3, <1>4, ConcatProperties DEF p
<1>6. head' = head /\ cached' = cached /\ First' = First /\ buff' = buff /\ pos' = pos
  BY <1>2, PlaceKept
<1>7. StreamTypeOK'
  BY <1>1, <1>2, <1>3, <1>5 DEF StreamInv, StreamTypeOK, response, file, Points
<1>8. pos = Len(wire) + Len(buff) - begin
  BY DEF StreamInv, Buffered
<1>9. \A i \in 1..Len(wire') : PlacedAt(wire'[i], i, head', First')
  <2> SUFFICES ASSUME NEW i \in 1..(Len(wire) + s)
               PROVE  PlacedAt(wire'[i], i, head, First)
    BY <1>5, <1>6, Zenon
  <2>1. CASE i <= Len(wire)
    <3>1. i \in 1..Len(wire) /\ wire'[i] = wire[i]
      BY <1>3, <1>5, <2>1
    <3> QED
      BY <3>1, Zenon DEF StreamInv, Buffered, InPlace
  <2>2. CASE i > Len(wire)
    <3>1. /\ i - Len(wire) \in 1..s /\ wire'[i] = p[i - Len(wire)]
          /\ begin + (i - Len(wire)) \in 1..Len(buff)
          /\ pos - Len(buff) + (begin + (i - Len(wire))) = i
      BY <1>3, <1>5, <1>8, <2>2
    <3>2. wire'[i] = buff[begin + (i - Len(wire))]
      BY <1>4, <3>1, Zenon
    <3>3. PlacedAt(buff[begin + (i - Len(wire))],
                   pos - Len(buff) + (begin + (i - Len(wire))), head, First)
      BY <3>1, Zenon DEF StreamInv, Buffered, InPlace
    <3> QED
      BY <3>1, <3>2, <3>3
  <2>3. i <= Len(wire) \/ i > Len(wire)
    BY <1>3
  <2> QED
    BY <2>1, <2>2, <2>3
<1>10. \A i \in 1..Len(buff') : PlacedAt(buff'[i], pos' - Len(buff') + i, head', First')
  BY <1>6 DEF StreamInv, Buffered, InPlace
<1>11. pos' = Len(wire') + Len(buff') - begin' /\ (pc' = "read" => begin' = Len(buff'))
  BY <1>1, <1>2, <1>3, <1>5, <1>6, <1>8
<1> QED
  BY <1>7, <1>9, <1>10, <1>11, Zenon DEF StreamInv, Buffered, InPlace

LEMMA FileChangesStep ==
  ASSUME StreamInv, FileChanges
  PROVE  StreamInv'
<1>1. /\ UNCHANGED <<response, pos, buff, begin, wire, pc>>
      /\ bodyLen' \in Bodies \cup {Missing} /\ version' \in 1..MaxVersion
  BY StreamAssumption DEF FileChanges, StreamInv, StreamTypeOK
<1> QED
  BY <1>1, PlaceKept DEF StreamInv, StreamTypeOK, Buffered, InPlace, response

LEMMA StreamNext == StreamInv /\ [Next]_rvars => StreamInv'
<1> SUFFICES ASSUME StreamInv, [Next]_rvars PROVE StreamInv'
  OBVIOUS
<1>1. CASE NoBuffer \/ WriteFails
  BY <1>1, EndStep DEF NoBuffer, WriteFails, Points
<1>2. CASE UNCHANGED rvars
  BY <1>2, PlaceKept DEF rvars, StreamInv, StreamTypeOK, Buffered, InPlace, response, file
<1> QED
  BY <1>1, <1>2, ReadWindowStep, WriteSomeStep, FileChangesStep DEF Next

LEMMA StreamInvariant == Spec => []StreamInv
BY StreamInit, StreamNext, PTL DEF Spec

\* A response keeps its types (http_object.cpp: pos_, buff_, the announced length).
THEOREM StreamTyped == Spec => []StreamTypeOK
BY StreamInvariant, PTL DEF StreamInv

\* No byte of a response is skipped, repeated or moved, however the content is cut into
\* windows and the windows into writes, although get_content under-reports a window
\* that reaches from the head into the body (http_object.cpp:306).
THEOREM ResponseInOrder == Spec => []InOrder
<1>1. StreamInv => InOrder
  <2>1. StreamInv => DOMAIN wire = 1..Len(wire)
    BY DEF StreamInv, StreamTypeOK
  <2> QED
    BY <2>1, Zenon DEF StreamInv, Buffered, InOrder
<1> QED
  BY <1>1, StreamInvariant, PTL
-----------------------------------------------------------------------------
(* The stream of bytes that a response implements.                         *)

\* The header promises what the content has.
Promise ==
  ~Broken =>
  /\ bodyLen \in Nat
  /\ bodyLen >= First => promised = bodyLen - First
  /\ pos <= head \/ pos <= head + bodyLen - First

LEMMA PromiseInit == Init => Promise
<1> SUFFICES ASSUME Init, ~Broken PROVE Promise
  BY DEF Promise
<1>1. head \in Nat /\ bodyLen \in Nat /\ pos = 0 /\ bodyLen < PosValues /\ PosValues \in Nat
  <2>1. head \in Heads /\ bodyLen \in Bodies /\ pos = 0
    BY DEF Init
  <2> QED
    BY <2>1, StreamAssumption
<1>2. CASE SetBody
  BY <1>1, <1>2 DEF SetBody, Promise, First
<1>3. CASE SetBodyFromFile
  <2>1. PICK beg \in Bodies, end \in Ends :
          /\ range = [first |-> beg, last |-> bodyLen - 1]
          /\ promised = ((bodyLen - 1) - beg + 1) % PosValues
    BY <1>3 DEF SetBodyFromFile, Broken
  <2>2. First = beg /\ beg \in Nat
    BY <1>3, <2>1, StreamAssumption DEF First, SetBodyFromFile
  <2>3. bodyLen >= beg => promised = bodyLen - beg
    <3>1. (bodyLen - 1) - beg + 1 = bodyLen - beg
      BY <1>1, <2>2
    <3>2. \A x \in Nat : x < PosValues => x % PosValues = x
      BY <1>1
    <3> QED
      BY <1>1, <2>1, <2>2, <3>1, <3>2
  <2> QED
    BY <1>1, <2>2, <2>3 DEF Promise
<1> QED
  BY <1>2, <1>3 DEF Init

\* A promise that is broken stays so, and only a change of the file breaks it.
LEMMA BrokenStep ==
  StreamTypeOK /\ [Next]_rvars => (Broken => Broken') /\ (~FileChanges => UNCHANGED Broken)
BY DEF Next, rvars, response, file, StreamTypeOK, Broken, ReadWindow, NoBuffer, WriteSome,
       WriteFails, FileChanges, SendWindow, End

LEMMA PromiseNext == StreamInv /\ Promise /\ [Next]_rvars => Promise'
<1> SUFFICES ASSUME StreamInv, Promise, [Next]_rvars, ~Broken' PROVE Promise'
  BY DEF Promise
<1>1. StreamTypeOK /\ ~Broken
  BY BrokenStep DEF StreamInv
<1>2. ASSUME UNCHANGED <<response, file, pos>> PROVE Promise'
  BY <1>1, <1>2, PlaceKept DEF Promise, response, file
<1>3. CASE ReadWindow
  <2> DEFINE c == GetContent(pos, SendBuff)
  <2>1. /\ c.ret \in Int
        /\ c.ret > 0 => pos + c.ret <= head \/ pos + c.ret <= head + bodyLen - First
    BY <1>1, Window
  <2> HIDE DEF c
  <2>2. ASSUME c.ret > 0, SendWindow(c) PROVE Promise'
    <3>1. UNCHANGED <<response, file>> /\ pos' = pos + c.ret
      BY <2>2 DEF SendWindow
    <3> QED
      BY <1>1, <2>1, <2>2, <3>1, PlaceKept DEF Promise, response, file
  <2>3. ASSUME NEW points, End(points) PROVE Promise'
    BY <1>2, <2>3 DEF End
  <2> QED
    BY <1>3, <2>2, <2>3 DEF ReadWindow, c
<1>4. CASE NoBuffer \/ WriteSome \/ WriteFails \/ UNCHANGED rvars
  BY <1>2, <1>4 DEF NoBuffer, WriteSome, WriteFails, End, rvars
<1>5. ~FileChanges
  BY <1>1 DEF FileChanges, StreamTypeOK, Broken
<1> QED
  BY <1>3, <1>4, <1>5 DEF Next, rvars

\* The byte that belongs at position k is at position k.
LEMMA PositionOf ==
  ASSUME StreamTypeOK, NEW b, NEW k \in Nat, InPlace(b, k)
  PROVE  Position(b) = k
<1>1. head \in Nat /\ First \in Nat
  BY StreamAssumption, FirstType DEF StreamTypeOK
<1> QED
  BY <1>1 DEF InPlace, PlacedAt, Position

Total == head + promised
WireBar == [k \in DOMAIN wire |-> Position(wire[k])]
StateBar == IF Broken \/ pc = "failed" THEN "aborted"
            ELSE IF pc \in {"kept", "closed"} THEN "finished" ELSE "open"

LEMMA WireIsPrefix ==
  StreamInv => WireBar = [k \in 1..Len(wire) |-> k] /\ Len(WireBar) = Len(wire)
<1> SUFFICES ASSUME StreamInv
             PROVE  WireBar = [k \in 1..Len(wire) |-> k] /\ Len(WireBar) = Len(wire)
  OBVIOUS
<1>1. StreamTypeOK /\ Len(wire) \in Nat /\ DOMAIN wire = 1..Len(wire)
  BY DEF StreamInv, StreamTypeOK
<1>2. \A k \in 1..Len(wire) : Position(wire[k]) = k
  BY <1>1, PositionOf DEF StreamInv, Buffered
<1>3. WireBar = [k \in 1..Len(wire) |-> k]
  BY <1>1, <1>2 DEF WireBar
<1>4. WireBar \in [1..Len(wire) -> Nat]
  BY <1>1, <1>3
<1> QED
  BY <1>1, <1>3, <1>4, FunctionIsSeq

LEMMA WireWithinTotal ==
  StreamInv /\ Promise /\ ~Broken
    => pos <= Total /\ Len(wire) <= pos /\ Len(wire) \in Nat /\ Total \in Nat
<1> SUFFICES ASSUME StreamInv, Promise, ~Broken
             PROVE  pos <= Total /\ Len(wire) <= pos /\ Len(wire) \in Nat /\ Total \in Nat
  OBVIOUS
<1>1. /\ head \in Nat /\ promised \in Nat /\ First \in Nat /\ pos \in Nat
      /\ Len(wire) \in Nat /\ Len(buff) \in Nat /\ begin \in 0..Len(buff)
  BY StreamAssumption, FirstType DEF StreamInv, StreamTypeOK
<1>2. pos = Len(wire) + Len(buff) - begin
  BY DEF StreamInv, Buffered
<1> QED
  BY <1>1, <1>2 DEF Promise, Total

LEMMA StreamBar ==
  /\ Stream!Init <=> WireBar = <<>> /\ Total \in Nat /\ StateBar \in {"open", "aborted"}
  /\ Stream!Stray <=> /\ StateBar = "aborted"
                      /\ Len(WireBar') >= Len(WireBar)
                      /\ WireBar' = [i \in 1..Len(WireBar') |-> i]
                      /\ UNCHANGED <<Total, StateBar>>
  /\ Stream!Deliver <=> /\ StateBar = "open"
                        /\ \E n \in (Len(WireBar) + 1)..Total : WireBar' = [i \in 1..n |-> i]
                        /\ UNCHANGED <<Total, StateBar>>
  /\ Stream!Finish <=> /\ StateBar = "open" /\ Len(WireBar) = Total
                       /\ StateBar' = "finished"
                       /\ UNCHANGED <<WireBar, Total>>
  /\ Stream!Abort <=> StateBar = "open" /\ StateBar' = "aborted" /\ UNCHANGED <<WireBar, Total>>
  /\ UNCHANGED Stream!svars <=> UNCHANGED <<WireBar, Total, StateBar>>
BY DEF Stream!Init, Stream!Stray, Stream!Deliver, Stream!Finish, Stream!Abort,
   Stream!svars, WireBar, Total, StateBar

LEMMA NextWire ==
  StreamInv' /\ Promise' =>
    /\ WireBar' = [k \in 1..Len(wire') |-> k] /\ Len(WireBar') = Len(wire')
    /\ Len(wire') \in Nat /\ (~Broken' => Len(wire') <= Total')
<1>1. (StreamInv /\ Promise =>
         /\ WireBar = [k \in 1..Len(wire) |-> k] /\ Len(WireBar) = Len(wire)
         /\ Len(wire) \in Nat /\ (~Broken => Len(wire) <= Total))'
  <2>1. StreamInv /\ Promise =>
           /\ WireBar = [k \in 1..Len(wire) |-> k] /\ Len(WireBar) = Len(wire)
           /\ Len(wire) \in Nat /\ (~Broken => Len(wire) <= Total)
    <3>1. StreamInv => pos \in Nat /\ Len(wire) \in Nat
      BY DEF StreamInv, StreamTypeOK
    <3> QED
      BY <3>1, WireIsPrefix, WireWithinTotal
  <2> QED
    BY <2>1, PTL
<1> QED
  BY <1>1

\* Once the promise is broken the bytes still come in order.
LEMMA BrokenStreams ==
  StreamInv /\ StreamInv' /\ Promise' /\ [Next]_rvars /\ Broken => Stream!Stray
<1> SUFFICES ASSUME StreamInv, StreamInv', Promise', [Next]_rvars, Broken
             PROVE  Stream!Stray
  OBVIOUS
<1>1. Len(WireBar) = Len(wire) /\ StreamTypeOK /\ StreamTypeOK'
  BY WireIsPrefix DEF StreamInv
<1>2. WireBar' = [k \in 1..Len(wire') |-> k] /\ Len(WireBar') = Len(wire')
  BY NextWire
<1>3. Len(wire') >= Len(wire) /\ UNCHANGED Total
  <2>1. wire \in Seq(Byte) /\ Len(wire) \in Nat
    BY <1>1 DEF StreamTypeOK
  <2>2. CASE WriteSome
    <3>1. PICK s \in 1..(Len(buff) - begin) :
            wire' = wire \o SubSeq(buff, begin + 1, begin + s)
      BY <2>2 DEF WriteSome
    <3>2. Len(wire') = Len(wire) + s /\ s \in Nat
      <4>1. /\ buff \in Seq(Byte) /\ wire \in Seq(Byte) /\ begin \in Nat /\ s \in Nat \ {0}
            /\ begin + s <= Len(buff)
        BY <1>1 DEF StreamTypeOK
      <4>2. /\ SubSeq(buff, begin + 1, begin + s) \in Seq(Byte)
            /\ Len(SubSeq(buff, begin + 1, begin + s)) = s
        BY <4>1, Piece
      <4> QED
        BY <3>1, <4>1, <4>2, ConcatProperties
    <3>3. Len(wire') >= Len(wire)
      BY <2>1, <3>2
    <3> QED
      BY <2>2, <3>3 DEF WriteSome, response, Total
  <2>3. CASE ~WriteSome
    BY <2>1, <2>3 DEF Next, rvars, response, Total, ReadWindow, NoBuffer, WriteFails,
                      FileChanges, SendWindow, End
  <2> QED
    BY <2>2, <2>3
<1>4. StateBar = "aborted" /\ StateBar' = "aborted"
  BY <1>1, BrokenStep DEF StateBar
<1> QED
  BY <1>1, <1>2, <1>3, <1>4, StreamBar

LEMMA StreamStep ==
  StreamInv /\ Promise /\ StreamInv' /\ Promise' /\ [Next]_rvars
    => [Stream!Next]_Stream!svars
<1> SUFFICES ASSUME StreamInv, Promise, StreamInv', Promise', [Next]_rvars, ~Broken
             PROVE  Stream!Deliver \/ Stream!Finish \/ Stream!Abort \/ UNCHANGED Stream!svars
  BY BrokenStreams DEF Stream!Next
<1>1. /\ StreamTypeOK /\ Len(WireBar) = Len(wire) /\ Len(wire) \in Nat /\ Total \in Nat
      /\ ~FileChanges => ~Broken'
  BY WireIsPrefix, WireWithinTotal, BrokenStep DEF StreamInv
<1>2. ASSUME NEW points \in SUBSET {"kept", "closed", "failed"}, End(points),
             pc = "read" \/ pc = "send"
      PROVE  /\ UNCHANGED <<WireBar, Total>> /\ StateBar = "open"
             /\ "failed" \notin points => StateBar' = "finished"
             /\ points = {"failed"} => StateBar' = "aborted"
  <2>1. ~Broken'
    BY <1>2 DEF End, response, file, Broken
  <2> QED
    BY <1>2, <2>1 DEF End, response, WireBar, Total, StateBar, Position, First
<1>3. CASE NoBuffer \/ WriteFails
  BY <1>2, <1>3, StreamBar DEF NoBuffer, WriteFails
<1>4. CASE ReadWindow
  <2> DEFINE c == GetContent(pos, SendBuff)
  <2>1. c.ret = 0 => pos = head + bodyLen - First /\ bodyLen >= First
    BY <1>1, Window
  <2>2. pc = "read" /\ pos = Len(wire)
    <3>1. Len(buff) \in Nat /\ Len(wire) \in Nat
      BY <1>1 DEF StreamTypeOK
    <3>2. pc = "read" /\ begin = Len(buff) /\ pos = Len(wire) + Len(buff) - begin
      BY <1>4 DEF ReadWindow, StreamInv, Buffered
    <3> QED
      BY <3>1, <3>2
  <2> HIDE DEF c
  <2>3. CASE SendWindow(c)
    <3>1. UNCHANGED <<WireBar, Total, StateBar>>
      BY <2>2, <2>3
      DEF SendWindow, response, file, WireBar, Total, StateBar, Broken, Position, First
    <3> QED
      BY <3>1, StreamBar
  <2>4. CASE c.ret = 0 /\ End({"kept", "closed"})
    <3>1. Len(WireBar) = Total
      <4>1. head \in Nat /\ First \in Nat /\ bodyLen \in Nat
        BY <1>1, FirstType, StreamAssumption DEF StreamTypeOK, Promise
      <4> QED
        BY <1>1, <2>1, <2>2, <2>4, <4>1 DEF Promise, Total
    <3> QED
      BY <1>2, <2>2, <2>4, <3>1, StreamBar
  <2>5. CASE End({"failed"})
    BY <1>2, <2>2, <2>5, StreamBar
  <2> QED
    BY <1>4, <2>3, <2>4, <2>5 DEF ReadWindow, c
<1>5. CASE WriteSome
  <2>1. PICK s \in 1..(Len(buff) - begin) :
          wire' = wire \o SubSeq(buff, begin + 1, begin + s)
    BY <1>5 DEF WriteSome
  <2>2. Len(wire') = Len(wire) + s /\ s \in Nat \ {0}
    <3>1. /\ buff \in Seq(Byte) /\ wire \in Seq(Byte) /\ begin \in Nat /\ s \in Nat \ {0}
          /\ begin + s <= Len(buff)
      BY <1>1 DEF StreamTypeOK
    <3>2. /\ SubSeq(buff, begin + 1, begin + s) \in Seq(Byte)
          /\ Len(SubSeq(buff, begin + 1, begin + s)) = s
      BY <3>1, Piece
    <3> QED
      BY <2>1, <3>1, <3>2, ConcatProperties
  <2>3. UNCHANGED <<Total, StateBar>> /\ StateBar = "open" /\ ~Broken'
    BY <1>5 DEF WriteSome, response, file, Total, StateBar, Broken
  <2>4. Len(wire') \in (Len(WireBar) + 1)..Total /\ WireBar' = [i \in 1..Len(wire') |-> i]
    BY <1>1, <2>2, <2>3, NextWire
  <2> QED
    BY <2>3, <2>4, StreamBar
<1>6. CASE UNCHANGED rvars
  BY <1>6, StreamBar DEF rvars, response, file, WireBar, Total, StateBar, Broken, Position, First
<1>7. CASE FileChanges
  <2>1. Broken' /\ StateBar = "open"
    BY <1>1, <1>7 DEF FileChanges, Over, StateBar, Broken, StreamTypeOK, Points
  <2>2. UNCHANGED <<WireBar, Total>>
    BY <1>7 DEF FileChanges, response, WireBar, Total, Position, First
  <2>3. StateBar' = "aborted"
    BY <2>1 DEF StateBar
  <2> QED
    BY <2>1, <2>2, <2>3, StreamBar
<1> QED
  BY <1>3, <1>4, <1>5, <1>6, <1>7 DEF Next, rvars

\* A response implements the abstract stream: as long as its file stays as it is and its
\* range goes to the end of it, a client gets exactly what the head promises, and the
\* connection is kept for another request only after that (send_response).
THEOREM ResponseStreamed == Spec => Streamed
<1>2. StreamInv /\ Promise /\ Init => Stream!Init
  <2> SUFFICES ASSUME StreamInv, Promise, Init PROVE Stream!Init
    OBVIOUS
  <2>1. Total \in Nat
    BY StreamAssumption DEF StreamInv, StreamTypeOK, Total
  <2>2. WireBar = <<>>
    BY DEF Init, WireBar
  <2>3. StateBar \in {"open", "aborted"}
    BY DEF Init, StateBar
  <2> QED
    BY <2>1, <2>2, <2>3, StreamBar
<1>3. Init => Promise
  BY PromiseInit
<1>4. StreamInv /\ Promise /\ [Next]_rvars => Promise'
  BY PromiseNext
<1>5. StreamInv /\ Promise /\ StreamInv' /\ Promise' /\ [Next]_rvars
        => [Stream!Next]_Stream!svars
  BY StreamStep
<1> QED
  BY <1>2, <1>3, <1>4, <1>5, StreamInit, StreamNext, PTL DEF Spec, Streamed, Stream!Spec
=============================================================================
