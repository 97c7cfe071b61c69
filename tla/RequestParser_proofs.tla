------------------------ MODULE RequestParser_proofs ------------------------
(***************************************************************************)
(* What the parser knows of a request does not depend on how the network   *)
(* cut it, for every position of the blank line, every Content-Length and  *)
(* every sequence of receives.                                             *)
(***************************************************************************)
EXTENDS RequestParser, SequenceTheorems, TLAPS

LEMMA FunctionIsSeq ==
  ASSUME NEW S, NEW n \in Nat, NEW f \in [1..n -> S]
  PROVE  f \in Seq(S) /\ Len(f) = n
OBVIOUS

\* The bytes a + 1 .. b of the connection.
Bytes(a, b) == [i \in 1..(b - a) |-> a + i]

LEMMA BytesType ==
  ASSUME NEW a \in Nat, NEW b \in Nat, a <= b, b <= MaxStream
  PROVE  Bytes(a, b) \in Seq(1..MaxStream) /\ Len(Bytes(a, b)) = b - a
<1>1. \A i \in 1..(b - a) : a + i \in 1..MaxStream
  BY ParserAssumption
<1>2. Bytes(a, b) \in [1..(b - a) -> 1..MaxStream]
  BY <1>1 DEF Bytes
<1>3. b - a \in Nat
  OBVIOUS
<1> QED
  BY <1>2, <1>3, FunctionIsSeq

\* What was kept and what arrives make one piece of the connection.
LEMMA Joined ==
  ASSUME NEW a \in Nat, NEW b \in Nat, NEW c \in Nat, a <= b, b <= c, c <= MaxStream
  PROVE  Bytes(a, b) \o Bytes(b, c) = Bytes(a, c)
<1>1. /\ Bytes(a, b) \in Seq(1..MaxStream) /\ Len(Bytes(a, b)) = b - a
      /\ Bytes(b, c) \in Seq(1..MaxStream) /\ Len(Bytes(b, c)) = c - b
      /\ Bytes(a, c) \in Seq(1..MaxStream) /\ Len(Bytes(a, c)) = c - a
  <2>1. a <= c /\ b <= MaxStream
    BY ParserAssumption
  <2> QED
    BY <2>1, BytesType
<1> DEFINE s == Bytes(a, b) \o Bytes(b, c)
<1>2. /\ s \in Seq(1..MaxStream) /\ Len(s) = c - a
      /\ \A i \in 1..(c - a) : s[i] = IF i <= b - a THEN Bytes(a, b)[i]
                                      ELSE Bytes(b, c)[i - (b - a)]
  <2>1. (b - a) + (c - b) = c - a
    OBVIOUS
  <2>2. /\ s \in Seq(1..MaxStream) /\ Len(s) = (b - a) + (c - b)
        /\ \A i \in 1..((b - a) + (c - b)) :
             s[i] = IF i <= b - a THEN Bytes(a, b)[i] ELSE Bytes(b, c)[i - (b - a)]
    <3>1. /\ s \in Seq(1..MaxStream) /\ Len(s) = Len(Bytes(a, b)) + Len(Bytes(b, c))
          /\ \A i \in 1..(Len(Bytes(a, b)) + Len(Bytes(b, c))) :
               s[i] = IF i <= Len(Bytes(a, b)) THEN Bytes(a, b)[i]
                      ELSE Bytes(b, c)[i - Len(Bytes(a, b))]
      BY <1>1, ConcatProperties
    <3> HIDE DEF s
    <3> QED
      BY <1>1, <3>1
  <2> HIDE DEF s
  <2> QED
    BY <2>1, <2>2
<1>3. ASSUME NEW i \in 1..(c - a) PROVE s[i] = Bytes(a, c)[i]
  <2>1. CASE i <= b - a
    BY <1>2, <2>1 DEF Bytes
  <2>2. CASE ~(i <= b - a)
    <3>1. i - (b - a) \in 1..(c - b)
      BY <2>2
    <3> QED
      BY <1>2, <2>2, <3>1 DEF Bytes
  <2> QED
    BY <2>1, <2>2
<1> HIDE DEF s
<1>4. s = Bytes(a, c)
  BY <1>1, <1>2, <1>3, SeqEqual
<1> QED
  BY <1>4 DEF s

\* A piece of a piece of the connection.
LEMMA Cut ==
  ASSUME NEW a \in Nat, NEW b \in Nat, NEW m \in Nat, NEW n \in Nat,
         m <= n, a <= b, a + n <= b, b <= MaxStream
  PROVE  SubSeq(Bytes(a, b), m + 1, n) = Bytes(a + m, a + n)
<1>1. /\ Bytes(a, b) \in Seq(1..MaxStream) /\ Len(Bytes(a, b)) = b - a
      /\ Bytes(a + m, a + n) \in Seq(1..MaxStream) /\ Len(Bytes(a + m, a + n)) = n - m
  <2>1. /\ a + m \in Nat /\ a + n \in Nat /\ a + m <= a + n /\ a + n <= MaxStream
        /\ (a + n) - (a + m) = n - m
    BY ParserAssumption
  <2>2. Len(Bytes(a + m, a + n)) = (a + n) - (a + m)
    BY <2>1, BytesType
  <2> QED
    BY <2>1, <2>2, BytesType
<1> DEFINE s == SubSeq(Bytes(a, b), m + 1, n)
<1>2. \A i \in (m + 1)..n : Bytes(a, b)[i] \in 1..MaxStream
  <2>1. \A i \in (m + 1)..n : i \in 1..Len(Bytes(a, b))
    BY <1>1
  <2> QED
    BY <1>1, <2>1, ElementOfSeq
<1>3. /\ s \in Seq(1..MaxStream)
      /\ Len(s) = IF m + 1 <= n THEN n - (m + 1) + 1 ELSE 0
      /\ \A i \in 1..(n - (m + 1) + 1) : s[i] = Bytes(a, b)[m + 1 + i - 1]
  BY <1>2, SubSeqProperties
<1> HIDE DEF s
<1>4. Len(s) = n - m
  BY <1>3
<1>5. ASSUME NEW i \in 1..(n - m) PROVE s[i] = Bytes(a + m, a + n)[i]
  <2>1. i \in 1..(n - (m + 1) + 1) /\ m + 1 + i - 1 = m + i /\ m + i \in 1..(b - a)
    OBVIOUS
  <2>2. s[i] = Bytes(a, b)[m + i]
    BY <1>3, <2>1
  <2> QED
    BY <2>1, <2>2 DEF Bytes
<1>6. s = Bytes(a + m, a + n)
  BY <1>1, <1>3, <1>4, <1>5, SeqEqual
<1> QED
  BY <1>6 DEF s

LEMMA CutStart ==
  ASSUME NEW a \in Nat, NEW b \in Nat, NEW n \in Nat,
         a <= b, a + n <= b, b <= MaxStream
  PROVE  SubSeq(Bytes(a, b), 1, n) = Bytes(a, a + n)
<1>1. 0 \in Nat /\ 0 <= n
  OBVIOUS
<1>2. SubSeq(Bytes(a, b), 0 + 1, n) = Bytes(a + 0, a + n)
  BY <1>1, Cut, Zenon
<1>3. 0 + 1 = 1 /\ a + 0 = a
  OBVIOUS
<1> QED
  BY <1>2, <1>3

\* A length that is compared with a size_t: small if it is not negative, and more than
\* ever arrives if it is.
LEMMA UnsignedCases ==
  ASSUME NEW n \in Lengths, NEW k \in 0..MaxStream, n >= 0 => k <= n
  PROVE  /\ Unsigned(n - k) \in Int
         /\ n >= 0 => Unsigned(n - k) = n - k
         /\ n < 0 => Unsigned(n - k) > MaxStream
<1>1. PosValues \in Nat \ {0} /\ k \in Int /\ MaxStream \in Nat /\ n \in Int /\ n < PosValues
      /\ -PosValues < n - MaxStream
  BY ParserAssumption
<1>2. CASE n >= 0
  <2>1. n - k \in Nat /\ n - k < PosValues
    BY <1>1, <1>2
  <2>2. (n - k) % PosValues = n - k
    BY <1>1, <2>1
  <2> QED
    BY <1>1, <1>2, <2>2 DEF Unsigned
<1>3. CASE n < 0
  <2>1. ASSUME NEW x \in Int, -PosValues <= x, x < 0 PROVE x % PosValues = x + PosValues
    <3>1. PosValues \in Nat \ {0}
      BY <1>1
    <3> QED
      BY <2>1, <3>1
  <2>2. /\ (n - k) % PosValues = (n - k) + PosValues
        /\ (n - MaxStream) % PosValues = (n - MaxStream) + PosValues
    BY <1>1, <1>3, <2>1
  <2>3. MaxStream < (n - MaxStream) % PosValues
    BY <1>3, ParserAssumption
  <2> QED
    BY <1>1, <1>3, <2>2, <2>3 DEF Unsigned
<1> QED
  BY <1>1, <1>2, <1>3
-----------------------------------------------------------------------------
\* What the parser holds between two receives.
Collected ==
  /\ status = "head" => /\ received < headEnd
                        /\ cache = Bytes(0, received) /\ left = 0 /\ body = <<>>
  /\ status # "head" => headEnd <= received
  /\ status = "body" =>
       /\ wellFormed /\ numeric /\ length # 0
       /\ cache = <<>> /\ left = length - (received - headEnd)
       /\ length >= 0 => left > 0
       /\ body = Bytes(headEnd, received)
  /\ status = "over" =>
       /\ wellFormed /\ numeric
       /\ \/ left # 0 /\ body = <<>>
          \/ /\ left = 0 /\ length >= 0 /\ headEnd + length <= received
             /\ body = Bytes(headEnd, headEnd + length)
  /\ status = "thrown" => wellFormed /\ ~numeric

Collecting == ParserTypeOK /\ Collected

\* parser_body: what it is given are the bytes after the first `from', and those
\* before them are already in the body.
LEMMA BodyStep ==
  ASSUME ParserTypeOK, NEW from \in headEnd..MaxStream, NEW to \in from..MaxStream,
         NEW toFile \in BOOLEAN, NEW m, NEW data,
         m = length - (from - headEnd), data = Bytes(from, to),
         wellFormed, numeric, length # 0, body = Bytes(headEnd, from),
         length >= 0 => from - headEnd < length,
         ParserBody(m, data, toFile),
         received' = to, cached' \in BOOLEAN, UNCHANGED request
  PROVE  Collecting'
<1>1. /\ headEnd \in Nat /\ headEnd \in HeadEnds /\ length \in Int /\ length \in Lengths
      /\ MaxStream \in Nat /\ from \in Nat /\ to \in Nat
      /\ headEnd <= from /\ from <= to /\ to <= MaxStream /\ from <= MaxStream
  BY ParserAssumption DEF ParserTypeOK
<1>2. /\ headEnd' = headEnd /\ wellFormed' = wellFormed /\ length' = length
      /\ numeric' = numeric
  BY DEF request
<1>3. data \in Seq(1..MaxStream) /\ Len(data) = to - from
  BY <1>1, BytesType
<1>4. body \in Seq(1..MaxStream)
  BY DEF ParserTypeOK
<1>5. m \in Int
  BY <1>1
<1>6. /\ Unsigned(m) \in Int
      /\ length >= 0 => Unsigned(m) = m
      /\ length < 0 => Unsigned(m) > MaxStream
  <2>1. from - headEnd \in 0..MaxStream /\ (length >= 0 => from - headEnd <= length)
    BY <1>1
  <2> QED
    BY <1>1, <2>1, UnsignedCases
<1> DEFINE complete == Unsigned(m) <= Len(data)
<1>7. cache' = <<>> /\ left' = IF complete THEN 0 ELSE m - Len(data)
  BY DEF ParserBody
<1>8. /\ headEnd' \in HeadEnds /\ wellFormed' \in BOOLEAN /\ length' \in Lengths
      /\ numeric' \in BOOLEAN /\ received' \in 0..MaxStream
      /\ cache' \in Seq(1..MaxStream) /\ left' \in Int /\ cached' \in BOOLEAN
      /\ headEnd' <= received'
  <2>1. left' \in Int
    BY <1>1, <1>3, <1>5, <1>7
  <2>2. cache' \in Seq(1..MaxStream)
    BY <1>7
  <2> QED
    BY <1>1, <1>2, <2>1, <2>2 DEF ParserTypeOK
<1>9. CASE status' = "error" /\ body' = body
  BY <1>4, <1>8, <1>9 DEF Collecting, Collected, ParserTypeOK, Statuses
<1>10. CASE /\ body' = body \o Wanted(m, data)
            /\ status' = IF complete THEN "over" ELSE "body"
  <2>1. CASE complete
    <3>1. /\ length >= 0 /\ Unsigned(m) = m /\ m \in Nat /\ m <= to - from
          /\ headEnd + length = from + m /\ from + m <= to
      <4>1. Unsigned(m) <= to - from
        BY <1>3, <2>1
      <4>2. length >= 0
        BY <1>1, <1>6, <4>1
      <4>3. Unsigned(m) = m /\ m <= to - from
        BY <1>6, <4>1, <4>2
      <4> QED
        BY <1>1, <4>2, <4>3
    <3>2. Wanted(m, data) = SubSeq(Bytes(from, to), 1, m)
      BY <2>1 DEF Wanted
    <3>3. SubSeq(Bytes(from, to), 1, m) = Bytes(from, from + m)
      <4> HIDE DEF complete
      <4> QED
        BY <1>1, <3>1, CutStart
    <3>4. Wanted(m, data) = Bytes(from, headEnd + length)
      BY <3>1, <3>2, <3>3
    <3>5. body' = Bytes(headEnd, headEnd + length)
      <4>1. /\ headEnd + length \in Nat /\ from <= headEnd + length
            /\ headEnd + length <= MaxStream
        BY <1>1, <3>1
      <4>2. Bytes(headEnd, from) \o Bytes(from, headEnd + length)
              = Bytes(headEnd, headEnd + length)
        BY <1>1, <4>1, Joined
      <4> QED
        BY <1>10, <3>4, <4>2
    <3>6. Bytes(headEnd, headEnd + length) \in Seq(1..MaxStream)
      BY <1>1, <3>1, BytesType
    <3>7. status' = "over" /\ left' = 0 /\ headEnd' + length' <= received'
      BY <1>1, <1>2, <1>7, <1>10, <2>1, <3>1
    <3>8. body' = Bytes(headEnd', headEnd' + length')
      BY <1>2, <3>5
    <3> QED
      BY <1>2, <1>8, <3>1, <3>5, <3>6, <3>7, <3>8
      DEF Collecting, Collected, ParserTypeOK, Statuses
  <2>2. CASE ~complete
    <3>1. Wanted(m, data) = Bytes(from, to)
      BY <2>2 DEF Wanted
    <3>2. body' = Bytes(headEnd, to)
      <4>1. Bytes(headEnd, from) \o Bytes(from, to) = Bytes(headEnd, to)
        BY <1>1, Joined
      <4> QED
        BY <1>10, <3>1, <4>1
    <3>3. Bytes(headEnd, to) \in Seq(1..MaxStream)
      BY <1>1, BytesType
    <3>4. left' = length' - (received' - headEnd')
      BY <1>1, <1>2, <1>3, <1>7, <2>2
    <3>5. length' >= 0 => left' > 0
      BY <1>1, <1>2, <1>3, <1>5, <1>6, <1>7, <2>2
    <3>6. status' = "body" /\ body' = Bytes(headEnd', received')
      BY <1>2, <1>10, <2>2, <3>2
    <3> QED
      BY <1>2, <1>7, <1>8, <3>2, <3>3, <3>4, <3>5, <3>6
      DEF Collecting, Collected, ParserTypeOK, Statuses
  <2> QED
    BY <2>1, <2>2
<1> QED
  BY <1>9, <1>10 DEF ParserBody

LEMMA InitCollecting == Init => Collecting
<1> SUFFICES ASSUME Init PROVE Collecting
  OBVIOUS
<1>1. headEnd \in Nat \ {0} /\ MaxStream \in Nat
  BY ParserAssumption DEF Init
<1>2. Bytes(0, 0) = <<>>
  BY DEF Bytes
<1>3. <<>> \in Seq(1..MaxStream)
  OBVIOUS
<1>4. ParserTypeOK
  <2>1. /\ headEnd \in HeadEnds /\ wellFormed \in BOOLEAN
        /\ length \in Lengths /\ numeric \in BOOLEAN
        /\ status \in Statuses /\ cached \in BOOLEAN
    BY DEF Init, Statuses
  <2>2. cache \in Seq(1..MaxStream) /\ body \in Seq(1..MaxStream)
    BY <1>3 DEF Init
  <2>3. received \in 0..MaxStream /\ left \in Int
    BY <1>1 DEF Init
  <2> QED
    BY <2>1, <2>2, <2>3 DEF ParserTypeOK
<1>5. /\ received = 0 /\ status = "head" /\ left = 0 /\ cache = <<>> /\ body = <<>>
      /\ received < headEnd
  BY <1>1 DEF Init
<1>6. cache = Bytes(0, received)
  BY <1>2, <1>5
<1> QED
  BY <1>4, <1>5, <1>6 DEF Collecting, Collected

\* The next n bytes of the connection.
LEMMA ArrivedBytes ==
  ASSUME ParserTypeOK, NEW n \in 1..MaxStream, received + n <= MaxStream
  PROVE  /\ Arrived(n) = Bytes(received, received + n)
         /\ received \in Nat /\ received + n \in Nat /\ received <= received + n
<1>1. received \in Nat /\ n \in Nat /\ MaxStream \in Nat
  BY ParserAssumption DEF ParserTypeOK
<1>2. (received + n) - received = n
  BY <1>1
<1> QED
  BY <1>1, <1>2 DEF Arrived, Bytes

LEMMA NothingStep ==
  ASSUME Collecting, NEW n \in 1..MaxStream, received + n <= MaxStream,
         ParseNothing(n), received' = received + n, UNCHANGED request
  PROVE  Collecting'
<1>1. /\ Arrived(n) = Bytes(received, received + n)
      /\ received \in Nat /\ received + n \in Nat /\ received <= received + n
  BY ArrivedBytes DEF Collecting
<1>2. /\ status = "head" /\ received + n < headEnd /\ cache = Bytes(0, received)
      /\ cache' = cache \o Arrived(n)
      /\ status' = status /\ left' = left /\ cached' = cached /\ body' = body
  BY DEF ParseNothing, Collecting, Collected
<1>3. /\ headEnd' = headEnd /\ wellFormed' = wellFormed /\ length' = length
      /\ numeric' = numeric
  BY DEF request
<1>4. 0 \in Nat /\ 0 <= received
  BY <1>1
<1>5. cache' = Bytes(0, received + n)
  <2>1. Bytes(0, received) \o Bytes(received, received + n) = Bytes(0, received + n)
    BY <1>1, <1>4, Joined
  <2> QED
    BY <1>1, <1>2, <2>1
<1>6. Bytes(0, received + n) \in Seq(1..MaxStream)
  BY <1>1, BytesType
<1>7. received + n \in 0..MaxStream
  BY <1>1, ParserAssumption
<1> QED
  BY <1>2, <1>3, <1>5, <1>6, <1>7 DEF Collecting, Collected, ParserTypeOK, Statuses

LEMMA HeadStep ==
  ASSUME Collecting, NEW n \in 1..MaxStream, received + n <= MaxStream,
         ParseHead(n), received' = received + n, UNCHANGED request
  PROVE  Collecting'
<1>1. /\ Arrived(n) = Bytes(received, received + n)
      /\ received \in Nat /\ received + n \in Nat /\ received <= received + n
  BY ArrivedBytes DEF Collecting
<1>2. /\ status = "head" /\ received + n >= headEnd /\ cache = Bytes(0, received)
      /\ left = 0 /\ body = <<>>
  BY DEF ParseHead, Collecting, Collected
<1>3. /\ headEnd' = headEnd /\ wellFormed' = wellFormed /\ length' = length
      /\ numeric' = numeric
  BY DEF request
<1>4. headEnd \in Nat \ {0} /\ MaxStream \in Nat /\ length \in Int /\ 0 <= received
  BY <1>1, ParserAssumption DEF Collecting, ParserTypeOK
<1> DEFINE data == cache \o Arrived(n)
           rest == SubSeq(data, headEnd + 1, Len(data))
           large == Unsigned(length) > MaxBody
<1>5. data = Bytes(0, received + n) /\ Len(data) = received + n
  <2>1. Bytes(0, received) \o Bytes(received, received + n) = Bytes(0, received + n)
    BY <1>1, <1>4, Joined
  <2>2. Len(Bytes(0, received + n)) = (received + n) - 0
    BY <1>1, <1>4, BytesType
  <2>3. data = Bytes(0, received + n)
    BY <1>1, <1>2, <2>1
  <2>4. (received + n) - 0 = received + n
    BY <1>1
  <2> HIDE DEF data
  <2> QED
    BY <2>2, <2>3, <2>4
<1>6. rest = Bytes(headEnd, received + n)
  <2>1. SubSeq(Bytes(0, received + n), headEnd + 1, received + n)
          = Bytes(0 + headEnd, 0 + (received + n))
    <3>1. /\ 0 \in Nat /\ headEnd \in Nat /\ 0 <= received + n
          /\ headEnd <= received + n /\ 0 + (received + n) <= received + n
      BY <1>1, <1>2, <1>4
    <3> QED
      BY <1>1, <3>1, Cut, Zenon
  <2>2. 0 + headEnd = headEnd /\ 0 + (received + n) = received + n
    BY <1>1, <1>4
  <2> QED
    BY <1>5, <2>1, <2>2
<1>7. rest \in Seq(1..MaxStream)
  BY <1>1, <1>2, <1>4, <1>6, BytesType
<1>8. received + n \in 0..MaxStream /\ headEnd <= received + n
  BY <1>1, <1>2, <1>4
<1> HIDE DEF data, rest, large
<1>9. CASE /\ ~wellFormed \/ ~numeric
           /\ status' = IF wellFormed THEN "thrown" ELSE "error"
           /\ cache' = rest /\ UNCHANGED <<left, cached, body>>
  BY <1>2, <1>3, <1>7, <1>8, <1>9 DEF Collecting, Collected, ParserTypeOK, Statuses
<1>10. CASE /\ wellFormed /\ numeric /\ length = 0
            /\ status' = "over" /\ cache' = rest /\ UNCHANGED <<left, cached, body>>
  <2>1. headEnd + length = headEnd /\ body = Bytes(headEnd, headEnd)
    BY <1>2, <1>4, <1>10 DEF Bytes
  <2> QED
    BY <1>2, <1>3, <1>4, <1>7, <1>8, <1>10, <2>1
    DEF Collecting, Collected, ParserTypeOK, Statuses
<1>11. CASE /\ wellFormed /\ numeric /\ length # 0 /\ cached' = large
            /\ ParserBody(length, rest, large)
  <2>1. large \in BOOLEAN
    BY DEF large
  <2>2. body = Bytes(headEnd, headEnd)
    BY <1>2, <1>4 DEF Bytes
  <2>3. /\ headEnd \in headEnd..MaxStream /\ received + n \in headEnd..MaxStream
        /\ length = length - (headEnd - headEnd)
        /\ length >= 0 => headEnd - headEnd < length
    BY <1>4, <1>8, <1>11
  <2> QED
    BY <1>6, <1>11, <2>1, <2>2, <2>3, BodyStep DEF Collecting
<1>12. CASE /\ wellFormed /\ numeric /\ length # 0 /\ DirFails
            /\ cached' = TRUE /\ left' = length
            /\ status' = "over" /\ cache' = rest /\ UNCHANGED body
  BY <1>2, <1>3, <1>4, <1>7, <1>8, <1>12
  DEF Collecting, Collected, ParserTypeOK, Statuses
<1> QED
  BY <1>9, <1>10, <1>11, <1>12 DEF ParseHead, data, rest, large

LEMMA MoreBody ==
  ASSUME Collecting, NEW n \in 1..MaxStream, received + n <= MaxStream,
         ParseBody(n), received' = received + n, UNCHANGED request
  PROVE  Collecting'
<1>1. /\ Arrived(n) = Bytes(received, received + n)
      /\ received \in Nat /\ received + n \in Nat /\ received <= received + n
  BY ArrivedBytes DEF Collecting
<1>2. /\ status = "body" /\ headEnd <= received /\ wellFormed /\ numeric /\ length # 0
      /\ cache = <<>> /\ left = length - (received - headEnd)
      /\ length >= 0 => left > 0
      /\ body = Bytes(headEnd, received)
      /\ ParserBody(left, cache \o Arrived(n), cached) /\ cached' = cached
  BY DEF ParseBody, Collecting, Collected
<1>3. headEnd \in Nat \ {0} /\ MaxStream \in Nat /\ length \in Int /\ cached \in BOOLEAN
  BY ParserAssumption DEF Collecting, ParserTypeOK
<1>4. cache \o Arrived(n) = Bytes(received, received + n)
  <2>1. Bytes(received, received) = <<>>
    BY <1>1 DEF Bytes
  <2>2. Bytes(received, received) \o Bytes(received, received + n)
          = Bytes(received, received + n)
    <3>1. received <= received
      BY <1>1
    <3> QED
      BY <1>1, <3>1, Joined, Zenon
  <2>3. cache = Bytes(received, received)
    BY <1>2, <2>1
  <2>4. Arrived(n) = Bytes(received, received + n)
    BY <1>1
  <2> QED
    BY <2>2, <2>3, <2>4, Zenon
<1>5. /\ received \in headEnd..MaxStream /\ received + n \in received..MaxStream
      /\ length >= 0 => received - headEnd < length
  BY <1>1, <1>2, <1>3
<1> QED
  BY <1>2, <1>3, <1>4, <1>5, BodyStep DEF Collecting

LEMMA StepCollecting == Collecting /\ [Next]_pvars => Collecting'
<1> SUFFICES ASSUME Collecting, [Next]_pvars PROVE Collecting'
  OBVIOUS
<1>1. ASSUME NEW n \in 1..MaxStream, Receive(n) PROVE Collecting'
  BY <1>1, NothingStep, HeadStep, MoreBody DEF Receive
<1>2. CASE UNCHANGED pvars
  BY <1>2 DEF pvars, request, Collecting, Collected, ParserTypeOK
<1> QED
  BY <1>1, <1>2 DEF Next

LEMMA ParserInvariant == Spec => []Collecting
BY InitCollecting, StepCollecting, PTL DEF Spec

\* The parser's state keeps its type: no call takes in bytes that did not arrive, whether
\* or not the cache file can be had.
THEOREM ParserTyped == Spec => []ParserTypeOK
<1>1. Collecting => ParserTypeOK
  BY DEF Collecting
<1> QED
  BY <1>1, ParserInvariant, PTL

\* The outcome of the calls of parser() is that of one call with all their bytes: the
\* status, and the bytes of the body; or the cache directory was not to be had.
THEOREM CutAnywhere == Spec => []ChunkIndependent
<1>1. Collecting => ChunkIndependent
  <2>0. Collecting /\ GivenUp => body = <<>>
    BY DEF Collecting, Collected, GivenUp
  <2> SUFFICES ASSUME Collecting, ~GivenUp, status # "error" \/ ~wellFormed
               PROVE  /\ status = ReferenceStatus(received)
                      /\ status \in {"body", "over"} => body = ReferenceBody(received)
    BY <2>0 DEF ChunkIndependent
  <2>1. /\ headEnd \in Nat /\ received \in Nat /\ length \in Int /\ status \in Statuses
    BY ParserAssumption DEF Collecting, ParserTypeOK
  <2>2. CASE status \in {"head", "thrown", "error"}
    BY <2>1, <2>2 DEF Collecting, Collected, ReferenceStatus, Statuses
  <2>3. CASE status = "body"
    <3>1. ~(length >= 0 /\ headEnd + length <= received) /\ headEnd <= received
      BY <2>1, <2>3 DEF Collecting, Collected
    <3> QED
      BY <2>1, <2>3, <3>1
      DEF Collecting, Collected, ReferenceStatus, ReferenceBody, Bytes
  <2>4. CASE status = "over"
    <3>1. /\ length >= 0 /\ headEnd + length <= received /\ headEnd <= received
          /\ wellFormed /\ numeric /\ body = Bytes(headEnd, headEnd + length)
      BY <2>1, <2>4 DEF Collecting, Collected, GivenUp
    <3> QED
      BY <2>1, <2>4, <3>1 DEF ReferenceStatus, ReferenceBody, Bytes
  <2> QED
    BY <2>1, <2>2, <2>3, <2>4 DEF Statuses
<1> QED
  BY <1>1, ParserInvariant, PTL
=============================================================================
