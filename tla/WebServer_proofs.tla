-------------------------- MODULE WebServer_proofs --------------------------
(***************************************************************************)
(* Theorems about the web server: how forms are read, type correctness,    *)
(* the cached pages, and, for handler.json as it is shipped, what the      *)
(* filters attach, delete and check.                                       *)
(***************************************************************************)
EXTENDS WebServer, SequenceTheorems, WellFoundedInduction, TLAPS

-----------------------------------------------------------------------------
(* How MultipartFormParser::parser reads a form.                           *)

\* One window more.
LEMMA ModAdd == ASSUME NEW a \in Nat, NEW w \in Nat \ {0}, a % w = 0 PROVE (a + w) % w = 0
<1> DEFINE q == a \div w
<1>1. q \in Nat /\ a = w * q
  OBVIOUS
<1> HIDE DEF q
<1>2. a + w = w * (q + 1) /\ q + 1 \in Nat
  BY <1>1
<1>3. \A p \in Nat : (w * p) % w = 0
  OBVIOUS
<1> QED BY <1>2, <1>3

\* The least number of a set: what stands for induction over a number.
LEMMA LeastNat ==
  ASSUME NEW T \in SUBSET Nat, T # {}
  PROVE  \E n \in T : \A m \in T : n <= m
<1> DEFINE R == OpToRel(<, Nat)
<1>1. IsWellFoundedOn(R, Nat)
  BY NatLessThanWellFounded
<1>2. \A x, y \in Nat : <<x, y>> \in R <=> x < y
  BY DEF OpToRel
<1> HIDE DEF R
<1>3. PICK n \in T : \A y \in T : ~(<<y, n>> \in R)
  BY <1>1, WFMin
<1>4. \A m \in T : ~(m < n)
  BY <1>2, <1>3
<1>5. \A m \in T : m \in Nat /\ n \in Nat
  OBVIOUS
<1>6. \A m \in T : n <= m
  BY <1>4, <1>5
<1> QED BY <1>3, <1>6

\* string::find gives the first place of the mark.
LEMMA Found0 ==
  ASSUME NEW t \in Seq(Chars), NEW m
  PROVE  /\ Find(t, m) = 0 <=> Places(t, m) = {}
         /\ Find(t, m) # 0 => /\ Find(t, m) \in Places(t, m)
                              /\ \A j \in Places(t, m) : Find(t, m) <= j
<1>1. Places(t, m) \in SUBSET Nat /\ 0 \notin Places(t, m)
  BY DEF Places
<1>2. CASE Places(t, m) = {}
  BY <1>2 DEF Find
<1>3. CASE Places(t, m) # {}
  <2>1. \E i \in Places(t, m) : \A j \in Places(t, m) : i <= j
    BY <1>1, <1>3, LeastNat
  <2> QED BY <1>1, <1>3, <2>1 DEF Find
<1> QED BY <1>2, <1>3

\* What the operators on texts give, character by character.
LEMMA FromIs ==
  ASSUME NEW t \in Seq(Chars), NEW i \in 1..(Len(t) + 1)
  PROVE  /\ From(t, i) \in Seq(Chars) /\ Len(From(t, i)) = Len(t) + 1 - i
         /\ \A k \in 1..(Len(t) + 1 - i) : From(t, i)[k] = t[i + k - 1]
BY SubSeqProperties DEF From

\* A text behind another.
LEMMA ConcatIs ==
  ASSUME NEW t \in Seq(Chars), NEW v \in Seq(Chars)
  PROVE  /\ t \o v \in Seq(Chars) /\ Len(t \o v) = Len(t) + Len(v)
         /\ \A i \in 1..(Len(t) + Len(v)) :
              (t \o v)[i] = IF i <= Len(t) THEN t[i] ELSE v[i - Len(t)]
BY ConcatProperties

\* The text in front of a mark, without its end of line.
LEMMA InFrontIs ==
  ASSUME NEW t \in Seq(Chars), NEW i \in 2..Len(t)
  PROVE  /\ InFront(t, i) \in Seq(Chars) /\ Len(InFront(t, i)) = i - 2
         /\ \A k \in 1..(i - 2) : InFront(t, i)[k] = t[k]
BY SubSeqProperties DEF InFront

FormPartRead == [file : BOOLEAN, data : Seq(Chars)]
\* The parser of the body b in windows of win bytes, with or without a place for files.
Parser(b, win, disk) ==
  [mode : {"begin", "param", "data", "over", "error"}, body : {b}, window : {win}, disk : {disk},
   cache : Seq(Chars), pos : 0..Len(b), outer : Nat, file : BOOLEAN, data : Seq(Chars),
   parts : Seq(FormPartRead)]

\* How many bytes are dealt with: what the parser has read, but for its cache.
Done(s) == s.pos - Len(s.cache)

\* The cache is the end of what was read, which is a number of windows or the whole body.
Reading(s) ==
  /\ Done(s) >= 0 /\ \A i \in 1..Len(s.cache) : s.cache[i] = s.body[Done(s) + i]
  /\ s.pos % s.window = 0 \/ s.pos = Len(s.body)
  /\ s.outer <= s.pos

\* A window is the next bytes of the body.
LEMMA WindowIs ==
  ASSUME NEW b \in Seq(Chars), NEW win \in Nat \ {0}, NEW disk \in BOOLEAN,
         NEW s \in Parser(b, win, disk)
  PROVE  /\ Window(s) \in Seq(Chars)
         /\ Len(Window(s)) = IF s.pos + win < Len(b) THEN win ELSE Len(b) - s.pos
         /\ \A i \in 1..Len(Window(s)) : Window(s)[i] = b[s.pos + i]
<1>1. s.body = b /\ s.window = win /\ s.pos \in 0..Len(b) /\ Len(b) \in Nat
  BY DEF Parser
<1> DEFINE hi == IF s.pos + win < Len(b) THEN s.pos + win ELSE Len(b)
<1>2. hi \in Int /\ hi >= s.pos /\ hi <= Len(b) /\ s.pos + 1 \in Int
  BY <1>1
<1>3. \A i \in (s.pos + 1)..hi : b[i] \in Chars
  BY <1>1, <1>2, ElementOfSeq
<1>4. Window(s) = SubSeq(b, s.pos + 1, hi)
  BY <1>1 DEF Window
<1>5. hi - s.pos = IF s.pos + win < Len(b) THEN win ELSE Len(b) - s.pos
  BY <1>1
<1> HIDE DEF hi
<1>6. /\ SubSeq(b, s.pos + 1, hi) \in Seq(Chars)
      /\ Len(SubSeq(b, s.pos + 1, hi)) = hi - s.pos
      /\ \A i \in 1..(hi - s.pos) : SubSeq(b, s.pos + 1, hi)[i] = b[s.pos + i]
  BY <1>1, <1>2, <1>3, SubSeqProperties
<1> QED BY <1>4, <1>5, <1>6

\* request_get_body reads on: the cache grows by a window, or by the rest of the body.
LEMMA ReadIs ==
  ASSUME NEW b \in Seq(Chars), NEW win \in Nat \ {0}, NEW disk \in BOOLEAN,
         NEW s \in Parser(b, win, disk), Reading(s)
  PROVE  /\ Read(s) \in Parser(b, win, disk)
         /\ Read(s).mode = s.mode /\ Read(s).outer = s.outer /\ Read(s).file = s.file
         /\ Read(s).data = s.data /\ Read(s).parts = s.parts
         /\ Done(Read(s)) = Done(s) /\ Read(s).pos = s.pos + Len(Window(s))
         /\ Read(s).pos = IF s.pos + win < Len(b) THEN s.pos + win ELSE Len(b)
         /\ Reading(Read(s))
<1> DEFINE v == Window(s)
           r == Read(s)
<1>1. /\ s.body = b /\ s.window = win /\ s.pos \in 0..Len(b) /\ Len(b) \in Nat
      /\ s.cache \in Seq(Chars) /\ s.outer \in Nat /\ Len(s.cache) \in Nat
  BY DEF Parser
<1>2. /\ v \in Seq(Chars) /\ Len(v) = IF s.pos + win < Len(b) THEN win ELSE Len(b) - s.pos
      /\ \A i \in 1..Len(v) : v[i] = b[s.pos + i]
  BY WindowIs
<1>3. r = [s EXCEPT !.cache = s.cache \o v, !.pos = s.pos + Len(v)]
  BY DEF Read
<1> HIDE DEF v
<1>4. /\ s.cache \o v \in Seq(Chars) /\ Len(s.cache \o v) = Len(s.cache) + Len(v)
      /\ \A i \in 1..(Len(s.cache) + Len(v)) :
           (s.cache \o v)[i] = IF i <= Len(s.cache) THEN s.cache[i] ELSE v[i - Len(s.cache)]
  <2>1. s.cache \in Seq(Chars) /\ v \in Seq(Chars)
    BY <1>1, <1>2
  <2> QED BY <2>1, ConcatIs
<1>5. s.pos + Len(v) \in 0..Len(b)
  BY <1>1, <1>2
<1> DEFINE c == s.cache \o v
<1>6. /\ c \in Seq(Chars) /\ Len(c) = Len(s.cache) + Len(v)
      /\ \A i \in 1..(Len(s.cache) + Len(v)) :
           c[i] = IF i <= Len(s.cache) THEN s.cache[i] ELSE v[i - Len(s.cache)]
      /\ r = [s EXCEPT !.cache = c, !.pos = s.pos + Len(v)]
  BY <1>3, <1>4
<1> HIDE DEF c, r
<1>7. /\ r \in Parser(b, win, disk) /\ r.cache = c /\ r.pos = s.pos + Len(v)
      /\ r.body = b /\ r.window = win
      /\ r.mode = s.mode /\ r.outer = s.outer /\ r.file = s.file
      /\ r.data = s.data /\ r.parts = s.parts
  BY <1>5, <1>6, <1>1 DEF Parser
<1>8. Done(r) = Done(s)
  BY <1>1, <1>2, <1>6, <1>7 DEF Done
<1>9. Done(s) >= 0 /\ \A i \in 1..Len(s.cache) : s.cache[i] = b[Done(s) + i]
  BY <1>1 DEF Reading
<1>10. \A i \in 1..Len(c) : c[i] = b[Done(s) + i]
  <2> SUFFICES ASSUME NEW i \in 1..Len(c) PROVE c[i] = b[Done(s) + i]
    OBVIOUS
  <2>1. CASE i <= Len(s.cache)
    BY <1>1, <1>2, <1>6, <1>9, <2>1
  <2>2. CASE i > Len(s.cache)
    <3>1. i - Len(s.cache) \in 1..Len(v) /\ c[i] = v[i - Len(s.cache)]
      BY <1>1, <1>2, <1>6, <2>2
    <3>2. s.pos + (i - Len(s.cache)) = Done(s) + i
      BY <1>1, <1>6 DEF Done
    <3> QED BY <1>2, <3>1, <3>2
  <2> QED BY <1>1, <1>2, <1>6, <2>1, <2>2
<1>11. r.pos % win = 0 \/ r.pos = Len(b)
  <2>1. CASE s.pos + win < Len(b)
    <3>1. s.pos % win = 0
      BY <1>1, <2>1 DEF Reading
    <3> QED BY <1>1, <1>2, <1>7, <2>1, <3>1, ModAdd
  <2>2. CASE ~(s.pos + win < Len(b))
    BY <1>1, <1>2, <1>7, <2>2
  <2> QED BY <2>1, <2>2
<1>12. r.outer <= r.pos
  BY <1>1, <1>2, <1>7 DEF Reading
<1>13. Reading(r)
  BY <1>7, <1>8, <1>9, <1>10, <1>11, <1>12 DEF Reading
<1>14. r.pos = IF s.pos + win < Len(b) THEN s.pos + win ELSE Len(b)
  BY <1>1, <1>2, <1>7
<1> QED BY <1>7, <1>8, <1>13, <1>14 DEF r, v

\* A mark is in the cache where it is in the body.
LEMMA PlaceIs ==
  ASSUME NEW b \in Seq(Chars), NEW win \in Nat \ {0}, NEW disk \in BOOLEAN,
         NEW s \in Parser(b, win, disk), Reading(s), NEW m, NEW p \in Int
  PROVE  p \in Places(s.cache, m) <=> p >= 1 /\ Done(s) + p < s.pos /\ Done(s) + p \in Places(b, m)
<1>1. /\ s.body = b /\ s.pos \in 0..Len(b) /\ Len(b) \in Nat
      /\ s.cache \in Seq(Chars) /\ Len(s.cache) \in Nat
  BY DEF Parser
<1>2. /\ Done(s) \in Int /\ Done(s) >= 0 /\ Done(s) = s.pos - Len(s.cache)
      /\ \A i \in 1..Len(s.cache) : s.cache[i] = b[Done(s) + i]
  BY <1>1 DEF Reading, Done
<1> DEFINE d == Done(s)
<1> HIDE DEF d
<1>3. ASSUME p >= 1, d + p < s.pos
      PROVE  /\ p \in 1..(Len(s.cache) - 1) /\ d + p \in 1..(Len(b) - 1)
             /\ s.cache[p] = b[d + p] /\ s.cache[p + 1] = b[d + p + 1]
  <2>1. p \in 1..(Len(s.cache) - 1) /\ d + p \in 1..(Len(b) - 1)
    BY <1>1, <1>2, <1>3 DEF d
  <2>2. p \in 1..Len(s.cache) /\ p + 1 \in 1..Len(s.cache)
    BY <2>1, <1>1
  <2>3. s.cache[p] = b[d + p] /\ s.cache[p + 1] = b[d + (p + 1)]
    BY <1>2, <2>2 DEF d
  <2>4. d + (p + 1) = d + p + 1
    BY <1>2 DEF d
  <2> QED BY <2>1, <2>3, <2>4
<1>4. p \in 1..(Len(s.cache) - 1) => p >= 1 /\ d + p < s.pos
  BY <1>1, <1>2 DEF d
<1> QED BY <1>3, <1>4 DEF Places, d

\* What is left of the cache from its i-th byte on.
LEMMA KeptIs ==
  ASSUME NEW b \in Seq(Chars), NEW win \in Nat \ {0}, NEW disk \in BOOLEAN,
         NEW s \in Parser(b, win, disk), Reading(s), NEW i \in 1..(Len(s.cache) + 1),
         NEW t \in Parser(b, win, disk), t.cache = From(s.cache, i), t.pos = s.pos,
         t.outer = s.outer
  PROVE  Done(t) = Done(s) + i - 1 /\ Reading(t)
<1>1. /\ s.body = b /\ s.window = win /\ s.pos \in 0..Len(b) /\ Len(b) \in Nat
      /\ t.body = b /\ t.window = win
      /\ s.cache \in Seq(Chars) /\ Len(s.cache) \in Nat /\ i \in Nat
  BY DEF Parser
<1>2. /\ Len(t.cache) = Len(s.cache) + 1 - i
      /\ \A k \in 1..(Len(s.cache) + 1 - i) : t.cache[k] = s.cache[i + k - 1]
  <2>1. /\ Len(From(s.cache, i)) = Len(s.cache) + 1 - i
        /\ \A k \in 1..(Len(s.cache) + 1 - i) : From(s.cache, i)[k] = s.cache[i + k - 1]
    BY <1>1, FromIs
  <2> QED BY <2>1
<1>3. /\ Done(s) \in Int /\ Done(s) >= 0 /\ Done(s) = s.pos - Len(s.cache)
      /\ \A k \in 1..Len(s.cache) : s.cache[k] = b[Done(s) + k]
  BY <1>1 DEF Reading, Done
<1>4. Done(t) = Done(s) + i - 1
  BY <1>1, <1>2, <1>3 DEF Done
<1>5. \A k \in 1..Len(t.cache) : t.cache[k] = b[Done(t) + k]
  <2> SUFFICES ASSUME NEW k \in 1..Len(t.cache) PROVE t.cache[k] = b[Done(t) + k]
    OBVIOUS
  <2>1. k \in 1..(Len(s.cache) + 1 - i)
    BY <1>2
  <2>2. t.cache[k] = s.cache[i + k - 1]
    BY <1>2, <2>1
  <2>3. i + k - 1 \in 1..Len(s.cache)
    BY <1>1, <2>1
  <2>4. Done(s) + (i + k - 1) = Done(t) + k
    BY <1>1, <1>3, <1>4
  <2> QED BY <1>3, <2>2, <2>3, <2>4
<1> QED BY <1>1, <1>3, <1>4, <1>5 DEF Reading

\* The first place of a mark behind what is dealt with, if it is read.
FirstRead(s, t, m, i) ==
  /\ i \in Places(s.body, m) /\ Done(s) < i /\ i < t.pos
  /\ \A j \in Places(s.body, m) : Done(s) < j => i <= j
NoneRead(s, t, m) == \A j \in Places(s.body, m) : ~(Done(s) < j /\ j < t.pos)

\* Find gives the first mark behind what is dealt with.
LEMMA FindIs ==
  ASSUME NEW b \in Seq(Chars), NEW win \in Nat \ {0}, NEW disk \in BOOLEAN,
         NEW s \in Parser(b, win, disk), Reading(s), NEW m
  PROVE  /\ Find(s.cache, m) = 0 => NoneRead(s, s, m)
         /\ Find(s.cache, m) # 0 => /\ Find(s.cache, m) \in 1..(Len(s.cache) - 1)
                                    /\ FirstRead(s, s, m, Done(s) + Find(s.cache, m))
<1>1. /\ s.body = b /\ s.pos \in 0..Len(b) /\ Len(b) \in Nat
      /\ s.cache \in Seq(Chars) /\ Len(s.cache) \in Nat
  BY DEF Parser
<1>2. Done(s) \in Int /\ Done(s) >= 0 /\ Done(s) = s.pos - Len(s.cache)
  BY <1>1 DEF Reading, Done
<1>3. /\ Find(s.cache, m) = 0 <=> Places(s.cache, m) = {}
      /\ Find(s.cache, m) # 0 => /\ Find(s.cache, m) \in Places(s.cache, m)
                                 /\ \A j \in Places(s.cache, m) : Find(s.cache, m) <= j
  BY <1>1, Found0
<1>4. \A p \in Int : p \in Places(s.cache, m) <=>
                     p >= 1 /\ Done(s) + p < s.pos /\ Done(s) + p \in Places(b, m)
  BY PlaceIs
<1>5. \A j \in Places(b, m) : j \in Int
  BY <1>1 DEF Places
<1>6. ASSUME Find(s.cache, m) = 0 PROVE NoneRead(s, s, m)
  <2> SUFFICES ASSUME NEW j \in Places(b, m), Done(s) < j, j < s.pos PROVE FALSE
    BY <1>1 DEF NoneRead
  <2>1. j - Done(s) \in Int /\ j - Done(s) >= 1 /\ Done(s) + (j - Done(s)) = j
    BY <1>2, <1>5
  <2>2. j - Done(s) \in Places(s.cache, m)
    BY <1>4, <2>1
  <2> QED BY <1>3, <1>6, <2>2
<1>7. ASSUME Find(s.cache, m) # 0
      PROVE  /\ Find(s.cache, m) \in 1..(Len(s.cache) - 1)
             /\ FirstRead(s, s, m, Done(s) + Find(s.cache, m))
  <2> DEFINE p == Find(s.cache, m)
  <2>1. p \in Places(s.cache, m) /\ \A j \in Places(s.cache, m) : p <= j
    BY <1>3, <1>7
  <2> HIDE DEF p
  <2>2. p \in 1..(Len(s.cache) - 1) /\ p \in Int
    BY <1>1, <2>1 DEF Places
  <2>3. p >= 1 /\ Done(s) + p < s.pos /\ Done(s) + p \in Places(b, m)
    BY <1>4, <2>1, <2>2
  <2>4. ASSUME NEW j \in Places(b, m), Done(s) < j PROVE Done(s) + p <= j
    <3>1. CASE j >= s.pos
      BY <3>1, <1>1, <1>2, <1>5, <2>2, <2>3
    <3>2. CASE j < s.pos
      <4>1. j - Done(s) \in Int /\ j - Done(s) >= 1 /\ Done(s) + (j - Done(s)) = j
        BY <1>2, <1>5, <2>4
      <4>2. j - Done(s) \in Places(s.cache, m)
        BY <1>4, <3>2, <4>1
      <4> QED BY <1>2, <1>5, <2>1, <2>2, <4>2
    <3> QED BY <3>1, <3>2, <1>1, <1>5
  <2>5. Done(s) < Done(s) + p
    BY <1>2, <2>2
  <2> QED BY <1>1, <2>2, <2>3, <2>4, <2>5 DEF p, FirstRead
<1> QED BY <1>6, <1>7

Unread(s) == IF s.pos + s.window < Len(s.body) THEN s.pos + s.window ELSE Len(s.body)

\* BeginStep reads a window and looks for the beginning of a part.
LEMMA BeginIs ==
  ASSUME NEW b \in Seq(Chars), NEW win \in Nat \ {0}, NEW disk \in BOOLEAN,
         NEW s \in Parser(b, win, disk), Reading(s), s.mode = "begin"
  PROVE  LET t == Step(s) IN
         /\ t \in Parser(b, win, disk) /\ Reading(t)
         /\ t.pos = Unread(s) /\ t.outer = t.pos - s.pos /\ t.parts = s.parts
         /\ \/ /\ t.mode = "param"
               /\ \E i \in Int : FirstRead(s, t, BeginMark, i) /\ Done(t) = i + 1
            \/ /\ NoneRead(s, t, BeginMark) /\ Done(t) = Done(s)
               /\ t.mode = "error" /\ t.pos = Len(b)
            \/ /\ NoneRead(s, t, BeginMark) /\ Done(t) = Done(s)
               /\ t.mode = "begin" /\ t.pos # Len(b)
<1> DEFINE r == Read(s)
           u == [Read(s) EXCEPT !.outer = Len(Window(s))]
           at == Find(u.cache, BeginMark)
           t == Step(s)
<1>1. /\ s.body = b /\ s.window = win /\ s.pos \in 0..Len(b) /\ Len(b) \in Nat
      /\ s.cache \in Seq(Chars)
  BY DEF Parser
<1>2. /\ r \in Parser(b, win, disk) /\ r.mode = "begin" /\ r.parts = s.parts
      /\ Done(r) = Done(s) /\ r.pos = s.pos + Len(Window(s)) /\ r.pos = Unread(s) /\ Reading(r)
  BY <1>1, ReadIs DEF Unread
<1>3. Window(s) \in Seq(Chars) /\ Len(Window(s)) \in Nat
  BY WindowIs
<1>4. t = IF at # 0 THEN [u EXCEPT !.mode = "param", !.cache = From(u.cache, at + 2)]
          ELSE IF AllRead(u) THEN Stop(u) ELSE u
  BY DEF Step, BeginStep
<1> HIDE DEF t
<1>5. u = [r EXCEPT !.outer = Len(Window(s))]
  OBVIOUS
<1> HIDE DEF r, u
<1>6. /\ u \in Parser(b, win, disk) /\ u.mode = "begin" /\ u.parts = s.parts /\ u.body = b
      /\ u.pos = r.pos /\ u.outer = Len(Window(s)) /\ u.cache = r.cache /\ u.window = win
  BY <1>2, <1>3, <1>5 DEF Parser
<1>7. Done(u) = Done(s) /\ Reading(u) /\ u.pos = Unread(s) /\ u.outer = u.pos - s.pos
  <2>1. Done(u) = Done(s)
    BY <1>2, <1>6 DEF Done
  <2>2. r.pos \in Nat /\ r.body = b /\ r.window = win
    BY <1>2 DEF Parser
  <2>3. u.outer <= u.pos /\ u.outer = u.pos - s.pos
    BY <1>1, <1>2, <1>3, <1>6, <2>2
  <2>4. Reading(u)
    BY <1>2, <1>6, <2>1, <2>2, <2>3 DEF Reading
  <2> QED BY <1>2, <1>6, <2>1, <2>3, <2>4
<1>8. /\ at = 0 => NoneRead(u, u, BeginMark)
      /\ at # 0 => at \in 1..(Len(u.cache) - 1) /\ FirstRead(u, u, BeginMark, Done(u) + at)
  BY <1>6, <1>7, FindIs
<1> HIDE DEF at
<1>9. u.cache \in Seq(Chars) /\ Len(u.cache) \in Nat /\ u.pos \in 0..Len(b)
  BY <1>6 DEF Parser
<1>10. CASE at # 0
  <2>1. at + 2 \in 1..(Len(u.cache) + 1)
    BY <1>8, <1>9, <1>10
  <2>2. From(u.cache, at + 2) \in Seq(Chars)
    BY <1>9, <2>1, FromIs
  <2> DEFINE c == From(u.cache, at + 2)
  <2>3. c \in Seq(Chars) /\ t = [u EXCEPT !.mode = "param", !.cache = c]
    BY <1>4, <1>10, <2>2
  <2>4. t.cache = From(u.cache, at + 2)
    BY <1>6, <2>3 DEF Parser
  <2> HIDE DEF c
  <2>5. /\ t \in Parser(b, win, disk) /\ t.mode = "param" /\ t.pos = u.pos /\ t.outer = u.outer
        /\ t.parts = u.parts
    BY <1>6, <2>3 DEF Parser
  <2>6. Done(t) = Done(u) + (at + 2) - 1 /\ Reading(t)
    BY <1>6, <1>7, <2>1, <2>4, <2>5, KeptIs
  <2>7. Done(u) \in Int /\ Done(u) + at \in Int /\ Done(t) = (Done(u) + at) + 1
    <3>1. at \in Int
      BY <1>8, <1>9, <1>10
    <3>2. Done(u) \in Int
      BY <1>9 DEF Done
    <3> QED BY <2>6, <3>1, <3>2
  <2>8. FirstRead(s, t, BeginMark, Done(u) + at)
    BY <1>1, <1>6, <1>7, <1>8, <1>10, <2>5 DEF FirstRead
  <2> QED BY <1>6, <1>7, <2>5, <2>6, <2>7, <2>8 DEF t
<1>11. CASE at = 0
  <2>1. NoneRead(s, u, BeginMark)
    BY <1>1, <1>6, <1>7, <1>8, <1>11 DEF NoneRead
  <2>2. CASE AllRead(u)
    <3>1. t = [u EXCEPT !.mode = "error"]
      BY <1>4, <1>11, <2>2 DEF Stop
    <3>2. /\ t \in Parser(b, win, disk) /\ t.mode = "error" /\ t.pos = u.pos /\ t.outer = u.outer
          /\ t.parts = u.parts /\ t.cache = u.cache /\ t.body = b /\ t.window = win
      BY <1>6, <3>1 DEF Parser
    <3>3. Done(t) = Done(s) /\ Reading(t)
      BY <1>6, <1>7, <3>2 DEF Done, Reading
    <3>4. t.pos = Len(b)
      BY <1>6, <1>9, <2>2, <3>2 DEF AllRead
    <3>5. NoneRead(s, t, BeginMark)
      BY <2>1, <3>2 DEF NoneRead
    <3> QED BY <1>6, <1>7, <3>2, <3>3, <3>4, <3>5 DEF t
  <2>3. CASE ~AllRead(u)
    <3>1. t = u
      BY <1>4, <1>11, <2>3
    <3>2. t.pos # Len(b)
      BY <1>6, <1>9, <2>3, <3>1 DEF AllRead
    <3> QED BY <1>6, <1>7, <2>1, <3>1, <3>2 DEF t
  <2> QED BY <2>2, <2>3
<1> QED BY <1>10, <1>11

HeadersNameFile(s, i) == \E k \in (Done(s) + 1)..(i - 1) : s.body[k] = "f"

\* ParamStep goes to the end of the headers of a part, or reads on.
LEMMA ParamIs ==
  ASSUME NEW b \in Seq(Chars), NEW win \in Nat \ {0}, NEW disk \in BOOLEAN,
         NEW s \in Parser(b, win, disk), Reading(s), s.mode = "param"
  PROVE  LET t == Step(s) IN
         /\ t \in Parser(b, win, disk) /\ Reading(t) /\ t.outer = s.outer /\ t.parts = s.parts
         /\ \/ \E i \in Int :
                 /\ FirstRead(s, s, ParamEnd, i) /\ t.pos = s.pos
                 /\ \/ t.mode = "error" /\ HeadersNameFile(s, i) /\ Done(t) = Done(s)
                    \/ /\ t.mode = "data" /\ Done(t) = i + 1 /\ t.data = <<>>
                       /\ t.file = HeadersNameFile(s, i)
            \/ /\ NoneRead(s, s, ParamEnd) /\ Done(t) = Done(s)
               /\ t.mode = "error" /\ t.pos = s.pos /\ t.pos = Len(b)
            \/ /\ NoneRead(s, s, ParamEnd) /\ Done(t) = Done(s)
               /\ t.mode = "param" /\ s.pos # Len(b) /\ t.pos = Unread(s)
<1> DEFINE at == Find(s.cache, ParamEnd)
           named == \E i \in 1..(at - 1) : s.cache[i] = "f"
           u == [s EXCEPT !.mode = "data", !.cache = From(s.cache, at + 2),
                          !.file = named, !.data = <<>>]
           t == Step(s)
<1>1. /\ s.body = b /\ s.window = win /\ s.pos \in 0..Len(b) /\ Len(b) \in Nat
      /\ s.cache \in Seq(Chars) /\ Len(s.cache) \in Nat /\ named \in BOOLEAN
      /\ s.disk = disk
  BY DEF Parser
<1>2. /\ at = 0 => NoneRead(s, s, ParamEnd)
      /\ at # 0 => at \in 1..(Len(s.cache) - 1) /\ FirstRead(s, s, ParamEnd, Done(s) + at)
  BY FindIs
<1>3. t = IF at # 0 THEN (IF named /\ ~s.disk THEN Stop(s) ELSE u)
          ELSE IF AllRead(s) THEN Stop(s) ELSE Read(s)
  BY DEF Step, ParamStep
<1>4. Done(s) \in Int /\ Done(s) >= 0 /\ \A k \in 1..Len(s.cache) : s.cache[k] = b[Done(s) + k]
  BY <1>1 DEF Done, Reading
<1>5. ASSUME at # 0 PROVE named <=> HeadersNameFile(s, Done(s) + at)
  <2>1. at \in 1..(Len(s.cache) - 1)
    BY <1>2, <1>5
  <2>2. ASSUME NEW k \in 1..(at - 1), s.cache[k] = "f" PROVE HeadersNameFile(s, Done(s) + at)
    <3>1. k \in 1..Len(s.cache)
      BY <1>1, <2>1
    <3>2. b[Done(s) + k] = "f"
      BY <1>4, <2>2, <3>1
    <3> DEFINE q == Done(s) + k
               last == Done(s) + at
    <3>3. q \in (Done(s) + 1)..(last - 1)
      BY <1>4, <2>1
    <3> HIDE DEF q
    <3>4. s.body[q] = "f"
      BY <1>1, <3>2 DEF q
    <3> HIDE DEF last
    <3>5. HeadersNameFile(s, last)
      BY <3>3, <3>4 DEF HeadersNameFile
    <3> QED BY <3>5 DEF last
  <2>3. ASSUME NEW k \in (Done(s) + 1)..(Done(s) + at - 1), b[k] = "f" PROVE named
    <3>1. k - Done(s) \in 1..(at - 1) /\ Done(s) + (k - Done(s)) = k
      BY <1>4, <2>1
    <3>2. k - Done(s) \in 1..Len(s.cache)
      BY <1>1, <2>1, <3>1
    <3>3. s.cache[k - Done(s)] = "f"
      BY <1>4, <2>3, <3>1, <3>2
    <3> QED BY <3>1, <3>3
  <2>4. ASSUME HeadersNameFile(s, Done(s) + at) PROVE named
    <3>1. PICK q \in Int : q = Done(s) + at
      BY <1>4, <2>1
    <3>2. PICK k \in (Done(s) + 1)..(q - 1) : s.body[k] = "f"
      BY <2>4, <3>1 DEF HeadersNameFile
    <3>3. s.body = b
      BY DEF Parser
    <3>4. k \in (Done(s) + 1)..(Done(s) + at - 1) /\ b[k] = "f"
      BY <1>4, <2>1, <3>1, <3>2, <3>3
    <3> QED BY <2>3, <3>4
  <2> QED BY <2>2, <2>4
<1> DEFINE v == Read(s)
<1>6. /\ v \in Parser(b, win, disk) /\ v.mode = "param" /\ v.outer = s.outer
      /\ v.parts = s.parts /\ Done(v) = Done(s) /\ v.pos = Unread(s) /\ Reading(v)
  BY <1>1, ReadIs DEF Unread
<1> DEFINE e == [s EXCEPT !.mode = "error"]
<1>7. /\ e \in Parser(b, win, disk) /\ e.mode = "error" /\ e.pos = s.pos /\ e.outer = s.outer
      /\ e.parts = s.parts /\ Done(e) = Done(s) /\ Reading(e)
  <2>1. /\ e \in Parser(b, win, disk) /\ e.mode = "error" /\ e.pos = s.pos /\ e.outer = s.outer
        /\ e.parts = s.parts /\ e.cache = s.cache /\ e.body = s.body /\ e.window = s.window
    BY DEF Parser
  <2> HIDE DEF e
  <2> QED BY <2>1 DEF Done, Reading
<1>8. Stop(s) = e
  BY DEF Stop
<1>9. CASE at # 0 /\ ~(named /\ ~s.disk)
  <2>1. at + 2 \in 1..(Len(s.cache) + 1)
    BY <1>1, <1>2, <1>9
  <2> DEFINE c == From(s.cache, at + 2)
             nf == HeadersNameFile(s, Done(s) + at)
  <2>2. c \in Seq(Chars)
    BY <1>1, <2>1, FromIs
  <2>3. t = [s EXCEPT !.mode = "data", !.cache = c, !.file = named, !.data = <<>>]
    BY <1>3, <1>9
  <2>4. named = nf /\ nf \in BOOLEAN
    BY <1>1, <1>5, <1>9 DEF HeadersNameFile
  <2> HIDE DEF c, named, nf, t
  <2>5. <<>> \in Seq(Chars)
    BY EmptySeq
  <2>6. /\ t \in Parser(b, win, disk) /\ t.mode = "data" /\ t.pos = s.pos /\ t.outer = s.outer
        /\ t.parts = s.parts /\ t.cache = c /\ t.data = <<>>
    BY <1>1, <2>2, <2>3, <2>5 DEF Parser
  <2>7. t.file = nf
    BY <2>3, <2>4 DEF Parser
  <2>8. Done(t) = Done(s) + (at + 2) - 1 /\ Reading(t)
    BY <2>1, <2>6, KeptIs DEF c
  <2>9. Done(s) + at \in Int /\ Done(t) = (Done(s) + at) + 1 /\ FirstRead(s, s, ParamEnd, Done(s) + at)
    BY <1>1, <1>2, <1>4, <1>9, <2>8
  <2> QED BY <2>6, <2>7, <2>8, <2>9 DEF t, nf
<1>10. CASE at # 0 /\ named /\ ~s.disk
  <2>1. t = e
    BY <1>3, <1>8, <1>10
  <2>2. Done(s) + at \in Int /\ FirstRead(s, s, ParamEnd, Done(s) + at)
    BY <1>1, <1>2, <1>4, <1>10
  <2>3. HeadersNameFile(s, Done(s) + at)
    BY <1>5, <1>10
  <2> HIDE DEF e, t, named
  <2> QED BY <1>7, <2>1, <2>2, <2>3 DEF t
<1>11. CASE at = 0 /\ AllRead(s)
  <2>1. t = e /\ s.pos = Len(b)
    BY <1>1, <1>3, <1>8, <1>11 DEF AllRead
  <2>2. NoneRead(s, s, ParamEnd)
    BY <1>2, <1>11
  <2> HIDE DEF e, t, named
  <2> QED BY <1>7, <2>1, <2>2 DEF t
<1>12. CASE at = 0 /\ ~AllRead(s)
  <2>1. t = v /\ s.pos # Len(b)
    BY <1>1, <1>3, <1>12 DEF AllRead
  <2>2. NoneRead(s, s, ParamEnd)
    BY <1>2, <1>12
  <2> HIDE DEF v, t, named
  <2> QED BY <1>6, <2>1, <2>2 DEF t
<1> QED BY <1>9, <1>10, <1>11, <1>12

\* The part whose data ends in front of the mark at i.
PartTo(s, i) == [file |-> s.file, data |-> s.data \o InFront(s.cache, i - Done(s))]

\* What is in front of a mark is text.
LEMMA InFrontTyped ==
  ASSUME NEW t \in Seq(Chars), NEW i \in 1..Len(t)
  PROVE  InFront(t, i) \in Seq(Chars)
<1>1. CASE i = 1
  BY <1>1 DEF InFront
<1>2. CASE i # 1
  BY <1>2, InFrontIs
<1> QED BY <1>1, <1>2

\* DataStep goes to the next mark, whether a part begins there or the form ends; without
\* one the loop ends or goes on behind what is read.
LEMMA DataIs ==
  ASSUME NEW b \in Seq(Chars), NEW win \in Nat \ {0}, NEW disk \in BOOLEAN,
         NEW s \in Parser(b, win, disk), Reading(s), s.mode = "data"
  PROVE  LET t == Step(s) IN
         /\ t \in Parser(b, win, disk) /\ Reading(t) /\ t.outer = s.outer
         /\ \/ \E i \in Int :
                 /\ FirstRead(s, s, BeginMark, i) /\ t.pos = s.pos /\ t.mode = "begin"
                 /\ Done(t) = i - 1 /\ t.parts = Append(s.parts, PartTo(s, i))
            \/ \E i \in Int :
                 /\ NoneRead(s, s, BeginMark) /\ FirstRead(s, s, EndMark, i) /\ t.pos = s.pos
                 /\ t.mode = "over" /\ t.parts = Append(s.parts, PartTo(s, i))
            \/ /\ NoneRead(s, s, BeginMark) /\ NoneRead(s, s, EndMark)
               /\ s.outer = Len(b) /\ t.mode = "error"
            \/ /\ NoneRead(s, s, BeginMark) /\ NoneRead(s, s, EndMark) /\ s.outer # Len(b)
               /\ t.mode = "data" /\ t.parts = s.parts /\ t.file = s.file
               /\ t.data = s.data \o s.cache /\ Done(t) = s.pos /\ t.pos = Unread(s)
<1> DEFINE begin == Find(s.cache, BeginMark)
           end == Find(s.cache, EndMark)
           t == Step(s)
<1>1. /\ s.body = b /\ s.window = win /\ s.pos \in 0..Len(b) /\ Len(b) \in Nat
      /\ s.cache \in Seq(Chars) /\ Len(s.cache) \in Nat /\ s.outer \in Nat
      /\ s.file \in BOOLEAN /\ s.data \in Seq(Chars) /\ s.parts \in Seq(FormPartRead)
  BY DEF Parser
<1>2. /\ begin = 0 => NoneRead(s, s, BeginMark)
      /\ begin # 0 => begin \in 1..(Len(s.cache) - 1) /\ FirstRead(s, s, BeginMark, Done(s) + begin)
  BY FindIs
<1>3. /\ end = 0 => NoneRead(s, s, EndMark)
      /\ end # 0 => end \in 1..(Len(s.cache) - 1) /\ FirstRead(s, s, EndMark, Done(s) + end)
  BY FindIs
<1>4. t = IF begin # 0
            THEN [s EXCEPT !.mode = "begin", !.parts = Append(s.parts, Part(s, begin)),
                           !.cache = From(s.cache, begin)]
          ELSE IF end # 0
            THEN [s EXCEPT !.mode = "over", !.parts = Append(s.parts, Part(s, end))]
          ELSE IF Len(s.body) = s.outer THEN Stop(s)
          ELSE AfterRead(s)
  BY DEF Step, DataStep
<1>5. Done(s) \in Int
  BY <1>1 DEF Done
<1>6. ASSUME NEW at \in 1..Len(s.cache)
      PROVE  Part(s, at) = PartTo(s, Done(s) + at) /\ Part(s, at) \in FormPartRead
  <2>1. InFront(s.cache, at) \in Seq(Chars)
    BY <1>1, InFrontTyped
  <2>2. s.data \o InFront(s.cache, at) \in Seq(Chars)
    BY <1>1, <2>1, ConcatIs
  <2>3. (Done(s) + at) - Done(s) = at
    BY <1>5
  <2>4. Part(s, at) = PartTo(s, Done(s) + at)
    BY <2>3 DEF Part, PartTo
  <2> QED BY <1>1, <2>2, <2>4 DEF Part, FormPartRead
<1> HIDE DEF begin, end, t
<1>7. CASE begin # 0
  <2> DEFINE p == Part(s, begin)
             c == From(s.cache, begin)
             ps == Append(s.parts, p)
  <2>1. begin \in 1..Len(s.cache) /\ begin \in Int /\ begin \in 1..(Len(s.cache) + 1)
    BY <1>1, <1>2, <1>7
  <2>2. p \in FormPartRead /\ p = PartTo(s, Done(s) + begin)
    BY <1>6, <2>1
  <2>3. ps \in Seq(FormPartRead)
    BY <1>1, <2>2
  <2>4. c \in Seq(Chars)
    BY <1>1, <2>1, FromIs
  <2>5. t = [s EXCEPT !.mode = "begin", !.parts = ps, !.cache = c]
    BY <1>4, <1>7
  <2> HIDE DEF ps, c, p
  <2>6. /\ t \in Parser(b, win, disk) /\ t.mode = "begin" /\ t.pos = s.pos /\ t.outer = s.outer
        /\ t.parts = ps /\ t.cache = c
    BY <2>3, <2>4, <2>5 DEF Parser
  <2>7. Done(t) = Done(s) + begin - 1 /\ Reading(t)
    BY <2>1, <2>6, KeptIs DEF c
  <2>8. /\ FirstRead(s, s, BeginMark, Done(s) + begin) /\ Done(s) + begin \in Int
        /\ Done(t) = (Done(s) + begin) - 1
        /\ t.parts = Append(s.parts, PartTo(s, Done(s) + begin))
    BY <1>2, <1>5, <1>7, <2>1, <2>2, <2>6, <2>7 DEF ps
  <2> QED BY <2>6, <2>7, <2>8 DEF t
<1>8. CASE begin = 0 /\ end # 0
  <2> DEFINE p == Part(s, end)
             ps == Append(s.parts, p)
  <2>1. end \in 1..Len(s.cache) /\ end \in Int
    BY <1>1, <1>3, <1>8
  <2>2. p \in FormPartRead /\ p = PartTo(s, Done(s) + end)
    BY <1>6, <2>1
  <2>3. ps \in Seq(FormPartRead)
    BY <1>1, <2>2
  <2>5. t = [s EXCEPT !.mode = "over", !.parts = ps]
    BY <1>4, <1>8
  <2> HIDE DEF ps, p
  <2>6. /\ t \in Parser(b, win, disk) /\ t.mode = "over" /\ t.pos = s.pos /\ t.outer = s.outer
        /\ t.parts = ps /\ t.cache = s.cache /\ t.body = s.body /\ t.window = s.window
    BY <2>3, <2>5 DEF Parser
  <2>7. Reading(t)
    BY <2>6 DEF Reading, Done
  <2>8. /\ FirstRead(s, s, EndMark, Done(s) + end) /\ Done(s) + end \in Int
        /\ NoneRead(s, s, BeginMark)
        /\ t.parts = Append(s.parts, PartTo(s, Done(s) + end))
    BY <1>2, <1>3, <1>5, <1>8, <2>1, <2>2, <2>6 DEF ps
  <2> QED BY <2>6, <2>7, <2>8 DEF t
<1>9. CASE begin = 0 /\ end = 0 /\ Len(b) = s.outer
  <2>1. t = [s EXCEPT !.mode = "error"]
    BY <1>1, <1>4, <1>9 DEF Stop
  <2>2. /\ t \in Parser(b, win, disk) /\ t.mode = "error" /\ t.pos = s.pos /\ t.outer = s.outer
        /\ t.cache = s.cache /\ t.body = s.body /\ t.window = s.window
    BY <2>1 DEF Parser
  <2>3. Reading(t)
    BY <2>2 DEF Reading, Done
  <2> QED BY <1>2, <1>3, <1>9, <2>2, <2>3 DEF t
<1>10. CASE begin = 0 /\ end = 0 /\ Len(b) # s.outer
  <2> DEFINE d == s.data \o s.cache
             u == [s EXCEPT !.data = d, !.cache = <<>>]
  <2>1. d \in Seq(Chars) /\ <<>> \in Seq(Chars) /\ Len(<<>>) = 0
    BY <1>1, ConcatIs, EmptySeq
  <2>2. t = Read(u)
    BY <1>1, <1>4, <1>10 DEF AfterRead
  <2> HIDE DEF d
  <2>3. /\ u \in Parser(b, win, disk) /\ u.mode = "data" /\ u.outer = s.outer /\ u.file = s.file
        /\ u.data = d /\ u.parts = s.parts /\ u.pos = s.pos /\ u.cache = <<>> /\ u.body = b
        /\ u.window = win
    BY <1>1, <2>1 DEF Parser
  <2> HIDE DEF u
  <2>4. Done(u) = s.pos
    BY <1>1, <2>1, <2>3 DEF Done
  <2>5. Reading(u)
    BY <1>1, <2>1, <2>3, <2>4 DEF Reading
  <2>6. /\ t \in Parser(b, win, disk) /\ t.mode = "data" /\ t.outer = s.outer /\ t.file = s.file
        /\ t.data = d /\ t.parts = s.parts /\ Done(t) = s.pos /\ Reading(t)
        /\ t.pos = Unread(s)
    BY <1>1, <2>2, <2>3, <2>4, <2>5, ReadIs DEF Unread
  <2> QED BY <1>2, <1>3, <1>10, <2>6 DEF t, d
<1> QED BY <1>7, <1>8, <1>9, <1>10

\* DataStep leaves one of four modes, and what it read when it reads on.
LEMMA DataModes ==
  ASSUME NEW b \in Seq(Chars), NEW win \in Nat \ {0}, NEW disk \in BOOLEAN,
         NEW s \in Parser(b, win, disk), Reading(s), s.mode = "data"
  PROVE  /\ Step(s).mode \in {"begin", "over", "error", "data"}
         /\ Step(s).mode = "data" =>
              /\ NoneRead(s, s, BeginMark) /\ NoneRead(s, s, EndMark)
              /\ Step(s).parts = s.parts /\ Step(s).file = s.file
              /\ Step(s).data = s.data \o s.cache
              /\ Done(Step(s)) = s.pos /\ Step(s).pos = Unread(s)
<1> DEFINE t == Step(s)
           reads == /\ NoneRead(s, s, BeginMark) /\ NoneRead(s, s, EndMark)
                    /\ t.parts = s.parts /\ t.file = s.file /\ t.data = s.data \o s.cache
                    /\ Done(t) = s.pos /\ t.pos = Unread(s)
<1>1. \/ \E i \in Int :
           /\ FirstRead(s, s, BeginMark, i) /\ t.pos = s.pos /\ t.mode = "begin"
           /\ Done(t) = i - 1 /\ t.parts = Append(s.parts, PartTo(s, i))
      \/ \E i \in Int :
           /\ NoneRead(s, s, BeginMark) /\ FirstRead(s, s, EndMark, i) /\ t.pos = s.pos
           /\ t.mode = "over" /\ t.parts = Append(s.parts, PartTo(s, i))
      \/ /\ NoneRead(s, s, BeginMark) /\ NoneRead(s, s, EndMark)
         /\ s.outer = Len(b) /\ t.mode = "error"
      \/ /\ NoneRead(s, s, BeginMark) /\ NoneRead(s, s, EndMark) /\ s.outer # Len(b)
         /\ t.mode = "data" /\ t.parts = s.parts /\ t.file = s.file
         /\ t.data = s.data \o s.cache /\ Done(t) = s.pos /\ t.pos = Unread(s)
  BY DataIs
<1> SUFFICES t.mode \in {"begin", "over", "error", "data"} /\ (t.mode = "data" => reads)
  OBVIOUS
<1> HIDE DEF t
<1> QED BY <1>1

\* ParseUntil takes the turns of the parser one after the other: with Q[k] the states it may
\* be in after k of them, it ends in one of Q[Turns(b)].
LEMMA Turned ==
  ASSUME NEW b \in Seq(Chars), NEW win, NEW disk, NEW m, NEW Q,
         Start(b, win, disk) \in Q[0],
         \A k \in Nat : \A s \in Q[k] : Turn(s, m) \in Q[k + 1]
  PROVE  ParseUntil(b, win, disk, m) \in Q[Turns(b)]
<1> DEFINE first == Start(b, win, disk)
           T == Turns(b)
           Goes(f, k) == f = [n \in 0..k |-> IF n = 0 THEN first ELSE Turn(f[n - 1], m)]
<1>1. T \in Nat
  BY DEF Turns
<1>2. ParseUntil(b, win, disk, m) = (CHOOSE f : Goes(f, T))[T]
  BY DEF ParseUntil
<1> HIDE DEF first, T
<1>3. ASSUME NEW k \in Nat, \E f : Goes(f, k) PROVE \E f : Goes(f, k + 1)
  <2>1. PICK f : Goes(f, k)
    BY <1>3
  <2> DEFINE g == [n \in 0..(k + 1) |-> IF n = k + 1 THEN Turn(f[k], m) ELSE f[n]]
  <2>2. \A n \in 0..(k + 1) : g[n] = IF n = 0 THEN first ELSE Turn(g[n - 1], m)
    <3> SUFFICES ASSUME NEW n \in 0..(k + 1)
                 PROVE  g[n] = IF n = 0 THEN first ELSE Turn(g[n - 1], m)
      OBVIOUS
    <3>1. CASE n = k + 1
      <4>1. n # 0 /\ n - 1 = k /\ k \in 0..(k + 1) /\ k # k + 1
        BY <3>1
      <4>2. g[n] = Turn(f[k], m) /\ g[n - 1] = f[k]
        BY <3>1, <4>1
      <4> QED BY <4>1, <4>2
    <3>2. CASE n # k + 1
      <4>1. n \in 0..k
        BY <3>2
      <4>2. g[n] = f[n]
        BY <3>2
      <4>3. f[n] = IF n = 0 THEN first ELSE Turn(f[n - 1], m)
        BY <2>1, <4>1
      <4>4. n # 0 => g[n - 1] = f[n - 1]
        BY <4>1
      <4> QED BY <4>2, <4>3, <4>4
    <3> QED BY <3>1, <3>2
  <2>3. g = [n \in 0..(k + 1) |-> g[n]]
    OBVIOUS
  <2> HIDE DEF g
  <2>4. Goes(g, k + 1)
    BY <2>2, <2>3
  <2> QED BY <2>4
<1>4. \E f : Goes(f, 0)
  <2> DEFINE g == [n \in 0..0 |-> first]
  <2>1. \A n \in 0..0 : g[n] = IF n = 0 THEN first ELSE Turn(g[n - 1], m)
    OBVIOUS
  <2>2. g = [n \in 0..0 |-> g[n]]
    OBVIOUS
  <2> HIDE DEF g
  <2>3. Goes(g, 0)
    BY <2>1, <2>2
  <2> QED BY <2>3
<1> HIDE DEF Goes
<1>5. \A k \in Nat : \E f : Goes(f, k)
  <2> DEFINE U == {k \in Nat : ~\E f : Goes(f, k)}
  <2> SUFFICES ASSUME U # {} PROVE FALSE
    OBVIOUS
  <2>1. PICK k \in U : \A i \in U : k <= i
    BY LeastNat
  <2>2. k \in Nat /\ k # 0
    BY <1>4
  <2>3. k - 1 \in Nat /\ k - 1 \notin U /\ (k - 1) + 1 = k
    BY <2>1, <2>2
  <2> QED BY <1>3, <2>3
<1>6. PICK f : f = (CHOOSE g : Goes(g, T)) /\ Goes(f, T)
  BY <1>1, <1>5
<1>7. \A n \in 0..T : f[n] = IF n = 0 THEN first ELSE Turn(f[n - 1], m)
  BY <1>6 DEF Goes
<1>8. \A n \in 0..T : f[n] \in Q[n]
  <2> DEFINE U == {k \in Nat : k <= T /\ f[k] \notin Q[k]}
  <2> SUFFICES ASSUME U # {} PROVE FALSE
    OBVIOUS
  <2>1. PICK k \in U : \A i \in U : k <= i
    BY LeastNat
  <2>2. k \in 0..T
    BY <1>1
  <2>3. k # 0
    BY <1>7, <2>2 DEF first
  <2>4. k - 1 \in Nat /\ k - 1 \notin U /\ (k - 1) + 1 = k
    BY <2>1, <2>2, <2>3
  <2>5. f[k - 1] \in Q[k - 1]
    BY <1>1, <2>2, <2>4
  <2>6. Turn(f[k - 1], m) \in Q[k]
    BY <2>4, <2>5
  <2> QED BY <1>7, <2>2, <2>3, <2>6
<1> QED BY <1>1, <1>2, <1>6, <1>8 DEF T

\* The three marks, character by character.
LEMMA MarksAre ==
  ASSUME NEW b \in Seq(Chars)
  PROVE  /\ \A i : i \in Places(b, BeginMark) <=> i \in 1..(Len(b) - 1) /\ b[i] = "x" /\ b[i + 1] = "n"
         /\ \A i : i \in Places(b, EndMark) <=> i \in 1..(Len(b) - 1) /\ b[i] = "x" /\ b[i + 1] = "-"
         /\ \A i : i \in Places(b, ParamEnd) <=> i \in 1..(Len(b) - 1) /\ b[i] = "n" /\ b[i + 1] = "n"
         /\ Complete(b) <=> Places(b, EndMark) # {}
<1>1. Complete(b) <=> Places(b, EndMark) # {}
  BY Found0 DEF Complete
<1> QED BY <1>1 DEF Places, BeginMark, EndMark, ParamEnd

\* The parser begins with nothing read.
LEMMA StartIs ==
  ASSUME NEW b \in Seq(Chars), NEW win \in Nat \ {0}, NEW disk \in BOOLEAN
  PROVE  LET s == Start(b, win, disk) IN
         /\ s \in Parser(b, win, disk) /\ Reading(s) /\ s.mode = "begin" /\ Done(s) = 0
         /\ s.pos = 0 /\ s.parts = <<>>
<1> DEFINE s == Start(b, win, disk)
<1>1. <<>> \in Seq(Chars) /\ Len(<<>>) = 0 /\ <<>> \in Seq(FormPartRead) /\ Len(b) \in Nat
  BY EmptySeq
<1>2. /\ s \in Parser(b, win, disk) /\ s.mode = "begin" /\ s.pos = 0 /\ s.parts = <<>>
      /\ s.cache = <<>> /\ s.window = win /\ s.outer = 0 /\ s.body = b
  BY <1>1 DEF Start, Parser
<1> HIDE DEF s
<1>3. Done(s) = 0
  <2>1. Len(s.cache) = 0 /\ s.pos = 0
    BY <1>1, <1>2
  <2> QED BY <2>1 DEF Done
<1>4. Reading(s)
  BY <1>1, <1>2, <1>3 DEF Reading
<1> QED BY <1>2, <1>3, <1>4 DEF s

\* The parser reads the body on, and is over only when it has found the mark at its end.
LEMMA Stepped ==
  ASSUME NEW b \in Seq(Chars), NEW win \in Nat \ {0}, NEW disk \in BOOLEAN,
         NEW s \in Parser(b, win, disk), Reading(s), s.mode = "over" => Complete(b)
  PROVE  LET t == Step(s) IN
         t \in Parser(b, win, disk) /\ Reading(t) /\ (t.mode = "over" => Complete(b))
<1> DEFINE t == Step(s)
<1>1. s.body = b /\ s.mode \in {"begin", "param", "data", "over", "error"}
  BY DEF Parser
<1>2. CASE s.mode = "begin"
  <2>1. t \in Parser(b, win, disk) /\ Reading(t) /\ t.mode # "over"
    BY <1>2, BeginIs
  <2> QED BY <2>1
<1>3. CASE s.mode = "param"
  <2>1. t \in Parser(b, win, disk) /\ Reading(t) /\ t.mode # "over"
    BY <1>3, ParamIs
  <2> QED BY <2>1
<1>4. CASE s.mode = "data"
  <2>1. t \in Parser(b, win, disk) /\ Reading(t)
    BY <1>4, DataIs
  <2>2. t.mode = "over" => \E i \in Int : FirstRead(s, s, EndMark, i)
    BY <1>4, DataIs
  <2>3. t.mode = "over" => Places(b, EndMark) # {}
    BY <1>1, <2>2 DEF FirstRead
  <2> QED BY <2>1, <2>3, MarksAre
<1>5. CASE s.mode \in {"over", "error"}
  BY <1>5 DEF Step
<1> QED BY <1>1, <1>2, <1>3, <1>4, <1>5

\* How the body of a form looks that a browser sends, whole or up to where the connection
\* broke: a boundary is at the beginning or behind an end of line; the end of the form or
\* the headers of a part follow it, and no other boundary at once.
Shaped(b) ==
  /\ 1 <= Len(b) => b[1] = "x"
  /\ 2 <= Len(b) => b[2] = "n"
  /\ \A i \in 1..Len(b) : b[i] = "x" => i = 1 \/ b[i - 1] = "n"
  /\ \A i \in 1..(Len(b) - 1) : b[i] = "x" => b[i + 1] = "n" \/ (b[i + 1] = "-" /\ i + 1 = Len(b))
  /\ \A i \in Places(b, BeginMark) :
       /\ i + 2 <= Len(b) => b[i + 2] \in {"f", "h"}
       /\ i + 3 <= Len(b) => b[i + 3] = "n"
       /\ i + 4 <= Len(b) => b[i + 4] = "n"
       /\ i + 5 <= Len(b) => b[i + 5] # "x"

\* Of a whole form without a file, wherever windows end, every part is found to begin and
\* every end of headers; and the end of the form, when the whole body is one window.
Unrefused(b, s) ==
  /\ s.mode # "error"
  /\ s.mode = "begin" => Done(s) + 1 \in Places(b, BeginMark)
  /\ s.mode = "param" => Done(s) - 1 \in Places(b, BeginMark)
  /\ s.mode = "data" /\ s.outer = Len(b) => Done(s) \in 1..Len(b) /\ b[Done(s)] = "n"

\* The end of a whole form is its last two characters, and a part begins at its first.
LEMMA EndIsLast ==
  ASSUME NEW b \in Seq(Chars), Shaped(b), Complete(b)
  PROVE  /\ Len(b) - 1 \in Places(b, EndMark) /\ Len(b) - 1 \in 2..Len(b)
         /\ b[Len(b) - 1] = "x" /\ b[Len(b)] = "-" /\ Len(b) \in Nat
         /\ \A i \in Places(b, EndMark) : i = Len(b) - 1
         /\ 1 \in Places(b, BeginMark)
<1>1. PICK e : e \in Places(b, EndMark)
  BY MarksAre
<1>2. e \in 1..(Len(b) - 1) /\ b[e] = "x" /\ b[e + 1] = "-" /\ Len(b) \in Nat
  BY <1>1, MarksAre
<1>3. \A i \in Places(b, EndMark) : i = Len(b) - 1
  <2> SUFFICES ASSUME NEW i \in Places(b, EndMark) PROVE i = Len(b) - 1
    OBVIOUS
  <2>1. i \in 1..(Len(b) - 1) /\ b[i] = "x" /\ b[i + 1] = "-"
    BY MarksAre
  <2>2. i + 1 = Len(b)
    BY <2>1 DEF Shaped
  <2> QED BY <1>2, <2>1, <2>2
<1>4. e = Len(b) - 1
  BY <1>1, <1>3
<1>5. e + 1 = Len(b)
  BY <1>2, <1>4
<1>6. 1 \in 1..(Len(b) - 1) /\ b[1] = "x" /\ b[2] = "n" /\ 1 + 1 = 2
  BY <1>2 DEF Shaped
<1>7. 1 \in Places(b, BeginMark)
  BY <1>6, MarksAre
<1>8. e # 1
  BY <1>2, <1>6
<1> QED BY <1>1, <1>2, <1>3, <1>4, <1>5, <1>7, <1>8

\* The headers behind the beginning of a part at m.
LEMMA HeadersFollow ==
  ASSUME NEW b \in Seq(Chars), Shaped(b), Complete(b), NEW m \in Places(b, BeginMark)
  PROVE  /\ m \in 1..(Len(b) - 7) /\ b[m] = "x" /\ b[m + 1] = "n" /\ b[m + 2] \in {"f", "h"}
         /\ b[m + 3] = "n" /\ b[m + 4] = "n" /\ b[m + 5] # "x"
         /\ m + 3 \in Places(b, ParamEnd)
         /\ \A j \in Places(b, ParamEnd) : m + 1 < j => m + 3 <= j
<1> DEFINE e == Len(b) - 1
<1>1. /\ e \in 2..Len(b) /\ b[e] = "x" /\ Len(b) \in Nat
  BY EndIsLast
<1>2. m \in 1..e /\ b[m] = "x" /\ b[m + 1] = "n"
  BY MarksAre
<1>3. e # m
  <2>1. b[m + 1] # "-"
    BY <1>2
  <2>2. b[e + 1] = "-"
    <3>1. e + 1 = Len(b)
      BY <1>1
    <3> QED BY <3>1, EndIsLast
  <2> QED BY <2>1, <2>2
<1>4. e # m + 1
  BY <1>1, <1>2
<1>5. m + 2 <= e
  BY <1>1, <1>2, <1>3, <1>4
<1>6. b[m + 2] \in {"f", "h"}
  BY <1>1, <1>2, <1>5 DEF Shaped
<1>7. m + 3 <= e
  BY <1>1, <1>2, <1>5, <1>6
<1>8. b[m + 3] = "n"
  BY <1>1, <1>2, <1>7 DEF Shaped
<1>9. m + 4 <= e
  BY <1>1, <1>2, <1>7, <1>8
<1>10. b[m + 4] = "n"
  BY <1>1, <1>2, <1>9 DEF Shaped
<1>11. m + 5 <= e
  BY <1>1, <1>2, <1>9, <1>10
<1>12. b[m + 5] # "x"
  BY <1>1, <1>2, <1>11 DEF Shaped
<1>13. m + 6 <= e
  BY <1>1, <1>2, <1>11, <1>12
<1>14. m \in 1..(Len(b) - 7)
  BY <1>1, <1>2, <1>13
<1>15. m + 3 \in 1..(Len(b) - 1) /\ m + 3 + 1 = m + 4
  BY <1>1, <1>2, <1>13
<1>16. m + 3 \in Places(b, ParamEnd)
  BY <1>8, <1>10, <1>15, MarksAre
<1>17. ASSUME NEW j \in Places(b, ParamEnd), m + 1 < j PROVE m + 3 <= j
  <2>1. j \in 1..(Len(b) - 1) /\ b[j] = "n"
    BY MarksAre
  <2>2. j # m + 2
    BY <1>6, <2>1
  <2> QED BY <1>2, <1>17, <2>1, <2>2
<1> QED BY <1>2, <1>6, <1>8, <1>10, <1>12, <1>14, <1>16, <1>17

\* What is kept: a turn refuses nothing of a whole form without a file.
LEMMA StillUnrefused ==
  ASSUME NEW b \in Seq(Chars), NEW win \in Nat \ {0}, NEW disk \in BOOLEAN,
         NEW s \in Parser(b, win, disk), Reading(s), Unrefused(b, s),
         Shaped(b), Complete(b), ~FilePart(b)
  PROVE  Unrefused(b, Step(s))
<1> DEFINE t == Step(s)
           L == Len(b)
<1>1. /\ L - 1 \in Places(b, EndMark) /\ L - 1 \in 2..L /\ b[L - 1] = "x" /\ b[L] = "-" /\ L \in Nat
  BY EndIsLast
<1>2. /\ s.body = b /\ s.pos \in 0..L /\ s.mode \in {"begin", "param", "data", "over", "error"}
      /\ s.outer \in Nat /\ s.outer <= s.pos /\ Done(s) >= 0
  BY DEF Parser, Reading
<1>3. Done(s) \in Int /\ Done(s) <= s.pos
  <2>1. Len(s.cache) \in Nat
    BY DEF Parser
  <2> QED BY <1>2, <2>1 DEF Done
<1>4. CASE s.mode = "begin"
  <2>1. Done(s) + 1 \in Places(b, BeginMark) /\ Done(s) + 1 \in 1..(L - 1)
    BY <1>4, MarksAre DEF Unrefused
  <2>2. CASE t.mode = "param"
    <3>1. PICK i \in Int : FirstRead(s, t, BeginMark, i) /\ Done(t) = i + 1
      BY <1>4, <2>2, BeginIs
    <3>2. i \in Places(b, BeginMark) /\ Done(t) - 1 = i
      BY <1>2, <3>1 DEF FirstRead
    <3> QED BY <2>2, <3>2 DEF Unrefused
  <2>3. CASE t.mode = "error"
    <3>1. NoneRead(s, t, BeginMark) /\ t.pos = L
      BY <1>4, <2>3, BeginIs
    <3>2. Done(s) < Done(s) + 1 /\ Done(s) + 1 < t.pos
      BY <1>1, <1>3, <2>1, <3>1
    <3> QED BY <1>2, <2>1, <3>1, <3>2 DEF NoneRead
  <2>4. CASE t.mode = "begin"
    <3>1. Done(t) = Done(s)
      BY <1>4, <2>4, BeginIs
    <3> QED BY <2>1, <2>4, <3>1 DEF Unrefused
  <2>5. t.mode \in {"param", "error", "begin"}
    BY <1>4, BeginIs
  <2> QED BY <2>2, <2>3, <2>4, <2>5
<1>5. CASE s.mode = "param"
  <2> DEFINE m == Done(s) - 1
  <2>1. m \in Places(b, BeginMark) /\ m \in 1..(L - 1) /\ b[m] = "x" /\ b[m + 1] = "n"
    BY <1>5, MarksAre DEF Unrefused
  <2>2. CASE t.mode = "data"
    <3>1. PICK i \in Int : FirstRead(s, s, ParamEnd, i) /\ Done(t) = i + 1
      BY <1>5, <2>2, ParamIs
    <3>2. i \in 1..(L - 1) /\ b[i + 1] = "n"
      BY <1>2, <3>1, MarksAre DEF FirstRead
    <3>3. Done(t) \in 1..L /\ b[Done(t)] = "n"
      BY <1>1, <3>1, <3>2
    <3> QED BY <2>2, <3>3 DEF Unrefused
  <2>3. CASE t.mode = "error"
    <3>1. ASSUME NEW i \in Int, FirstRead(s, s, ParamEnd, i), HeadersNameFile(s, i) PROVE FALSE
      <4>1. i \in Places(b, ParamEnd) /\ Done(s) < i /\ Done(s) = m + 1
        BY <1>2, <1>3, <2>1, <3>1 DEF FirstRead
      <4>2. /\ m + 3 \in Places(b, ParamEnd) /\ m + 3 <= i /\ m \in 1..(L - 7) /\ m + 1 < m + 3
        BY <2>1, <4>1, HeadersFollow
      <4>3. ~(m + 3 < i)
        BY <1>2, <3>1, <4>1, <4>2 DEF FirstRead
      <4>4. i = m + 3
        BY <1>3, <4>2, <4>3
      <4>5. PICK k \in (Done(s) + 1)..(i - 1) : b[k] = "f"
        BY <1>2, <3>1 DEF HeadersNameFile
      <4>6. k = m + 2 /\ m + 2 <= L
        BY <1>1, <4>1, <4>2, <4>4, <4>5
      <4> QED BY <2>1, <4>5, <4>6 DEF FilePart
    <3>2. NoneRead(s, s, ParamEnd) /\ s.pos = L
      BY <1>5, <2>3, <3>1, ParamIs
    <3>3. m + 3 \in Places(b, ParamEnd) /\ m \in 1..(L - 7)
      BY <2>1, HeadersFollow
    <3>4. Done(s) < m + 3 /\ m + 3 < s.pos
      BY <1>1, <1>3, <3>2, <3>3
    <3> QED BY <1>2, <3>2, <3>3, <3>4 DEF NoneRead
  <2>4. CASE t.mode = "param"
    <3>1. Done(t) = Done(s)
      BY <1>5, <2>4, ParamIs
    <3> QED BY <2>1, <2>4, <3>1 DEF Unrefused
  <2>5. t.mode \in {"param", "error", "data"}
    BY <1>5, ParamIs
  <2> QED BY <2>2, <2>3, <2>4, <2>5
<1>6. CASE s.mode = "data"
  <2>1. CASE t.mode = "begin"
    <3>1. PICK i \in Int : FirstRead(s, s, BeginMark, i) /\ Done(t) = i - 1
      BY <1>6, <2>1, DataIs
    <3>2. i \in Places(b, BeginMark) /\ Done(t) + 1 = i
      BY <1>2, <3>1 DEF FirstRead
    <3> QED BY <2>1, <3>2 DEF Unrefused
  <2>2. CASE t.mode = "over"
    BY <2>2 DEF Unrefused
  <2>3. CASE t.mode = "error"
    <3>1. NoneRead(s, s, EndMark) /\ s.outer = L
      BY <1>6, <2>3, DataIs
    <3>2. Done(s) \in 1..L /\ b[Done(s)] = "n" /\ s.pos = L
      BY <1>2, <1>6, <3>1 DEF Unrefused
    <3>3. Done(s) # L /\ Done(s) # L - 1
      BY <1>1, <3>2
    <3>4. Done(s) < L - 1 /\ L - 1 < s.pos
      BY <1>1, <3>2, <3>3
    <3> QED BY <1>1, <1>2, <3>1, <3>4, SMTT(20) DEF NoneRead
  <2>4. CASE t.mode = "data"
    <3>1. s.outer # L /\ t.outer = s.outer
      BY <1>6, <2>4, DataIs
    <3> QED BY <2>4, <3>1 DEF Unrefused
  <2>5. t.mode \in {"begin", "over", "error", "data"}
    BY <1>6, DataModes
  <2> QED BY <2>1, <2>2, <2>3, <2>4, <2>5
<1>7. CASE s.mode \in {"over", "error"}
  BY <1>7 DEF Step
<1> QED BY <1>2, <1>4, <1>5, <1>6, <1>7

\* The headers of a part.
LEMMA HeadersAre ==
  ASSUME NEW c \in Chars
  PROVE  LET head == BeginMark \o <<c>> \o ParamEnd IN
         /\ head \in Seq(Chars) /\ Len(head) = 5 /\ head[1] = "x" /\ head[2] = "n" /\ head[3] = c
         /\ head[4] = "n" /\ head[5] = "n"
<1> DEFINE h == BeginMark \o <<c>>
<1>1. BeginMark \in Seq(Chars) /\ Len(BeginMark) = 2 /\ BeginMark[1] = "x" /\ BeginMark[2] = "n"
  BY DEF BeginMark, Chars
<1>2. ParamEnd \in Seq(Chars) /\ Len(ParamEnd) = 2 /\ ParamEnd[1] = "n" /\ ParamEnd[2] = "n"
  BY DEF ParamEnd, Chars
<1>3. <<c>> \in Seq(Chars) /\ Len(<<c>>) = 1 /\ <<c>>[1] = c
  OBVIOUS
<1>4. h \in Seq(Chars) /\ Len(h) = 3 /\ h[1] = "x" /\ h[2] = "n" /\ h[3] = c
  BY <1>1, <1>3, ConcatIs
<1> HIDE DEF h
<1> DEFINE head == h \o ParamEnd
<1>5. /\ head \in Seq(Chars) /\ Len(head) = 5
      /\ \A i \in 1..5 : head[i] = IF i <= 3 THEN h[i] ELSE ParamEnd[i - 3]
  <2>1. ParamEnd \in Seq(Chars) /\ h \in Seq(Chars) /\ Len(h) = 3 /\ Len(ParamEnd) = 2
    BY <1>2, <1>4
  <2>2. /\ head \in Seq(Chars) /\ Len(head) = Len(h) + Len(ParamEnd)
        /\ \A i \in 1..(Len(h) + Len(ParamEnd)) :
             head[i] = IF i <= Len(h) THEN h[i] ELSE ParamEnd[i - Len(h)]
    BY <2>1, ConcatIs
  <2> HIDE DEF head
  <2>3. Len(h) + Len(ParamEnd) = 5
    BY <2>1
  <2> QED BY <2>1, <2>2, <2>3
<1> HIDE DEF head
<1>6. head[1] = h[1] /\ head[2] = h[2] /\ head[3] = h[3] /\ head[4] = ParamEnd[1] /\ head[5] = ParamEnd[2]
  BY <1>5
<1> QED BY <1>2, <1>4, <1>5, <1>6 DEF head, h

\* A part as it is sent, byte by byte.
LEMMA EncodedIs ==
  ASSUME NEW p \in FormPartRead
  PROVE  /\ Encoded(p) \in Seq(Chars) /\ Len(Encoded(p)) = Len(p.data) + 6
         /\ Encoded(p)[1] = "x" /\ Encoded(p)[2] = "n"
         /\ Encoded(p)[3] = IF p.file THEN "f" ELSE "h"
         /\ Encoded(p)[4] = "n" /\ Encoded(p)[5] = "n"
         /\ \A k \in 1..Len(p.data) : Encoded(p)[k + 5] = p.data[k]
         /\ Encoded(p)[Len(p.data) + 6] = "n"
<1> DEFINE c == IF p.file THEN "f" ELSE "h"
           head == BeginMark \o <<c>> \o ParamEnd
           d == p.data
           body == head \o d
           e == body \o <<"n">>
<1>1. d \in Seq(Chars) /\ Len(d) \in Nat /\ c \in Chars
  BY DEF FormPartRead, Chars
<1>3. Encoded(p) = e
  BY DEF Encoded
<1> HIDE DEF c, d, head
<1>4. /\ head \in Seq(Chars) /\ Len(head) = 5 /\ head[1] = "x" /\ head[2] = "n" /\ head[3] = c
      /\ head[4] = "n" /\ head[5] = "n"
  BY <1>1, HeadersAre DEF head
<1>5. /\ body \in Seq(Chars) /\ Len(body) = Len(d) + 5
      /\ \A i \in 1..(5 + Len(d)) : body[i] = IF i <= 5 THEN head[i] ELSE d[i - 5]
  <2>1. head \in Seq(Chars) /\ d \in Seq(Chars) /\ Len(head) = 5
    BY <1>1, <1>4
  <2>2. /\ body \in Seq(Chars) /\ Len(body) = Len(head) + Len(d)
        /\ \A i \in 1..(Len(head) + Len(d)) :
             body[i] = IF i <= Len(head) THEN head[i] ELSE d[i - Len(head)]
    BY <2>1, ConcatIs
  <2> HIDE DEF body
  <2> QED BY <1>1, <2>1, <2>2
<1> HIDE DEF body
<1>6. <<"n">> \in Seq(Chars) /\ Len(<<"n">>) = 1 /\ <<"n">>[1] = "n"
  BY DEF Chars
<1>7. /\ e \in Seq(Chars) /\ Len(e) = Len(d) + 5 + 1
      /\ \A i \in 1..(Len(d) + 5 + 1) :
           e[i] = IF i <= Len(d) + 5 THEN body[i] ELSE <<"n">>[i - (Len(d) + 5)]
  BY <1>5, <1>6, ConcatIs
<1> HIDE DEF e
<1>8. \A i \in 1..5 : e[i] = head[i]
  <2> SUFFICES ASSUME NEW i \in 1..5 PROVE e[i] = head[i]
    OBVIOUS
  <2>1. i \in 1..(Len(d) + 5 + 1) /\ i <= Len(d) + 5 /\ i \in 1..(5 + Len(d)) /\ i <= 5
    BY <1>1
  <2> QED BY <1>5, <1>7, <2>1
<1>9. \A k \in 1..Len(d) : e[k + 5] = d[k]
  <2> SUFFICES ASSUME NEW k \in 1..Len(d) PROVE e[k + 5] = d[k]
    OBVIOUS
  <2>1. /\ k + 5 \in 1..(Len(d) + 5 + 1) /\ k + 5 <= Len(d) + 5 /\ k + 5 \in 1..(5 + Len(d))
        /\ ~(k + 5 <= 5) /\ (k + 5) - 5 = k
    BY <1>1
  <2> QED BY <1>5, <1>7, <2>1
<1>10. e[Len(d) + 6] = "n"
  <2>1. /\ Len(d) + 6 \in 1..(Len(d) + 5 + 1) /\ ~(Len(d) + 6 <= Len(d) + 5)
        /\ (Len(d) + 6) - (Len(d) + 5) = 1
    BY <1>1
  <2> QED BY <1>6, <1>7, <2>1
<1>11. Len(e) = Len(d) + 6
  BY <1>1, <1>7
<1>12. e[1] = "x" /\ e[2] = "n" /\ e[3] = c /\ e[4] = "n" /\ e[5] = "n"
  BY <1>4, <1>8
<1> QED BY <1>3, <1>7, <1>9, <1>10, <1>11, <1>12 DEF c, d

\* The text of the first n parts of a form, as Encode puts it together.
Texts(parts, g) ==
  g = [n \in 0..Len(parts) |-> IF n = 0 THEN <<>> ELSE g[n - 1] \o Encoded(parts[n])]

\* The first e bytes of b are the text of these parts.
Told(parts, b, e) ==
  \E g : /\ Texts(parts, g)
         /\ LET t == g[Len(parts)]
            IN  t \in Seq(Chars) /\ Len(t) = e /\ \A k \in 1..e : t[k] = b[k]

\* No parts have no text.
LEMMA NothingTold == ASSUME NEW b PROVE Told(<<>>, b, 0)
<1> DEFINE g == [n \in 0..0 |-> <<>>]
<1>1. Len(<<>>) = 0 /\ <<>> \in Seq(Chars)
  BY EmptySeq
<1>2. \A n \in 0..0 : g[n] = IF n = 0 THEN <<>> ELSE g[n - 1] \o Encoded(<<>>[n])
  OBVIOUS
<1>3. g = [n \in 0..0 |-> g[n]] /\ g[0] = <<>>
  OBVIOUS
<1> HIDE DEF g
<1>4. Texts(<<>>, g)
  BY <1>1, <1>2, <1>3 DEF Texts
<1> QED BY <1>1, <1>3, <1>4 DEF Told

\* The text of a form, part by part.
LEMMA TextsAre ==
  ASSUME NEW parts \in Seq(FormPartRead), NEW g, Texts(parts, g)
  PROVE  \A n \in 0..Len(parts) : g[n] = IF n = 0 THEN <<>> ELSE g[n - 1] \o Encoded(parts[n])
BY DEF Texts

\* There is one text of a form only, and Encode gives it.
LEMMA OneText ==
  ASSUME NEW parts \in Seq(FormPartRead), NEW g, Texts(parts, g)
  PROVE  Encode(parts) = g[Len(parts)] \o EndMark
<1> DEFINE N == Len(parts)
<1>1. N \in Nat
  OBVIOUS
<1>2. Encode(parts) = (CHOOSE f : Texts(parts, f))[N] \o EndMark
  BY DEF Encode, Texts
<1>3. PICK f : f = (CHOOSE h : Texts(parts, h)) /\ Texts(parts, f)
  OBVIOUS
<1>4. \A n \in 0..N : f[n] = IF n = 0 THEN <<>> ELSE f[n - 1] \o Encoded(parts[n])
  BY <1>3, TextsAre
<1>5. \A n \in 0..N : g[n] = IF n = 0 THEN <<>> ELSE g[n - 1] \o Encoded(parts[n])
  BY TextsAre
<1> HIDE DEF N
<1> DEFINE U == {n \in Nat : n <= N /\ f[n] # g[n]}
<1>6. ASSUME U # {} PROVE FALSE
  <2>1. PICK k \in U : \A m \in U : k <= m
    BY <1>6, LeastNat
  <2>2. k \in 0..N
    BY <1>1
  <2>3. k # 0
    BY <1>4, <1>5, <2>2
  <2>4. k - 1 \in Nat /\ k - 1 \notin U
    BY <2>1, <2>2, <2>3
  <2>5. f[k - 1] = g[k - 1]
    BY <1>1, <2>2, <2>4
  <2> QED BY <1>4, <1>5, <2>2, <2>3, <2>5
<1>7. f[N] = g[N]
  BY <1>1, <1>6
<1> QED BY <1>2, <1>3, <1>7 DEF N

\* The text of another part at e + 1 makes the text of one part more.
LEMMA OneMoreTold ==
  ASSUME NEW b, NEW parts \in Seq(FormPartRead), NEW p \in FormPartRead, NEW e \in Nat,
         Told(parts, b, e),
         b[e + 1] = "x", b[e + 2] = "n", b[e + 3] = IF p.file THEN "f" ELSE "h",
         b[e + 4] = "n", b[e + 5] = "n",
         \A k \in 1..Len(p.data) : b[e + 5 + k] = p.data[k],
         b[e + 6 + Len(p.data)] = "n"
  PROVE  Told(Append(parts, p), b, e + 6 + Len(p.data))
<1> DEFINE N == Len(parts)
           m == Len(p.data)
           q == Append(parts, p)
           v == Encoded(p)
<1>1. PICK g : /\ Texts(parts, g) /\ g[N] \in Seq(Chars) /\ Len(g[N]) = e
               /\ \A k \in 1..e : g[N][k] = b[k]
  BY DEF Told
<1>2. /\ N \in Nat /\ q \in Seq(FormPartRead) /\ Len(q) = N + 1 /\ q[N + 1] = p
      /\ \A n \in 1..N : q[n] = parts[n]
  OBVIOUS
<1>3. m \in Nat
  BY DEF FormPartRead
<1>4. /\ v \in Seq(Chars) /\ Len(v) = m + 6 /\ v[1] = "x" /\ v[2] = "n"
      /\ v[3] = IF p.file THEN "f" ELSE "h"
  BY EncodedIs
<1>5. v[4] = "n" /\ v[5] = "n" /\ (\A k \in 1..m : v[k + 5] = p.data[k]) /\ v[m + 6] = "n"
  BY EncodedIs
<1> DEFINE t == g[N] \o v
           h == [n \in 0..(N + 1) |-> IF n = N + 1 THEN t ELSE g[n]]
<1>6. \A n \in 0..N : g[n] = IF n = 0 THEN <<>> ELSE g[n - 1] \o Encoded(parts[n])
  BY <1>1, TextsAre
<1>7. /\ t \in Seq(Chars) /\ Len(t) = e + (m + 6)
      /\ \A i \in 1..(e + (m + 6)) : t[i] = IF i <= e THEN g[N][i] ELSE v[i - e]
  <2>1. g[N] \in Seq(Chars) /\ v \in Seq(Chars) /\ Len(g[N]) = e /\ Len(v) = m + 6
    BY <1>1, <1>4
  <2>2. /\ t \in Seq(Chars) /\ Len(t) = Len(g[N]) + Len(v)
        /\ \A i \in 1..(Len(g[N]) + Len(v)) : t[i] = IF i <= Len(g[N]) THEN g[N][i] ELSE v[i - Len(g[N])]
    BY <2>1, ConcatIs
  <2> HIDE DEF t
  <2> QED BY <2>1, <2>2
<1> HIDE DEF N, q, v, m
<1>8. \A n \in 0..(N + 1) : h[n] = IF n = 0 THEN <<>> ELSE h[n - 1] \o Encoded(q[n])
  <2> SUFFICES ASSUME NEW n \in 0..(N + 1)
               PROVE  h[n] = IF n = 0 THEN <<>> ELSE h[n - 1] \o Encoded(q[n])
    OBVIOUS
  <2>1. CASE n = N + 1
    <3>1. n # 0 /\ n - 1 = N /\ N \in 0..(N + 1) /\ N # N + 1
      BY <1>2, <2>1
    <3>2. h[n] = t /\ h[n - 1] = g[N] /\ q[n] = p
      BY <1>2, <2>1, <3>1
    <3> QED BY <3>1, <3>2 DEF v
  <2>2. CASE n # N + 1
    <3>1. n \in 0..N
      BY <1>2, <2>2
    <3>2. h[n] = g[n]
      BY <2>2
    <3>3. n # 0 => h[n - 1] = g[n - 1] /\ q[n] = parts[n]
      BY <1>2, <3>1
    <3> HIDE DEF h
    <3> QED BY <1>6, <3>1, <3>2, <3>3
  <2> QED BY <2>1, <2>2
<1>9. h = [n \in 0..(N + 1) |-> h[n]] /\ h[N + 1] = t
  BY <1>2
<1> HIDE DEF h, t
<1>10. Texts(q, h)
  BY <1>2, <1>8, <1>9 DEF Texts
<1>11. \A k \in 1..(e + (m + 6)) : t[k] = b[k]
  <2> SUFFICES ASSUME NEW k \in 1..(e + (m + 6)) PROVE t[k] = b[k]
    OBVIOUS
  <2>1. CASE k <= e
    BY <1>1, <1>3, <1>7, <2>1, SMTT(20)
  <2>2. CASE k > e
    <3> DEFINE i == k - e
    <3>1. i \in 1..(m + 6) /\ k = e + i
      BY <1>3, <2>2
    <3>2. t[k] = v[i]
      BY <1>3, <1>7, <2>2
    <3> HIDE DEF i
    <3>3. CASE i \in 1..5
      <4>1. CASE i = 1
        BY <1>4, <3>1, <3>2, <4>1
      <4>2. CASE i = 2
        BY <1>4, <3>1, <3>2, <4>2
      <4>3. CASE i = 3
        BY <1>4, <3>1, <3>2, <4>3
      <4>4. CASE i = 4
        BY <1>5, <3>1, <3>2, <4>4
      <4>5. CASE i = 5
        BY <1>5, <3>1, <3>2, <4>5
      <4> QED BY <3>3, <4>1, <4>2, <4>3, <4>4, <4>5
    <3>4. CASE i \in 6..(m + 5)
      <4>1. i - 5 \in 1..m /\ (i - 5) + 5 = i /\ e + 5 + (i - 5) = k
        BY <1>3, <3>1, <3>4
      <4>2. v[i] = p.data[i - 5] /\ b[k] = p.data[i - 5]
        BY <1>5, <4>1 DEF m
      <4> QED BY <3>2, <4>2
    <3>5. CASE i = m + 6
      <4>1. e + 6 + m = k
        BY <1>3, <3>1, <3>5
      <4> QED BY <1>5, <3>2, <3>5, <4>1 DEF m
    <3> QED BY <1>3, <3>1, <3>3, <3>4, <3>5
  <2> QED BY <2>1, <2>2
<1>12. e + 6 + m = e + (m + 6)
  BY <1>3
<1>13. Told(q, b, e + 6 + m)
  <2>1. h[Len(q)] = t /\ Len(t) = e + 6 + m /\ \A k \in 1..(e + 6 + m) : t[k] = b[k]
    BY <1>2, <1>7, <1>9, <1>11, <1>12
  <2>2. /\ h[Len(q)] \in Seq(Chars) /\ Len(h[Len(q)]) = e + 6 + m
        /\ \A k \in 1..(e + 6 + m) : h[Len(q)][k] = b[k]
    BY <1>7, <2>1
  <2> QED BY <1>10, <2>2 DEF Told
<1> QED BY <1>13 DEF q, m

\* With the mark of the end behind them, the parts were sent as b.
LEMMA AllTold ==
  ASSUME NEW b \in Seq(Chars), NEW parts \in Seq(FormPartRead), Len(b) \in Nat, Len(b) >= 2,
         Told(parts, b, Len(b) - 2), b[Len(b) - 1] = "x", b[Len(b)] = "-"
  PROVE  Encode(parts) = b
<1> DEFINE e == Len(b) - 2
<1>1. e \in Nat /\ Len(b) = e + 2 /\ Len(b) - 1 = e + 1
  OBVIOUS
<1>2. PICK g : /\ Texts(parts, g) /\ g[Len(parts)] \in Seq(Chars) /\ Len(g[Len(parts)]) = e
               /\ \A k \in 1..e : g[Len(parts)][k] = b[k]
  BY DEF Told
<1> HIDE DEF e
<1>3. PICK t : t = g[Len(parts)]
  OBVIOUS
<1>4. Encode(parts) = t \o EndMark
  BY <1>2, <1>3, OneText
<1>5. /\ EndMark \in Seq(Chars) /\ Len(EndMark) = 2 /\ EndMark[1] = "x" /\ EndMark[2] = "-"
  BY DEF EndMark, Chars
<1> DEFINE u == t \o EndMark
<1>6. /\ u \in Seq(Chars) /\ Len(u) = e + 2
      /\ \A i \in 1..(e + 2) : u[i] = IF i <= e THEN t[i] ELSE EndMark[i - e]
  <2>1. t \in Seq(Chars) /\ Len(t) = e
    BY <1>2, <1>3
  <2>2. /\ u \in Seq(Chars) /\ Len(u) = Len(t) + Len(EndMark)
        /\ \A i \in 1..(Len(t) + Len(EndMark)) : u[i] = IF i <= Len(t) THEN t[i] ELSE EndMark[i - Len(t)]
    BY <1>5, <2>1, ConcatIs
  <2> HIDE DEF u
  <2> QED BY <1>5, <2>1, <2>2
<1> HIDE DEF u
<1>7. \A i \in 1..Len(b) : u[i] = b[i]
  <2> SUFFICES ASSUME NEW i \in 1..(e + 2) PROVE u[i] = b[i]
    BY <1>1
  <2>1. CASE i <= e
    <3>1. i \in 1..e /\ i \in 1..(e + 2)
      BY <1>1, <2>1
    <3>2. t[i] = b[i]
      BY <1>2, <1>3, <3>1
    <3> QED BY <1>6, <2>1, <3>1, <3>2
  <2>2. CASE i = e + 1
    <3>1. i - e = 1 /\ ~(i <= e)
      BY <1>1, <2>2
    <3> QED BY <1>1, <1>5, <1>6, <2>2, <3>1
  <2>3. CASE i = e + 2
    <3>1. i - e = 2 /\ ~(i <= e)
      BY <1>1, <2>3
    <3> QED BY <1>1, <1>5, <1>6, <2>3, <3>1
  <2> QED BY <1>1, <2>1, <2>2, <2>3
<1>8. u = b
  BY <1>1, <1>6, <1>7, SeqEqual
<1> QED BY <1>4, <1>8 DEF u

\* The parser is in the data of the part whose headers end at h.
InData(b, s, h) ==
  /\ h - 4 \in Places(b, BeginMark) /\ h \in 5..Done(s) /\ Told(s.parts, b, h - 5)
  /\ b[h - 2] = (IF s.file THEN "f" ELSE "h") /\ b[h - 1] = "n" /\ b[h] = "n"
  /\ Len(s.data) = Done(s) - h /\ \A k \in 1..Len(s.data) : s.data[k] = b[h + k]
  /\ NoBoundary(s.data)
  /\ Done(s) <= Len(b) - 2 /\ b[Done(s) + 1] # "x"

\* A whole form whose marks no window cuts is read part by part.
AsSent(b, s) ==
  /\ \A n \in 1..Len(s.parts) : NoBoundary(s.parts[n].data)
  /\ s.mode = "begin" => Done(s) + 1 \in Places(b, BeginMark) /\ Told(s.parts, b, Done(s))
  /\ s.mode = "param" => Done(s) - 1 \in Places(b, BeginMark) /\ Told(s.parts, b, Done(s) - 2)
  /\ s.mode = "data" => \E h \in Int : InData(b, s, h)
  /\ s.mode = "over" => Encode(s.parts) = b

\* Each turn reads on or deals with more, until the parser has ended.
Moves(s, t) == Ended(t) \/ t.pos + Done(t) > s.pos + Done(s)

\* The types of the fields, for the arithmetic on them.
LEMMA ReadIsInt ==
  ASSUME NEW b \in Seq(Chars), NEW win \in Nat \ {0}, NEW disk \in BOOLEAN,
         NEW s \in Parser(b, win, disk), Reading(s)
  PROVE  /\ s.body = b /\ s.window = win /\ s.pos \in 0..Len(b) /\ Len(b) \in Nat
         /\ s.mode \in {"begin", "param", "data", "over", "error"}
         /\ s.outer \in Nat /\ s.outer <= s.pos
         /\ Done(s) \in 0..s.pos /\ s.parts \in Seq(FormPartRead) /\ s.file \in BOOLEAN
         /\ s.data \in Seq(Chars) /\ s.cache \in Seq(Chars) /\ Len(s.cache) = s.pos - Done(s)
<1>1. /\ s.body = b /\ s.window = win /\ s.pos \in 0..Len(b) /\ Len(b) \in Nat
      /\ s.mode \in {"begin", "param", "data", "over", "error"}
      /\ s.outer \in Nat /\ s.parts \in Seq(FormPartRead) /\ s.file \in BOOLEAN
      /\ s.data \in Seq(Chars) /\ s.cache \in Seq(Chars)
  BY DEF Parser
<1>2. s.outer <= s.pos /\ Done(s) >= 0
  BY DEF Reading
<1>3. Len(s.cache) \in Nat
  BY <1>1
<1>4. Done(s) \in 0..s.pos /\ Len(s.cache) = s.pos - Done(s)
  BY <1>1, <1>2, <1>3 DEF Done
<1> QED BY <1>1, <1>2, <1>4

\* A window does not end within a mark, nor in front of one.
LEMMA NotCut ==
  ASSUME NEW b \in Seq(Chars), NEW win \in Nat \ {0}, Shaped(b), Complete(b), ~MarkCut(b, win),
         NEW k \in 2..(Len(b) - 1), k % win = 0
  PROVE  b[k] # "x" /\ b[k + 1] # "x"
<1>1. b[Len(b)] = "-" /\ Len(b) \in Nat
  BY EndIsLast
<1>2. ASSUME b[k] = "x" PROVE FALSE
  <2>1. b[k - 1] = "n"
    BY <1>1, <1>2 DEF Shaped
  <2> QED BY <1>2, <2>1 DEF MarkCut
<1>3. ASSUME b[k + 1] = "x" PROVE FALSE
  <2>1. k + 1 # Len(b)
    BY <1>1, <1>3
  <2> DEFINE i == k + 1
  <2>2. i \in 2..(Len(b) - 1) /\ i - 1 = k /\ i # 1 /\ i \in 1..Len(b)
    BY <1>1, <2>1
  <2>3. b[i] = "x"
    BY <1>3
  <2> HIDE DEF i
  <2>4. b[i - 1] = "n"
    BY <2>2, <2>3 DEF Shaped
  <2>5. (i - 1) % win = 0
    BY <2>2
  <2> QED BY <2>2, <2>3, <2>4, <2>5 DEF MarkCut
<1> QED BY <1>2, <1>3

\* BeginStep finds the part that begins where the last one ended.
LEMMA BeginSent ==
  ASSUME NEW b \in Seq(Chars), NEW win \in Nat \ {0}, NEW disk \in BOOLEAN,
         NEW s \in Parser(b, win, disk), Reading(s), AsSent(b, s), s.mode = "begin",
         Shaped(b), Complete(b)
  PROVE  AsSent(b, Step(s)) /\ Moves(s, Step(s))
<1> DEFINE t == Step(s)
           L == Len(b)
<1>1. /\ s.body = b /\ s.pos \in 0..L /\ L \in Nat /\ Done(s) \in 0..s.pos /\ s.window = win
  BY ReadIsInt
<1>2. /\ t \in Parser(b, win, disk) /\ Reading(t) /\ t.parts = s.parts /\ t.pos = Unread(s)
  BY BeginIs
<1>3. t.pos \in 0..L /\ Done(t) \in 0..t.pos
  BY <1>2, ReadIsInt
<1>4. /\ Done(s) + 1 \in Places(b, BeginMark) /\ Told(s.parts, b, Done(s))
      /\ \A n \in 1..Len(s.parts) : NoBoundary(s.parts[n].data)
  BY DEF AsSent
<1>5. t.pos = L \/ t.pos = s.pos + win
  BY <1>1, <1>2 DEF Unread
<1>6. s.pos <= t.pos
  BY <1>1, <1>5
<1>7. CASE t.mode = "param"
  <2>1. PICK i \in Int : FirstRead(s, t, BeginMark, i) /\ Done(t) = i + 1
    BY <1>7, BeginIs
  <2>2. /\ i \in Places(b, BeginMark) /\ Done(s) < i
        /\ \A j \in Places(b, BeginMark) : Done(s) < j => i <= j
    BY <1>1, <2>1 DEF FirstRead
  <2>3. i <= Done(s) + 1
    BY <1>1, <1>4, <2>2
  <2>4. Done(t) - 1 = i /\ Done(t) - 2 = Done(s)
    BY <1>1, <2>1, <2>2, <2>3
  <2>5. AsSent(b, t)
    BY <1>2, <1>4, <1>7, <2>2, <2>4 DEF AsSent
  <2>6. t.pos + Done(t) > s.pos + Done(s)
    BY <1>1, <1>3, <1>6, <2>4
  <2> QED BY <2>5, <2>6 DEF Moves
<1>8. CASE t.mode = "error"
  <2>1. NoneRead(s, t, BeginMark) /\ t.pos = L
    BY <1>8, BeginIs
  <2>2. ~(Done(s) + 1 < L)
    <3>1. Done(s) < Done(s) + 1
      BY <1>1
    <3> QED BY <1>1, <1>4, <2>1, <3>1 DEF NoneRead
  <2>3. Done(s) + 1 \in 1..(L - 1)
    BY <1>4, MarksAre
  <2> QED BY <1>1, <2>2, <2>3
<1>9. CASE t.mode = "begin"
  <2>1. Done(t) = Done(s) /\ t.pos # L
    BY <1>9, BeginIs
  <2>2. AsSent(b, t)
    BY <1>2, <1>4, <1>9, <2>1 DEF AsSent
  <2>3. t.pos + Done(t) > s.pos + Done(s)
    BY <1>1, <1>3, <1>5, <2>1
  <2> QED BY <2>2, <2>3 DEF Moves
<1>10. t.mode \in {"param", "error", "begin"}
  BY BeginIs
<1> QED BY <1>7, <1>8, <1>9, <1>10

\* ParamStep finds the end of the headers of the part it is in.
LEMMA ParamSent ==
  ASSUME NEW b \in Seq(Chars), NEW win \in Nat \ {0}, NEW disk \in BOOLEAN,
         NEW s \in Parser(b, win, disk), Reading(s), AsSent(b, s), s.mode = "param",
         Shaped(b), Complete(b)
  PROVE  AsSent(b, Step(s)) /\ Moves(s, Step(s))
<1> DEFINE t == Step(s)
           L == Len(b)
           m == Done(s) - 1
<1>1. /\ s.body = b /\ s.pos \in 0..L /\ L \in Nat /\ Done(s) \in 0..s.pos /\ s.window = win
  BY ReadIsInt
<1>2. /\ t \in Parser(b, win, disk) /\ Reading(t) /\ t.parts = s.parts
  BY ParamIs
<1>3. t.pos \in 0..L /\ Done(t) \in 0..t.pos
  BY <1>2, ReadIsInt
<1>4. /\ m \in Places(b, BeginMark) /\ Told(s.parts, b, Done(s) - 2)
      /\ \A n \in 1..Len(s.parts) : NoBoundary(s.parts[n].data)
  BY DEF AsSent
<1>5. /\ m \in 1..(L - 7) /\ b[m + 2] \in {"f", "h"} /\ b[m + 3] = "n" /\ b[m + 4] = "n"
      /\ b[m + 5] # "x" /\ m + 3 \in Places(b, ParamEnd)
      /\ \A j \in Places(b, ParamEnd) : m + 1 < j => m + 3 <= j
  BY <1>4, HeadersFollow
<1>6. Done(s) = m + 1 /\ m \in Int
  BY <1>1
<1> HIDE DEF m
<1>7. CASE t.mode = "data"
  <2>1. PICK i \in Int : /\ FirstRead(s, s, ParamEnd, i) /\ Done(t) = i + 1 /\ t.pos = s.pos
                         /\ t.file = HeadersNameFile(s, i) /\ t.data = <<>>
    BY <1>7, ParamIs
  <2>2. /\ i \in Places(b, ParamEnd) /\ Done(s) < i
        /\ \A j \in Places(b, ParamEnd) : Done(s) < j => i <= j
    BY <1>1, <2>1 DEF FirstRead
  <2>3. i = m + 3
    <3>1. m + 3 <= i
      BY <1>5, <1>6, <2>2
    <3>2. i <= m + 3
      BY <1>1, <1>5, <1>6, <2>2
    <3> QED BY <1>6, <3>1, <3>2
  <2>4. Done(t) = m + 4
    BY <1>6, <2>1, <2>3
  <2>5. HeadersNameFile(s, i) <=> b[m + 2] = "f"
    <3>1. (Done(s) + 1)..(i - 1) = {m + 2}
      BY <1>6, <2>3
    <3> QED BY <1>1, <3>1 DEF HeadersNameFile
  <2>6. b[m + 2] = IF t.file THEN "f" ELSE "h"
    BY <1>5, <2>1, <2>5
  <2> DEFINE h == m + 4
  <2>7. h \in Int /\ h - 4 = m /\ h - 5 = Done(s) - 2 /\ h - 2 = m + 2 /\ h - 1 = m + 3 /\ h \in 5..Done(t)
    BY <1>5, <1>6, <2>4
  <2>8. Len(t.data) = 0 /\ Done(t) - h = 0
    BY <2>1, <2>4, <2>7, EmptySeq
  <2>9. Done(t) <= L - 2 /\ Done(t) + 1 = m + 5
    BY <1>1, <1>5, <1>6, <2>4
  <2>10. (\A k \in 1..Len(t.data) : t.data[k] = b[h + k]) /\ NoBoundary(t.data)
    BY <2>8 DEF NoBoundary
  <2> HIDE DEF h
  <2>11. b[h] = "n"
    BY <1>5 DEF h
  <2>12. InData(b, t, h)
    BY <1>2, <1>4, <1>5, <2>6, <2>7, <2>8, <2>9, <2>10, <2>11 DEF InData
  <2>13. AsSent(b, t)
    BY <1>2, <1>4, <1>7, <2>7, <2>12 DEF AsSent
  <2>14. t.pos + Done(t) > s.pos + Done(s)
    BY <1>1, <1>3, <1>6, <2>1, <2>4
  <2> QED BY <2>13, <2>14 DEF Moves
<1>8. CASE t.mode = "error"
  BY <1>2, <1>4, <1>8 DEF AsSent, Moves, Ended
<1>9. CASE t.mode = "param"
  <2>1. Done(t) = Done(s) /\ t.pos = Unread(s) /\ s.pos # L
    BY <1>9, ParamIs
  <2>2. AsSent(b, t)
    BY <1>2, <1>4, <1>6, <1>9, <2>1 DEF AsSent
  <2>3. t.pos + Done(t) > s.pos + Done(s)
    BY <1>1, <1>3, <2>1 DEF Unread
  <2> QED BY <2>2, <2>3 DEF Moves
<1>10. t.mode \in {"param", "error", "data"}
  BY ParamIs
<1> QED BY <1>7, <1>8, <1>9, <1>10

\* The part that ends in front of a mark at i was sent like this.
LEMMA PartSent ==
  ASSUME NEW b \in Seq(Chars), NEW win \in Nat \ {0}, NEW disk \in BOOLEAN,
         NEW s \in Parser(b, win, disk), Reading(s), NEW h \in Int, InData(b, s, h),
         NEW i \in (Done(s) + 2)..(s.pos - 1), b[i - 1] = "n",
         \A k \in (Done(s) + 1)..(i - 2) : b[k] # "x"
  PROVE  /\ PartTo(s, i) \in FormPartRead /\ NoBoundary(PartTo(s, i).data)
         /\ Told(Append(s.parts, PartTo(s, i)), b, i - 1)
<1> DEFINE D == Done(s)
           v == InFront(s.cache, i - D)
           d == s.data \o v
           p == PartTo(s, i)
<1>1. /\ s.body = b /\ s.pos \in 0..Len(b) /\ Len(b) \in Nat /\ D \in 0..s.pos
      /\ s.parts \in Seq(FormPartRead) /\ s.file \in BOOLEAN
      /\ s.data \in Seq(Chars) /\ s.cache \in Seq(Chars) /\ Len(s.cache) = s.pos - D
  BY ReadIsInt
<1>2. \A k \in 1..Len(s.cache) : s.cache[k] = b[D + k]
  BY <1>1 DEF Reading
<1>3. /\ h - 4 \in Places(b, BeginMark) /\ h \in 5..D /\ Told(s.parts, b, h - 5)
      /\ b[h - 2] = (IF s.file THEN "f" ELSE "h") /\ b[h - 1] = "n" /\ b[h] = "n"
      /\ Len(s.data) = D - h /\ (\A k \in 1..Len(s.data) : s.data[k] = b[h + k])
      /\ NoBoundary(s.data)
  BY DEF InData
<1> HIDE DEF D
<1>4. i - D \in 2..Len(s.cache) /\ i \in Int
  BY <1>1 DEF D
<1> DEFINE N == Len(s.cache)
           m == Len(s.data)
<1>4a. /\ D \in Int /\ h \in Int /\ i \in Int /\ N \in Int /\ m \in Int /\ i - D \in 2..N
       /\ m = D - h /\ m >= 0 /\ h >= 5
  BY <1>1, <1>3, <1>4
<1> HIDE DEF N, m
<1>5. /\ v \in Seq(Chars) /\ Len(v) = i - D - 2
      /\ \A k \in 1..(i - D - 2) : v[k] = s.cache[k]
  BY <1>1, <1>4, InFrontIs
<1> HIDE DEF v
<1>6. \A k \in 1..(i - D - 2) : v[k] = b[D + k] /\ v[k] # "x"
  <2> SUFFICES ASSUME NEW k \in 1..(i - D - 2) PROVE v[k] = b[D + k] /\ v[k] # "x"
    OBVIOUS
  <2>1. k \in 1..N /\ D + k \in (D + 1)..(i - 2)
    BY <1>4a
  <2>2. v[k] = b[D + k]
    BY <1>2, <1>5, <2>1 DEF N
  <2>3. b[D + k] # "x"
    BY <2>1 DEF D
  <2> QED BY <2>2, <2>3
<1>7. /\ d \in Seq(Chars) /\ Len(d) = i - h - 2
      /\ \A k \in 1..(i - h - 2) : d[k] = IF k <= D - h THEN s.data[k] ELSE v[k - (D - h)]
  <2>1. /\ d \in Seq(Chars) /\ Len(d) = Len(s.data) + Len(v)
        /\ \A k \in 1..(Len(s.data) + Len(v)) :
             d[k] = IF k <= Len(s.data) THEN s.data[k] ELSE v[k - Len(s.data)]
    BY <1>1, <1>5, ConcatIs
  <2>2. Len(s.data) + Len(v) = i - h - 2
    BY <1>1, <1>3, <1>4, <1>5
  <2> HIDE DEF d
  <2> QED BY <1>3, <2>1, <2>2
<1>8. p = [file |-> s.file, data |-> d]
  BY DEF PartTo, v, D
<1> HIDE DEF d, p
<1>9. \A k \in 1..(i - h - 2) : d[k] = b[h + k] /\ d[k] # "x"
  <2> SUFFICES ASSUME NEW k \in 1..(i - h - 2) PROVE d[k] = b[h + k] /\ d[k] # "x"
    OBVIOUS
  <2>1. CASE k <= D - h
    <3>1. k \in 1..m
      BY <1>4a, <2>1
    <3>2. d[k] = s.data[k]
      BY <1>7, <2>1
    <3> QED BY <1>3, <3>1, <3>2 DEF NoBoundary, m
  <2>2. CASE k > D - h
    <3>1. ~(k <= D - h) /\ k - (D - h) \in 1..(i - D - 2) /\ D + (k - (D - h)) = h + k
      BY <1>4a, <2>2
    <3>2. d[k] = v[k - (D - h)]
      BY <1>7, <3>1
    <3> QED BY <1>6, <3>1, <3>2
  <2> QED BY <1>4a, <2>1, <2>2
<1>10. p \in FormPartRead /\ p.file = s.file /\ p.data = d
  BY <1>1, <1>7, <1>8 DEF FormPartRead
<1>11. NoBoundary(p.data)
  BY <1>7, <1>9, <1>10 DEF NoBoundary
<1> DEFINE e == h - 5
<1>12. /\ e \in Nat /\ e + 1 = h - 4 /\ e + 2 = (h - 4) + 1 /\ e + 3 = h - 2 /\ e + 4 = h - 1
       /\ e + 5 = h /\ e + 6 + Len(p.data) = i - 1
  <2>1. Len(p.data) = i - h - 2
    BY <1>7, <1>10
  <2> QED BY <1>4a, <2>1
<1>13. Told(s.parts, b, e)
  BY <1>3
<1> HIDE DEF e
<1>14. b[e + 1] = "x" /\ b[e + 2] = "n"
  BY <1>3, <1>12, MarksAre
<1>15. b[e + 3] = (IF p.file THEN "f" ELSE "h") /\ b[e + 4] = "n" /\ b[e + 5] = "n"
  BY <1>3, <1>10, <1>12
<1>16. b[e + 6 + Len(p.data)] = "n"
  BY <1>12
<1>17. \A k \in 1..Len(p.data) : b[e + 5 + k] = p.data[k]
  BY <1>7, <1>9, <1>10, <1>12
<1>18. Told(Append(s.parts, p), b, e + 6 + Len(p.data))
  BY <1>1, <1>10, <1>12, <1>13, <1>14, <1>15, <1>16, <1>17, OneMoreTold
<1> QED BY <1>10, <1>11, <1>12, <1>18 DEF p

\* A part without a boundary in its data behind others without.
LEMMA PartsFree ==
  ASSUME NEW parts \in Seq(FormPartRead), NEW p \in FormPartRead, NoBoundary(p.data),
         \A n \in 1..Len(parts) : NoBoundary(parts[n].data)
  PROVE  \A n \in 1..Len(Append(parts, p)) : NoBoundary(Append(parts, p)[n].data)
<1> DEFINE q == Append(parts, p)
<1>1. Len(q) = Len(parts) + 1 /\ Len(parts) \in Nat /\ q[Len(parts) + 1] = p
  OBVIOUS
<1>2. \A n \in 1..Len(parts) : q[n] = parts[n]
  OBVIOUS
<1> HIDE DEF q
<1>3. \A n \in 1..Len(q) : NoBoundary(q[n].data)
  <2> SUFFICES ASSUME NEW n \in 1..Len(q) PROVE NoBoundary(q[n].data)
    OBVIOUS
  <2>1. CASE n = Len(parts) + 1
    BY <1>1, <2>1
  <2>2. CASE n \in 1..Len(parts)
    BY <1>2, <2>2
  <2> QED BY <1>1, <2>1, <2>2
<1> QED BY <1>3 DEF q

\* DataStep finds the mark behind the data, or reads on and keeps what it has read.
LEMMA DataSent ==
  ASSUME NEW b \in Seq(Chars), NEW win \in Nat \ {0}, NEW disk \in BOOLEAN,
         NEW s \in Parser(b, win, disk), Reading(s), AsSent(b, s), s.mode = "data",
         Shaped(b), Complete(b), ~MarkCut(b, win)
  PROVE  AsSent(b, Step(s)) /\ Moves(s, Step(s))
<1> DEFINE t == Step(s)
           L == Len(b)
           D == Done(s)
<1>1. /\ s.body = b /\ s.pos \in 0..L /\ L \in Nat /\ D \in 0..s.pos /\ s.window = win
      /\ s.parts \in Seq(FormPartRead)
      /\ s.data \in Seq(Chars) /\ s.cache \in Seq(Chars) /\ Len(s.cache) = s.pos - D
  BY ReadIsInt
<1>2. t \in Parser(b, win, disk) /\ Reading(t)
  BY DataIs
<1>3. t.pos \in 0..L /\ Done(t) \in 0..t.pos
  BY <1>2, ReadIsInt
<1>4. PICK h \in Int : InData(b, s, h)
  BY DEF AsSent
<1>5. \A n \in 1..Len(s.parts) : NoBoundary(s.parts[n].data)
  BY DEF AsSent
<1>6. /\ h \in 5..D /\ D <= L - 2 /\ b[D + 1] # "x"
  BY <1>4 DEF InData
<1>7. /\ L - 1 \in Places(b, EndMark) /\ b[L - 1] = "x" /\ b[L] = "-"
      /\ \A i \in Places(b, EndMark) : i = L - 1
  BY EndIsLast
<1>8. ASSUME NEW i \in Int, NoneRead(s, s, BeginMark) \/ \A j \in Places(b, BeginMark) : D < j => i <= j,
             NEW k \in (D + 1)..(i - 2), i < s.pos
      PROVE  b[k] # "x"
  <2> SUFFICES ASSUME b[k] = "x" PROVE FALSE
    OBVIOUS
  <2>1. k \in 1..(L - 1) /\ k + 1 # L /\ k < i /\ k < s.pos /\ D < k
    BY <1>1, <1>8
  <2>2. b[k + 1] = "n"
    BY <2>1 DEF Shaped
  <2>3. k \in Places(b, BeginMark)
    BY <2>1, <2>2, MarksAre
  <2>4. ~NoneRead(s, s, BeginMark)
    BY <1>1, <2>1, <2>3 DEF NoneRead
  <2>5. i <= k
    BY <1>8, <2>1, <2>3, <2>4
  <2> QED BY <2>1, <2>5
<1>9. ASSUME NEW i \in Int, D < i, i < s.pos, b[i] = "x"
      PROVE  i \in (D + 2)..(s.pos - 1) /\ b[i - 1] = "n"
  <2>1. i # D + 1
    BY <1>6, <1>9
  <2>2. i \in 1..L /\ i # 1
    BY <1>1, <1>6, <1>9
  <2>3. b[i - 1] = "n"
    BY <1>9, <2>2 DEF Shaped
  <2> QED BY <1>1, <1>9, <2>1, <2>3
<1>10. CASE t.mode = "begin"
  <2>1. PICK i \in Int : /\ FirstRead(s, s, BeginMark, i) /\ Done(t) = i - 1 /\ t.pos = s.pos
                         /\ t.parts = Append(s.parts, PartTo(s, i))
    BY <1>10, DataIs
  <2>2. /\ i \in Places(b, BeginMark) /\ D < i /\ i < s.pos
        /\ \A j \in Places(b, BeginMark) : D < j => i <= j
    BY <1>1, <2>1 DEF FirstRead
  <2>3. b[i] = "x"
    BY <2>2, MarksAre
  <2>4. i \in (D + 2)..(s.pos - 1) /\ b[i - 1] = "n"
    BY <1>9, <2>2, <2>3
  <2>5. \A k \in (D + 1)..(i - 2) : b[k] # "x"
    BY <1>8, <2>2
  <2>6. /\ PartTo(s, i) \in FormPartRead /\ NoBoundary(PartTo(s, i).data)
        /\ Told(Append(s.parts, PartTo(s, i)), b, i - 1)
    BY <1>4, <2>4, <2>5, PartSent
  <2>7. \A n \in 1..Len(t.parts) : NoBoundary(t.parts[n].data)
    BY <1>1, <1>5, <2>1, <2>6, PartsFree
  <2>8. Told(t.parts, b, Done(t)) /\ Done(t) + 1 = i
    BY <2>1, <2>6
  <2>9. AsSent(b, t)
    BY <1>10, <2>2, <2>7, <2>8 DEF AsSent
  <2>10. t.pos + Done(t) > s.pos + D
    BY <1>1, <2>1, <2>4
  <2> QED BY <2>9, <2>10 DEF Moves
<1>11. CASE t.mode = "over"
  <2>1. PICK i \in Int : /\ NoneRead(s, s, BeginMark) /\ FirstRead(s, s, EndMark, i)
                         /\ t.parts = Append(s.parts, PartTo(s, i))
    BY <1>11, DataIs
  <2>2. i \in Places(b, EndMark) /\ D < i /\ i < s.pos
    BY <1>1, <2>1 DEF FirstRead
  <2>3. b[i] = "x" /\ i = L - 1
    BY <1>7, <2>2
  <2>4. i \in (D + 2)..(s.pos - 1) /\ b[i - 1] = "n"
    BY <1>9, <2>2, <2>3
  <2>5. \A k \in (D + 1)..(i - 2) : b[k] # "x"
    BY <1>8, <2>1, <2>2
  <2>6. /\ PartTo(s, i) \in FormPartRead /\ NoBoundary(PartTo(s, i).data)
        /\ Told(Append(s.parts, PartTo(s, i)), b, i - 1)
    BY <1>4, <2>4, <2>5, PartSent
  <2>7. \A n \in 1..Len(t.parts) : NoBoundary(t.parts[n].data)
    BY <1>1, <1>5, <2>1, <2>6, PartsFree
  <2>8. Told(t.parts, b, L - 2) /\ t.parts \in Seq(FormPartRead) /\ L >= 2
    <3>1. i - 1 = L - 2
      BY <1>1, <2>3
    <3> QED BY <1>1, <1>6, <2>1, <2>6, <3>1
  <2>9. Encode(t.parts) = b
    BY <1>1, <1>7, <2>8, AllTold
  <2> QED BY <1>11, <2>7, <2>9 DEF AsSent, Moves, Ended
<1>12. ASSUME NoneRead(s, s, EndMark) PROVE s.pos < L
  <2>1. D < L - 1
    BY <1>1, <1>6
  <2>2. ~(L - 1 < s.pos)
    BY <1>1, <1>7, <1>12, <2>1 DEF NoneRead
  <2> QED BY <1>1, <2>2
<1>13. CASE t.mode = "error"
  <2>1. NoneRead(s, s, EndMark) /\ s.outer = L
    BY <1>13, DataIs
  <2>2. s.outer <= s.pos
    BY ReadIsInt
  <2> QED BY <1>1, <1>12, <2>1, <2>2
<1>14. CASE t.mode = "data"
  <2>1. /\ NoneRead(s, s, BeginMark) /\ NoneRead(s, s, EndMark) /\ t.parts = s.parts
        /\ t.file = s.file /\ t.data = s.data \o s.cache /\ Done(t) = s.pos /\ t.pos = Unread(s)
    BY <1>14, DataModes
  <2> DEFINE q == s.pos
  <2>2. q < L /\ q \in 5..(L - 1) /\ D <= q
    BY <1>1, <1>6, <1>12, <2>1
  <2>3. q % win = 0
    BY <1>1, <2>2 DEF Reading
  <2>4. q \in 2..(L - 1)
    BY <2>2
  <2>5. b[q] # "x" /\ b[q + 1] # "x"
    BY <2>3, <2>4, NotCut
  <2>6. Done(t) = q /\ q <= L - 2
    BY <1>1, <1>7, <2>1, <2>2, <2>5
  <2>7. \A k \in (D + 1)..q : b[k] # "x"
    <3> SUFFICES ASSUME NEW k \in (D + 1)..q, b[k] = "x" PROVE FALSE
      OBVIOUS
    <3>1. k # q
      BY <2>5
    <3>2. k \in 1..(L - 1) /\ k < q /\ D < k /\ k + 1 # L
      BY <1>1, <2>2, <2>6, <3>1
    <3>3. b[k + 1] = "n"
      BY <3>2 DEF Shaped
    <3>4. k \in Places(b, BeginMark)
      BY <3>2, <3>3, MarksAre
    <3> QED BY <1>1, <2>1, <3>2, <3>4 DEF NoneRead
  <2> DEFINE d == s.data \o s.cache
  <2>8. /\ h - 4 \in Places(b, BeginMark) /\ Told(s.parts, b, h - 5)
        /\ b[h - 2] = (IF s.file THEN "f" ELSE "h") /\ b[h - 1] = "n" /\ b[h] = "n"
        /\ Len(s.data) = D - h /\ (\A k \in 1..Len(s.data) : s.data[k] = b[h + k])
        /\ NoBoundary(s.data)
    BY <1>4 DEF InData
  <2>9. /\ d \in Seq(Chars) /\ Len(d) = q - h
        /\ \A k \in 1..(q - h) : d[k] = IF k <= D - h THEN s.data[k] ELSE s.cache[k - (D - h)]
    <3>1. /\ d \in Seq(Chars) /\ Len(d) = Len(s.data) + Len(s.cache)
          /\ \A k \in 1..(Len(s.data) + Len(s.cache)) :
               d[k] = IF k <= Len(s.data) THEN s.data[k] ELSE s.cache[k - Len(s.data)]
      BY <1>1, ConcatIs
    <3>2. Len(s.data) + Len(s.cache) = q - h
      <4>1. Len(s.data) = D - h /\ Len(s.cache) = q - D
        BY <1>1, <2>8
      <4>2. D \in Int /\ h \in Int /\ q \in Int
        BY <1>1
      <4> HIDE DEF D, q
      <4> QED BY <4>1, <4>2
    <3> HIDE DEF d
    <3> QED BY <2>8, <3>1, <3>2
  <2>10. \A k \in 1..Len(s.cache) : s.cache[k] = b[D + k]
    BY <1>1 DEF Reading
  <2> DEFINE N == Len(s.cache)
             m == Len(s.data)
  <2>10a. /\ D \in Int /\ h \in Int /\ q \in Int /\ N = q - D /\ m = D - h /\ m >= 0
         /\ D <= q
    BY <1>1, <1>6, <2>2, <2>8
  <2> HIDE DEF d, D, q, N, m
  <2>11. \A k \in 1..(q - h) : d[k] = b[h + k] /\ d[k] # "x"
    <3> SUFFICES ASSUME NEW k \in 1..(q - h) PROVE d[k] = b[h + k] /\ d[k] # "x"
      OBVIOUS
    <3>1. CASE k <= D - h
      <4>1. k \in 1..m
        BY <2>10a, <3>1
      <4>2. d[k] = s.data[k]
        BY <2>9, <3>1
      <4> QED BY <2>8, <4>1, <4>2 DEF NoBoundary, m
    <3>2. CASE k > D - h
      <4>1. /\ k - (D - h) \in 1..N /\ D + (k - (D - h)) = h + k
            /\ h + k \in (D + 1)..q /\ ~(k <= D - h)
        BY <2>10a, <3>2
      <4>2. d[k] = s.cache[k - (D - h)]
        BY <2>9, <4>1
      <4>3. d[k] = b[h + k]
        BY <2>10, <4>1, <4>2 DEF N
      <4> QED BY <2>7, <4>1, <4>3
    <3> QED BY <2>10a, <3>1, <3>2
  <2> USE DEF q
  <2>12. t.data = d /\ NoBoundary(d) /\ (\A k \in 1..Len(d) : d[k] = b[h + k]) /\ Len(d) = Done(t) - h
    BY <2>1, <2>6, <2>9, <2>11 DEF NoBoundary, d
  <2>13. h \in 5..Done(t)
    BY <1>1, <1>6, <2>2, <2>6
  <2>14. Done(t) <= L - 2 /\ b[Done(t) + 1] # "x"
    BY <2>5, <2>6
  <2>15. InData(b, t, h)
    BY <2>1, <2>8, <2>12, <2>13, <2>14 DEF InData
  <2>16. AsSent(b, t)
    BY <1>5, <1>14, <2>1, <2>15 DEF AsSent
  <2>17. t.pos > s.pos
    BY <1>1, <2>1, <2>2 DEF Unread
  <2>18. t.pos + Done(t) > s.pos + D
    BY <1>1, <1>3, <2>1, <2>2, <2>17
  <2> QED BY <2>16, <2>18 DEF Moves, D
<1>15. t.mode \in {"begin", "over", "error", "data"}
  BY DataModes
<1> QED BY <1>10, <1>11, <1>13, <1>14, <1>15

\* How the text of some parts looks: nothing, or a boundary at the beginning and an end of
\* line at the end; and every boundary begins a part.
PartsText(t) ==
  /\ t \in Seq(Chars)
  /\ Len(t) # 0 => Len(t) >= 6 /\ t[1] = "x" /\ t[2] = "n" /\ t[Len(t)] = "n"
  /\ \A i \in 1..Len(t) : t[i] = "x" =>
       /\ i + 5 <= Len(t) /\ t[i + 1] = "n" /\ t[i + 2] \in {"f", "h"}
       /\ t[i + 3] = "n" /\ t[i + 4] = "n" /\ t[i + 5] # "x"
       /\ i = 1 \/ t[i - 1] = "n"

\* A part without a boundary in its data has one boundary, its first character.
LEMMA OnePartText ==
  ASSUME NEW p \in FormPart
  PROVE  LET e == Encoded(p) IN
         /\ p \in FormPartRead /\ PartsText(e) /\ Len(e) >= 6
         /\ \A i \in 1..Len(e) : e[i] = "x" => i = 1
<1> DEFINE e == Encoded(p)
           m == Len(p.data)
<1>1. p \in FormPartRead
  <2>1. Seq(Chars \ {"x"}) \subseteq Seq(Chars)
    OBVIOUS
  <2> QED BY <2>1 DEF FormPart, FormPartRead
<1>2. m \in Nat /\ \A k \in 1..m : p.data[k] # "x"
  BY DEF FormPart
<1>3. /\ e \in Seq(Chars) /\ Len(e) = m + 6 /\ e[1] = "x" /\ e[2] = "n"
      /\ e[3] = IF p.file THEN "f" ELSE "h"
  BY <1>1, EncodedIs
<1>4. e[4] = "n" /\ e[5] = "n" /\ (\A k \in 1..m : e[k + 5] = p.data[k]) /\ e[m + 6] = "n"
  BY <1>1, EncodedIs
<1> HIDE DEF e, m
<1>5. \A k \in 6..(m + 6) : e[k] # "x"
  <2> SUFFICES ASSUME NEW k \in 6..(m + 6) PROVE e[k] # "x"
    OBVIOUS
  <2>1. CASE k = m + 6
    BY <1>4, <2>1
  <2>2. CASE k # m + 6
    <3>1. k - 5 \in 1..m /\ (k - 5) + 5 = k
      BY <1>2, <2>2
    <3>2. e[k] = p.data[k - 5]
      BY <1>4, <3>1
    <3> QED BY <1>2, <3>1, <3>2
  <2> QED BY <2>1, <2>2
<1>6. \A i \in 1..Len(e) : e[i] = "x" => i = 1
  BY <1>2, <1>3, <1>4, <1>5
<1>7. e[6] # "x" /\ 1 + 5 <= Len(e) /\ e[3] \in {"f", "h"}
  BY <1>2, <1>3, <1>5
<1>8. e[Len(e)] = "n" /\ Len(e) >= 6
  BY <1>2, <1>3, <1>4
<1>9. PartsText(e)
  BY <1>3, <1>4, <1>6, <1>7, <1>8 DEF PartsText
<1> QED BY <1>1, <1>6, <1>8, <1>9 DEF e

\* A part behind some others.
LEMMA MorePartsText ==
  ASSUME NEW t, PartsText(t), NEW e, PartsText(e), Len(e) >= 6,
         \A i \in 1..Len(e) : e[i] = "x" => i = 1
  PROVE  PartsText(t \o e)
<1> DEFINE u == t \o e
           a == Len(t)
           m == Len(e)
<1>1. t \in Seq(Chars) /\ e \in Seq(Chars) /\ a \in Nat /\ m \in Nat /\ m >= 6
  BY DEF PartsText
<1>2. /\ u \in Seq(Chars) /\ Len(u) = a + m
      /\ \A i \in 1..(a + m) : u[i] = IF i <= a THEN t[i] ELSE e[i - a]
  BY <1>1, ConcatIs
<1>3. /\ a # 0 => a >= 6 /\ t[1] = "x" /\ t[2] = "n" /\ t[a] = "n"
      /\ e[1] = "x" /\ e[2] = "n" /\ e[m] = "n"
  BY <1>1 DEF PartsText
<1>4. /\ e[2] = "n" /\ e[3] \in {"f", "h"} /\ e[4] = "n" /\ e[5] = "n" /\ e[6] # "x"
  <2>1. 1 \in 1..Len(e)
    BY <1>1
  <2>2. e[1 + 1] = "n" /\ e[1 + 2] \in {"f", "h"} /\ e[1 + 3] = "n" /\ e[1 + 4] = "n" /\ e[1 + 5] # "x"
    BY <1>3, <2>1 DEF PartsText
  <2> QED BY <2>2
<1> HIDE DEF u, a, m
<1>5. \A i \in 1..m : u[a + i] = e[i]
  <2> SUFFICES ASSUME NEW i \in 1..m PROVE u[a + i] = e[i]
    OBVIOUS
  <2>1. a + i \in 1..(a + m) /\ ~(a + i <= a) /\ (a + i) - a = i
    BY <1>1
  <2> QED BY <1>2, <2>1
<1>6. \A i \in 1..a : u[i] = t[i]
  BY <1>1, <1>2
<1>7. u[1] = "x" /\ u[2] = "n" /\ u[a + m] = "n"
  <2>1. u[a + 1] = "x" /\ u[a + 2] = "n" /\ u[a + m] = "n"
    BY <1>1, <1>3, <1>5
  <2>2. CASE a = 0
    BY <2>1, <2>2
  <2>3. CASE a # 0
    BY <1>1, <1>3, <1>6, <2>1, <2>3
  <2> QED BY <2>2, <2>3
<1>8. ASSUME NEW i \in 1..(a + m), u[i] = "x"
      PROVE  /\ i + 5 <= a + m /\ u[i + 1] = "n" /\ u[i + 2] \in {"f", "h"}
             /\ u[i + 3] = "n" /\ u[i + 4] = "n" /\ u[i + 5] # "x"
             /\ i = 1 \/ u[i - 1] = "n"
  <2>1. CASE i <= a
    <3>1. t[i] = "x" /\ i \in 1..Len(t)
      BY <1>1, <1>6, <1>8, <2>1 DEF a
    <3>2. /\ i + 5 <= a /\ t[i + 1] = "n" /\ t[i + 2] \in {"f", "h"}
          /\ t[i + 3] = "n" /\ t[i + 4] = "n" /\ t[i + 5] # "x"
          /\ i = 1 \/ t[i - 1] = "n"
      BY <3>1 DEF PartsText, a
    <3>3. /\ i + 1 \in 1..a /\ i + 2 \in 1..a /\ i + 3 \in 1..a /\ i + 4 \in 1..a
          /\ i + 5 \in 1..a /\ (i # 1 => i - 1 \in 1..a) /\ i + 5 <= a + m
      BY <1>1, <3>2
    <3> QED BY <1>6, <3>2, <3>3
  <2>2. CASE i > a
    <3>1. i - a \in 1..m /\ a + (i - a) = i
      BY <1>1, <2>2
    <3>2. e[i - a] = "x"
      BY <1>5, <1>8, <3>1
    <3>3. i - a = 1
      BY <3>1, <3>2 DEF m
    <3>4. i + 1 = a + 2 /\ i + 2 = a + 3 /\ i + 3 = a + 4 /\ i + 4 = a + 5 /\ i + 5 = a + 6 /\ i - 1 = a
      BY <1>1, <3>3
    <3>5. 2 \in 1..m /\ 3 \in 1..m /\ 4 \in 1..m /\ 5 \in 1..m /\ 6 \in 1..m
      BY <1>1
    <3>6. i = 1 \/ u[i - 1] = "n"
      <4>1. a # 0 => a \in 1..a
        BY <1>1
      <4>2. a = 0 => i = 1
        BY <3>3
      <4>3. a # 0 => u[a] = "n"
        BY <1>3, <1>6, <4>1
      <4> QED BY <3>4, <4>2, <4>3
    <3>7. i + 5 <= a + m
      BY <1>1, <3>4
    <3>8. /\ u[a + 2] = e[2] /\ u[a + 3] = e[3] /\ u[a + 4] = e[4] /\ u[a + 5] = e[5]
          /\ u[a + 6] = e[6]
      BY <1>5, <3>5
    <3> QED BY <1>4, <3>4, <3>6, <3>7, <3>8
  <2> QED BY <1>1, <2>1, <2>2
<1>9. Len(u) >= 6
  BY <1>1, <1>2
<1>10. PartsText(u)
  BY <1>2, <1>7, <1>8, <1>9 DEF PartsText
<1> QED BY <1>10 DEF u

\* The texts of a form that a browser sends.
Sound(form, g) ==
  Texts(form, g) /\ \A n \in 0..Len(form) : PartsText(g[n]) /\ (n # 0 => Len(g[n]) >= 6)

\* A form that a browser sends has such texts.
LEMMA SoundTexts ==
  ASSUME NEW form \in Seq(FormPart)
  PROVE  form \in Seq(FormPartRead) /\ \E g : Sound(form, g)
<1> DEFINE N == Len(form)
           Goes(f, k) == f = [n \in 0..k |-> IF n = 0 THEN <<>> ELSE f[n - 1] \o Encoded(form[n])]
           Good(f, k) == \A n \in 0..k : PartsText(f[n]) /\ (n # 0 => Len(f[n]) >= 6)
           Made(k) == \E f : Goes(f, k) /\ Good(f, k)
<1>1. N \in Nat /\ \A n \in 1..N : form[n] \in FormPart
  OBVIOUS
<1>2. Made(0)
  <2> DEFINE g == [n \in 0..0 |-> <<>>]
  <2>1. \A n \in 0..0 : g[n] = IF n = 0 THEN <<>> ELSE g[n - 1] \o Encoded(form[n])
    OBVIOUS
  <2>2. g = [n \in 0..0 |-> g[n]]
    OBVIOUS
  <2>3. <<>> \in Seq(Chars) /\ Len(<<>>) = 0
    BY EmptySeq
  <2>4. PartsText(<<>>)
    BY <2>3 DEF PartsText
  <2>5. \A n \in 0..0 : g[n] = <<>>
    OBVIOUS
  <2> HIDE DEF g
  <2>6. Goes(g, 0) /\ Good(g, 0)
    BY <2>1, <2>2, <2>4, <2>5
  <2> QED BY <2>6
<1>3. ASSUME NEW k \in Nat, k < N, Made(k) PROVE Made(k + 1)
  <2>1. PICK f : Goes(f, k) /\ Good(f, k)
    BY <1>3
  <2> DEFINE t == f[k] \o Encoded(form[k + 1])
             g == [n \in 0..(k + 1) |-> IF n = k + 1 THEN t ELSE f[n]]
  <2>2. PartsText(t) /\ Len(t) >= 6
    <3>1. PICK p \in FormPart : p = form[k + 1]
      BY <1>1, <1>3
    <3>2. PICK e : e = Encoded(p)
      OBVIOUS
    <3>3. PartsText(e) /\ Len(e) >= 6 /\ \A i \in 1..Len(e) : e[i] = "x" => i = 1
      BY <3>2, OnePartText
    <3>4. PICK v : v = f[k] /\ PartsText(v)
      BY <2>1
    <3>5. PartsText(v \o e)
      BY <3>3, <3>4, MorePartsText
    <3>6. Len(v \o e) >= 6
      <4>1. v \in Seq(Chars) /\ e \in Seq(Chars)
        BY <3>3, <3>4 DEF PartsText
      <4>2. Len(v \o e) = Len(v) + Len(e) /\ Len(v) \in Nat /\ Len(e) \in Nat
        BY <4>1, ConcatIs
      <4> QED BY <3>3, <4>2
    <3> QED BY <3>1, <3>2, <3>4, <3>5, <3>6
  <2>3. \A n \in 0..k : f[n] = IF n = 0 THEN <<>> ELSE f[n - 1] \o Encoded(form[n])
    BY <2>1
  <2>4. \A n \in 0..(k + 1) : g[n] = IF n = 0 THEN <<>> ELSE g[n - 1] \o Encoded(form[n])
    <3> SUFFICES ASSUME NEW n \in 0..(k + 1)
                 PROVE  g[n] = IF n = 0 THEN <<>> ELSE g[n - 1] \o Encoded(form[n])
      OBVIOUS
    <3>1. CASE n = k + 1
      <4>1. n # 0 /\ n - 1 = k /\ k \in 0..(k + 1) /\ k # k + 1
        BY <3>1
      <4>2. g[n] = t /\ g[n - 1] = f[k]
        BY <3>1, <4>1
      <4> QED BY <3>1, <4>1, <4>2
    <3>2. CASE n # k + 1
      <4>1. n \in 0..k
        BY <3>2
      <4>2. g[n] = f[n]
        BY <3>2
      <4>3. n # 0 => g[n - 1] = f[n - 1]
        BY <4>1
      <4> HIDE DEF g
      <4> QED BY <2>3, <4>1, <4>2, <4>3
    <3> QED BY <3>1, <3>2
  <2>5. g = [n \in 0..(k + 1) |-> g[n]]
    OBVIOUS
  <2>6. Good(g, k + 1)
    <3> SUFFICES ASSUME NEW n \in 0..(k + 1) PROVE PartsText(g[n]) /\ (n # 0 => Len(g[n]) >= 6)
      OBVIOUS
    <3>1. CASE n = k + 1
      <4>1. g[n] = t
        BY <3>1
      <4> QED BY <2>2, <4>1
    <3>2. CASE n # k + 1
      <4>1. n \in 0..k /\ g[n] = f[n]
        BY <3>2
      <4> HIDE DEF g
      <4> QED BY <2>1, <4>1
    <3> QED BY <3>1, <3>2
  <2> HIDE DEF g, Good
  <2>7. Goes(g, k + 1)
    BY <2>4, <2>5
  <2> QED BY <2>6, <2>7
<1> HIDE DEF N
<1>4. Made(N)
  <2> HIDE DEF Made
  <2> DEFINE U == {k \in Nat : k <= N /\ ~Made(k)}
  <2> SUFFICES ASSUME U # {} PROVE FALSE
    BY <1>1
  <2>1. PICK k \in U : \A m \in U : k <= m
    BY LeastNat
  <2>2. k \in Nat /\ k # 0 /\ k <= N
    BY <1>2
  <2>3. k - 1 \in Nat /\ k - 1 \notin U /\ (k - 1) + 1 = k /\ k - 1 < N
    BY <1>1, <2>1, <2>2
  <2>4. Made(k - 1)
    BY <1>1, <2>3
  <2>5. Made((k - 1) + 1)
    BY <1>3, <2>3, <2>4
  <2> QED BY <2>3, <2>5
<1>5. PICK g : Goes(g, N) /\ Good(g, N)
  BY <1>4
<1>6. Texts(form, g)
  BY <1>5 DEF Texts, N
<1>7. form \in Seq(FormPartRead)
  <2>1. FormPart \subseteq FormPartRead
    BY OnePartText
  <2> QED BY <2>1, SeqMonotonic
<1>8. Sound(form, g)
  BY <1>5, <1>6 DEF Sound, N
<1> QED BY <1>7, <1>8

\* What a browser sends is the text of some parts and the mark of the end.
LEMMA FormText ==
  ASSUME NEW form \in Seq(FormPart), form # <<>>
  PROVE  \E t : PartsText(t) /\ Len(t) # 0 /\ Encode(form) = t \o EndMark
<1>1. PICK g : form \in Seq(FormPartRead) /\ Sound(form, g)
  BY SoundTexts
<1>2. Len(form) \in Nat /\ Len(form) # 0
  BY EmptySeq
<1>3. Encode(form) = g[Len(form)] \o EndMark
  BY <1>1, OneText DEF Sound
<1>4. PartsText(g[Len(form)]) /\ Len(g[Len(form)]) >= 6
  BY <1>1, <1>2 DEF Sound
<1>5. Len(g[Len(form)]) # 0
  BY <1>4
<1> QED BY <1>3, <1>4, <1>5

\* What arrives of it has the shape that the parser relies on.
LEMMA BrowserShaped ==
  ASSUME NEW b, FromBrowser(b)
  PROVE  b \in Seq(Chars) /\ Shaped(b)
<1>1. PICK form \in Seq(FormPart) \ {<<>>} : Arrives(b, form)
  BY DEF FromBrowser
<1>2. PICK t : PartsText(t) /\ Len(t) # 0 /\ Encode(form) = t \o EndMark
  BY <1>1, FormText
<1> DEFINE a == Len(t)
           u == t \o EndMark
<1>3. t \in Seq(Chars) /\ a \in Nat /\ a >= 6 /\ t[1] = "x" /\ t[2] = "n" /\ t[a] = "n"
  BY <1>2 DEF PartsText
<1>4. /\ EndMark \in Seq(Chars) /\ Len(EndMark) = 2 /\ EndMark[1] = "x" /\ EndMark[2] = "-"
  BY DEF EndMark, Chars
<1>5. /\ u \in Seq(Chars) /\ Len(u) = a + 2
      /\ \A i \in 1..(a + 2) : u[i] = IF i <= a THEN t[i] ELSE EndMark[i - a]
  <2>1. /\ u \in Seq(Chars) /\ Len(u) = Len(t) + Len(EndMark)
        /\ \A i \in 1..(Len(t) + Len(EndMark)) : u[i] = IF i <= Len(t) THEN t[i] ELSE EndMark[i - Len(t)]
    BY <1>3, <1>4, ConcatIs
  <2> HIDE DEF u
  <2> QED BY <1>4, <2>1
<1> HIDE DEF u, a
<1>6. PICK n \in 0..(a + 2) : b = SubSeq(u, 1, n)
  BY <1>1, <1>2, <1>5 DEF Arrives, u
<1>7. b \in Seq(Chars) /\ Len(b) = n /\ \A i \in 1..n : b[i] = u[i]
  <2>1. n \in Int /\ \A i \in 1..n : u[i] \in Chars
    BY <1>3, <1>5, ElementOfSeq
  <2> QED BY <1>6, <2>1, SubSeqProperties
<1>8. u[a + 1] = "x" /\ u[a + 2] = "-"
  <2>1. a + 1 \in 1..(a + 2) /\ a + 2 \in 1..(a + 2) /\ ~(a + 1 <= a) /\ ~(a + 2 <= a)
        /\ (a + 1) - a = 1 /\ (a + 2) - a = 2
    BY <1>3
  <2> QED BY <1>4, <1>5, <2>1
<1>9. \A i \in 1..a : u[i] = t[i]
  BY <1>3, <1>5
<1>10. u[1] = "x" /\ u[2] = "n" /\ u[a] = "n"
  BY <1>3, <1>9
<1>11. ASSUME NEW i \in 1..a, u[i] = "x"
       PROVE  /\ i + 5 <= a /\ u[i + 1] = "n" /\ u[i + 2] \in {"f", "h"}
              /\ u[i + 3] = "n" /\ u[i + 4] = "n" /\ u[i + 5] # "x"
              /\ i = 1 \/ u[i - 1] = "n"
  <2>1. t[i] = "x" /\ i \in 1..Len(t)
    BY <1>9, <1>11 DEF a
  <2>2. /\ i + 5 <= a /\ t[i + 1] = "n" /\ t[i + 2] \in {"f", "h"}
        /\ t[i + 3] = "n" /\ t[i + 4] = "n" /\ t[i + 5] # "x"
        /\ i = 1 \/ t[i - 1] = "n"
    BY <1>2, <2>1 DEF PartsText, a
  <2>3. /\ i + 1 \in 1..a /\ i + 2 \in 1..a /\ i + 3 \in 1..a /\ i + 4 \in 1..a
        /\ i + 5 \in 1..a /\ (i # 1 => i - 1 \in 1..a)
    BY <1>3, <2>2
  <2> QED BY <1>9, <2>2, <2>3
<1>12. \A i \in 1..Len(b) : b[i] = "x" => i = 1 \/ b[i - 1] = "n"
  <2> SUFFICES ASSUME NEW i \in 1..n, u[i] = "x", i # 1 PROVE b[i - 1] = "n"
    BY <1>7
  <2>1. i - 1 \in 1..n /\ i \in 1..(a + 2) /\ i # a + 2
    BY <1>3, <1>6, <1>8
  <2>2. u[i - 1] = "n"
    <3>1. CASE i = a + 1
      BY <1>3, <1>10, <3>1
    <3>2. CASE i \in 1..a
      BY <1>11, <3>2
    <3> QED BY <1>3, <2>1, <3>1, <3>2
  <2> QED BY <1>7, <2>1, <2>2
<1>13. ASSUME NEW i \in 1..(Len(b) - 1), b[i] = "x"
       PROVE  b[i + 1] = "n" \/ (b[i + 1] = "-" /\ i + 1 = Len(b))
  <2>1. i \in 1..n /\ i + 1 \in 1..n /\ i \in 1..(a + 1) /\ u[i] = "x"
    BY <1>3, <1>6, <1>7, <1>13
  <2>2. CASE i = a + 1
    <3>1. i + 1 = a + 2 /\ i + 1 = n
      BY <1>3, <1>6, <2>1, <2>2
    <3>2. b[i + 1] = "-"
      BY <1>7, <1>8, <2>1, <3>1
    <3> QED BY <1>7, <3>1, <3>2
  <2>3. CASE i \in 1..a
    BY <1>7, <1>11, <2>1, <2>3
  <2> QED BY <1>3, <2>1, <2>2, <2>3
<1>14. ASSUME NEW i \in Places(b, BeginMark)
       PROVE  /\ i + 2 <= Len(b) => b[i + 2] \in {"f", "h"}
              /\ i + 3 <= Len(b) => b[i + 3] = "n"
              /\ i + 4 <= Len(b) => b[i + 4] = "n"
              /\ i + 5 <= Len(b) => b[i + 5] # "x"
  <2>1. i \in 1..(n - 1) /\ b[i] = "x" /\ b[i + 1] = "n"
    BY <1>7, MarksAre
  <2>2. i \in 1..n /\ i + 1 \in 1..n /\ u[i] = "x" /\ u[i + 1] = "n"
    BY <1>6, <1>7, <2>1
  <2>3. i # a + 1
    <3>1. (a + 1) + 1 = a + 2
      BY <1>3
    <3> QED BY <1>8, <2>2, <3>1
  <2>4. i \in 1..a
    BY <1>3, <1>6, <2>1, <2>3
  <2>5. /\ u[i + 2] \in {"f", "h"} /\ u[i + 3] = "n" /\ u[i + 4] = "n" /\ u[i + 5] # "x"
    BY <1>11, <2>2, <2>4
  <2>6. /\ i + 2 <= n => i + 2 \in 1..n
        /\ i + 3 <= n => i + 3 \in 1..n
        /\ i + 4 <= n => i + 4 \in 1..n
        /\ i + 5 <= n => i + 5 \in 1..n
    BY <2>2
  <2> QED BY <1>7, <2>5, <2>6
<1>15. (1 <= Len(b) => b[1] = "x") /\ (2 <= Len(b) => b[2] = "n")
  BY <1>7, <1>10
<1>16. Shaped(b)
  BY <1>12, <1>13, <1>14, <1>15 DEF Shaped
<1> QED BY <1>7, <1>16

\* The states the parser may be in after n turns.
After(b, win, disk, n) ==
  {s \in Parser(b, win, disk) :
     /\ Reading(s) /\ (s.mode = "over" => Complete(b))
     /\ Shaped(b) /\ Complete(b) /\ ~FilePart(b) => Unrefused(b, s)
     /\ Shaped(b) /\ Complete(b) /\ ~MarkCut(b, win) =>
          AsSent(b, s) /\ (Ended(s) \/ s.pos + Done(s) >= n)}

\* Before the first turn.
LEMMA StartAfter ==
  ASSUME NEW b \in Seq(Chars), NEW win \in Nat \ {0}, NEW disk \in BOOLEAN
  PROVE  Start(b, win, disk) \in After(b, win, disk, 0)
<1> DEFINE s == Start(b, win, disk)
<1>1. /\ s \in Parser(b, win, disk) /\ Reading(s) /\ s.mode = "begin" /\ Done(s) = 0
      /\ s.pos = 0 /\ s.parts = <<>>
  BY StartIs
<1> HIDE DEF s
<1>2. Shaped(b) /\ Complete(b) => 0 + 1 \in Places(b, BeginMark)
  BY EndIsLast
<1>3. Shaped(b) /\ Complete(b) => Unrefused(b, s)
  BY <1>1, <1>2 DEF Unrefused
<1>4. Len(<<>>) = 0
  BY EmptySeq
<1>5. \A n \in 1..Len(s.parts) : NoBoundary(s.parts[n].data)
  BY <1>1, <1>4
<1>6. Shaped(b) /\ Complete(b) => AsSent(b, s)
  BY <1>1, <1>2, <1>5, NothingTold DEF AsSent
<1>7. s.pos + Done(s) >= 0
  BY <1>1
<1> QED BY <1>1, <1>3, <1>6, <1>7 DEF After, s

\* One turn more.
LEMMA StepAfter ==
  ASSUME NEW b \in Seq(Chars), NEW win \in Nat \ {0}, NEW disk \in BOOLEAN, NEW n \in Nat,
         NEW s \in After(b, win, disk, n)
  PROVE  Step(s) \in After(b, win, disk, n + 1)
<1> DEFINE t == Step(s)
<1>1. s \in Parser(b, win, disk) /\ Reading(s) /\ (s.mode = "over" => Complete(b))
  BY DEF After
<1>2. t \in Parser(b, win, disk) /\ Reading(t) /\ (t.mode = "over" => Complete(b))
  BY <1>1, Stepped
<1>3. ASSUME Shaped(b), Complete(b), ~FilePart(b) PROVE Unrefused(b, t)
  <2>1. Unrefused(b, s)
    BY <1>3 DEF After
  <2> QED BY <1>1, <1>3, <2>1, StillUnrefused
<1>4. ASSUME Shaped(b), Complete(b), ~MarkCut(b, win)
      PROVE  AsSent(b, t) /\ (Ended(t) \/ t.pos + Done(t) >= n + 1)
  <2>1. AsSent(b, s) /\ (Ended(s) \/ s.pos + Done(s) >= n)
    BY <1>4 DEF After
  <2>2. s.mode \in {"begin", "param", "data", "over", "error"}
    BY <1>1 DEF Parser
  <2>3. CASE s.mode \in {"over", "error"}
    <3>1. t = s
      BY <2>3 DEF Step
    <3> QED BY <2>1, <2>3, <3>1 DEF Ended
  <2>4. CASE s.mode \in {"begin", "param", "data"}
    <3>1. AsSent(b, t) /\ Moves(s, t)
      BY <1>1, <1>4, <2>1, <2>4, BeginSent, ParamSent, DataSent
    <3>2. s.pos + Done(s) >= n
      BY <2>1, <2>4 DEF Ended
    <3>3. s.pos \in Int /\ Done(s) \in Int /\ t.pos \in Int /\ Done(t) \in Int
      <4>1. \A r \in Parser(b, win, disk) : Reading(r) => r.pos \in Int /\ Done(r) \in Int
        BY ReadIsInt
      <4> QED BY <1>1, <1>2, <4>1
    <3> QED BY <3>1, <3>2, <3>3 DEF Moves
  <2> QED BY <2>2, <2>3, <2>4
<1> QED BY <1>2, <1>3, <1>4 DEF After

\* The states the parser may be in after n turns, also when its request is gone by then.
Until(b, win, disk, n) ==
  After(b, win, disk, n) \cup {s \in Parser(b, win, disk) : s.mode = "error"}

\* A turn when the request is gone is one of the others or the last one.
LEMMA LostStepIs ==
  ASSUME NEW b \in Seq(Chars), NEW win \in Nat \ {0}, NEW disk \in BOOLEAN,
         NEW s \in Parser(b, win, disk)
  PROVE  /\ Unfinished(s) \in Seq(FormPartRead)
         /\ \/ LostStep(s) = Step(s)
            \/ LostStep(s) \in Parser(b, win, disk) /\ LostStep(s).mode = "error"
<1>1. /\ s.parts \in Seq(FormPartRead) /\ s.file \in BOOLEAN
      /\ s.data \in Seq(Chars) /\ s.cache \in Seq(Chars)
  BY DEF Parser
<1>2. s.data \o s.cache \in Seq(Chars)
  BY <1>1, ConcatIs
<1>3. [file |-> s.file, data |-> s.data \o s.cache] \in FormPartRead
  BY <1>1, <1>2 DEF FormPartRead
<1>4. Unfinished(s) \in Seq(FormPartRead)
  BY <1>1, <1>3 DEF Unfinished
<1>5. Stop(s) \in Parser(b, win, disk) /\ Stop(s).mode = "error"
  BY DEF Stop, Parser
<1> DEFINE u == [s EXCEPT !.parts = Unfinished(s)]
<1>6. u \in Parser(b, win, disk)
  BY <1>4 DEF Parser
<1> HIDE DEF u
<1>7. Stop(u) \in Parser(b, win, disk) /\ Stop(u).mode = "error"
  BY <1>6 DEF Stop, Parser
<1>8. LostStep(s) \in {Step(s), Stop(s), Stop(u)}
  BY DEF LostStep, u
<1> QED BY <1>4, <1>5, <1>7, <1>8

\* One turn more, the request being there or not.
LEMMA TurnUntil ==
  ASSUME NEW b \in Seq(Chars), NEW win \in Nat \ {0}, NEW disk \in BOOLEAN, NEW m \in Nat,
         NEW n \in Nat, NEW s \in Until(b, win, disk, n)
  PROVE  Turn(s, m) \in Until(b, win, disk, n + 1)
<1>1. s \in Parser(b, win, disk)
  BY DEF Until, After
<1>2. Step(s) \in Until(b, win, disk, n + 1)
  <2>1. CASE s \in After(b, win, disk, n)
    BY <2>1, StepAfter DEF Until
  <2>2. CASE s.mode = "error"
    <3>1. Step(s) = s
      BY <2>2 DEF Step
    <3> QED BY <1>1, <2>2, <3>1 DEF Until
  <2> QED BY <2>1, <2>2 DEF Until
<1>3. LostStep(s) \in Until(b, win, disk, n + 1)
  BY <1>1, <1>2, LostStepIs DEF Until
<1> QED BY <1>2, <1>3 DEF Turn

\* What MultipartFormParser::parser makes of a body when its request may be gone once m
\* characters of it are read: of any body it takes only one that has the mark of an end; when
\* no window cuts a mark of one a browser sends, it comes to an end and, if it takes the form,
\* gives the parts that were sent.
LEMMA UntilIs ==
  ASSUME NEW b \in Seq(Chars), NEW win \in Nat \ {0}, NEW disk \in BOOLEAN, NEW m \in Nat
  PROVE  LET s == ParseUntil(b, win, disk, m) IN
         /\ s.parts \in Seq(FormPartRead) /\ Unfinished(s) \in Seq(FormPartRead)
         /\ s.mode = "over" => Complete(b)
         /\ Shaped(b) /\ Complete(b) /\ ~MarkCut(b, win) =>
              Ended(s) /\ (s.mode = "over" => SentAs(s.parts, b))
<1> DEFINE s == ParseUntil(b, win, disk, m)
           Q == [n \in Nat |-> Until(b, win, disk, n)]
           T == Turns(b)
<1>1. s \in Q[T]
  <2>1. Start(b, win, disk) \in Q[0]
    BY StartAfter DEF Until
  <2>2. \A n \in Nat : \A r \in Q[n] : Turn(r, m) \in Q[n + 1]
    BY TurnUntil
  <2> HIDE DEF Q
  <2> QED BY <2>1, <2>2, Turned
<1>2. T \in Nat /\ T = 2 * Len(b) + 4 /\ Len(b) \in Nat
  BY DEF Turns
<1> HIDE DEF s, T
<1>3. s \in Until(b, win, disk, T)
  BY <1>1, <1>2
<1>4. s \in Parser(b, win, disk)
  BY <1>3 DEF Until, After
<1>5. s.parts \in Seq(FormPartRead) /\ Unfinished(s) \in Seq(FormPartRead)
  BY <1>4, LostStepIs DEF Parser
<1>6. CASE s \in After(b, win, disk, T)
  <2>1. Reading(s) /\ (s.mode = "over" => Complete(b))
    BY <1>6 DEF After
  <2>2. s.pos \in 0..Len(b) /\ Done(s) \in 0..s.pos
    BY <1>4, <2>1, ReadIsInt
  <2>3. ASSUME Shaped(b), Complete(b), ~MarkCut(b, win)
        PROVE  Ended(s) /\ (s.mode = "over" => SentAs(s.parts, b))
    <3>1. AsSent(b, s) /\ (Ended(s) \/ s.pos + Done(s) >= T)
      BY <1>6, <2>3 DEF After
    <3>2. ~(s.pos + Done(s) >= T)
      BY <1>2, <2>2
    <3> QED BY <3>1, <3>2 DEF AsSent, SentAs
  <2> QED BY <1>5, <2>1, <2>3 DEF s
<1>7. CASE s.mode = "error"
  BY <1>5, <1>7 DEF Ended, s
<1> QED BY <1>3, <1>6, <1>7 DEF Until

\* While its request is there, it refuses of the forms a browser sends only those that have no
\* end or a file.
LEMMA FormIs ==
  ASSUME NEW b \in Seq(Chars), NEW win \in Nat \ {0}, NEW disk \in BOOLEAN
  PROVE  LET s == ParseForm(b, win, disk) IN
         Shaped(b) /\ s.mode = "error" => ~Complete(b) \/ FilePart(b)
<1> DEFINE s == ParseForm(b, win, disk)
           Q == [n \in Nat |-> After(b, win, disk, n)]
           T == Turns(b)
<1>1. s \in Q[T]
  <2>1. Start(b, win, disk) \in Q[0]
    BY StartAfter
  <2>2. ASSUME NEW n \in Nat, NEW r \in Q[n] PROVE Turn(r, Len(b) + 1) \in Q[n + 1]
    <3>1. r \in After(b, win, disk, n)
      BY <2>2
    <3>2. r \in Parser(b, win, disk) /\ Reading(r)
      BY <3>1 DEF After
    <3>3. r.pos \in 0..Len(b) /\ Len(b) \in Nat
      BY <3>2, ReadIsInt
    <3>4. Turn(r, Len(b) + 1) = Step(r)
      BY <3>3 DEF Turn
    <3> QED BY <3>1, <3>4, StepAfter
  <2> HIDE DEF Q
  <2> QED BY <2>1, <2>2, Turned DEF ParseForm
<1>2. T \in Nat
  BY DEF Turns
<1> HIDE DEF s, T
<1>3. s \in After(b, win, disk, T)
  BY <1>1, <1>2
<1>4. ASSUME Shaped(b), s.mode = "error", Complete(b) PROVE FilePart(b)
  <2>1. ~Unrefused(b, s)
    BY <1>4 DEF Unrefused
  <2> QED BY <1>3, <1>4, <2>1 DEF After
<1> QED BY <1>4 DEF s

\* The text of the n-th part stands behind that of the parts before it.
LEMMA NextText ==
  ASSUME NEW form \in Seq(FormPart), NEW g, Sound(form, g), NEW n \in 1..Len(form)
  PROVE  /\ form[n] \in FormPart /\ n - 1 \in 0..Len(form)
         /\ g[n - 1] \in Seq(Chars) /\ Encoded(form[n]) \in Seq(Chars)
         /\ g[n] = g[n - 1] \o Encoded(form[n]) /\ g[n] \in Seq(Chars)
         /\ Len(g[n - 1]) \in Nat /\ Len(Encoded(form[n])) \in Nat
         /\ Len(Encoded(form[n])) >= 6
         /\ Len(g[n]) = Len(g[n - 1]) + Len(Encoded(form[n]))
         /\ \A k \in 1..Len(g[n - 1]) : g[n][k] = g[n - 1][k]
<1>1. form[n] \in FormPart /\ n \in 0..Len(form) /\ n - 1 \in 0..Len(form) /\ n # 0
  BY ElementOfSeq
<1>2. PICK e : e = Encoded(form[n])
  OBVIOUS
<1>3. PartsText(e) /\ Len(e) >= 6
  BY <1>1, <1>2, OnePartText
<1>4. form \in Seq(FormPartRead)
  BY SoundTexts
<1>5. g[n] = g[n - 1] \o e /\ PartsText(g[n - 1])
  BY <1>1, <1>2, <1>4, TextsAre DEF Sound
<1>6. PICK t : t = g[n - 1]
  OBVIOUS
<1>7. t \in Seq(Chars) /\ e \in Seq(Chars) /\ Len(t) \in Nat /\ Len(e) \in Nat
  BY <1>3, <1>5, <1>6 DEF PartsText
<1> DEFINE u == t \o e
<1>8. /\ u \in Seq(Chars) /\ Len(u) = Len(t) + Len(e)
      /\ \A i \in 1..(Len(t) + Len(e)) : u[i] = IF i <= Len(t) THEN t[i] ELSE e[i - Len(t)]
  BY <1>7, ConcatIs
<1>9. g[n] = u
  BY <1>5, <1>6
<1> HIDE DEF u
<1>10. \A k \in 1..Len(t) : u[k] = t[k]
  BY <1>7, <1>8
<1> QED BY <1>1, <1>2, <1>3, <1>5, <1>6, <1>7, <1>8, <1>9, <1>10

\* The characters of the n-th part are in the text of the first n.
LEMMA NextChars ==
  ASSUME NEW form \in Seq(FormPart), NEW g, Sound(form, g), NEW n \in 1..Len(form)
  PROVE  \A k \in 1..Len(Encoded(form[n])) : g[n][Len(g[n - 1]) + k] = Encoded(form[n])[k]
<1>1. /\ g[n - 1] \in Seq(Chars) /\ Encoded(form[n]) \in Seq(Chars)
      /\ g[n] = g[n - 1] \o Encoded(form[n])
  BY NextText
<1>2. PICK t, e : t = g[n - 1] /\ e = Encoded(form[n])
  OBVIOUS
<1> DEFINE u == t \o e
<1>3. t \in Seq(Chars) /\ e \in Seq(Chars) /\ Len(t) \in Nat /\ Len(e) \in Nat
  BY <1>1, <1>2
<1>4. \A i \in 1..(Len(t) + Len(e)) : u[i] = IF i <= Len(t) THEN t[i] ELSE e[i - Len(t)]
  BY <1>3, ConcatIs
<1>5. g[n] = u
  BY <1>1, <1>2
<1> HIDE DEF u
<1> SUFFICES ASSUME NEW k \in 1..Len(e) PROVE u[Len(t) + k] = e[k]
  BY <1>2, <1>5
<1>6. Len(t) + k \in 1..(Len(t) + Len(e)) /\ ~(Len(t) + k <= Len(t)) /\ (Len(t) + k) - Len(t) = k
  BY <1>3
<1> QED BY <1>4, <1>6

\* The text of the first parts is the beginning of the text of all.
LEMMA FirstTexts ==
  ASSUME NEW form \in Seq(FormPart), NEW g, Sound(form, g), NEW n \in 0..Len(form)
  PROVE  LET t == g[Len(form)] IN
         /\ Len(g[n]) \in Nat /\ Len(t) \in Nat /\ Len(g[n]) <= Len(t)
         /\ \A k \in 1..Len(g[n]) : t[k] = g[n][k]
<1> DEFINE N == Len(form)
           Begins(m) == /\ Len(g[m]) \in Nat /\ Len(g[m]) <= Len(g[N])
                        /\ \A k \in 1..Len(g[m]) : g[N][k] = g[m][k]
<1>1. N \in Nat
  OBVIOUS
<1>2. \A m \in 0..N : Len(g[m]) \in Nat
  BY DEF Sound, PartsText
<1>3. ASSUME NEW m \in 0..N, m # N, Begins(m + 1) PROVE Begins(m)
  <2>1. PICK i \in 1..Len(form) : i = m + 1 /\ i - 1 = m
    BY <1>1, <1>3
  <2>2. PICK u, v : u = g[i - 1] /\ v = g[i]
    OBVIOUS
  <2>3. /\ Len(v) = Len(u) + Len(Encoded(form[i]))
        /\ Len(u) \in Nat /\ Len(Encoded(form[i])) \in Nat
        /\ \A k \in 1..Len(u) : v[k] = u[k]
    BY <2>2, NextText
  <2>4. Len(v) \in Nat /\ Len(u) <= Len(v) /\ \A k \in 1..Len(u) : k \in 1..Len(v)
    BY <2>3
  <2>5. PICK t : t = g[N] /\ Len(t) \in Nat
    BY <1>1, <1>2
  <2>6. Len(v) <= Len(t) /\ \A k \in 1..Len(v) : t[k] = v[k]
    BY <1>3, <2>1, <2>2, <2>5
  <2>7. Len(u) <= Len(t)
    BY <2>3, <2>4, <2>5, <2>6
  <2>8. \A k \in 1..Len(u) : t[k] = u[k]
    BY <2>3, <2>4, <2>6
  <2>9. u = g[m]
    BY <2>1, <2>2
  <2> QED BY <2>3, <2>5, <2>7, <2>8, <2>9
<1>4. Begins(N)
  BY <1>1, <1>2
<1> HIDE DEF N, Begins
<1> DEFINE U == {k \in Nat : k <= N /\ ~Begins(N - k)}
<1>5. ASSUME U # {} PROVE FALSE
  <2>1. PICK k \in U : \A m \in U : k <= m
    BY <1>5, LeastNat
  <2>2. k \in Nat /\ k <= N /\ ~Begins(N - k)
    OBVIOUS
  <2>3. k # 0
    BY <1>1, <1>4, <2>2
  <2>4. k - 1 \in Nat /\ k - 1 \notin U /\ k - 1 <= N /\ N - (k - 1) = (N - k) + 1
    BY <1>1, <2>1, <2>2, <2>3
  <2>5. Begins((N - k) + 1)
    BY <2>4
  <2>6. N - k \in 0..N /\ N - k # N
    BY <1>1, <2>2, <2>3
  <2> QED BY <1>3, <2>2, <2>5, <2>6
<1>6. N - n \in Nat /\ N - n <= N /\ N - (N - n) = n /\ n \in 0..N
  BY <1>1 DEF N
<1>7. Begins(n)
  BY <1>5, <1>6
<1> QED BY <1>1, <1>2, <1>6, <1>7 DEF Begins, N

\* The text e stands in t behind its first a characters.
Behind(t, a, e) == \A k \in 1..Len(e) : t[a + k] = e[k]

\* Two parts that stand at one place of a text are one, when a boundary or the end of the
\* text is behind the shorter one.
LEMMA SamePart ==
  ASSUME NEW t, NEW a \in Nat, NEW p \in FormPart, NEW q \in FormPart,
         Behind(t, a, Encoded(p)), Behind(t, a, Encoded(q)),
         Len(Encoded(p)) <= Len(Encoded(q)),
         Len(Encoded(p)) = Len(Encoded(q)) \/ t[a + Len(Encoded(p)) + 1] = "x"
  PROVE  p = q
<1> DEFINE d == Encoded(p)
           e == Encoded(q)
           m == Len(p.data)
<1>1. /\ p \in FormPartRead /\ q \in FormPartRead /\ PartsText(d) /\ PartsText(e)
      /\ \A i \in 1..Len(e) : e[i] = "x" => i = 1
  BY OnePartText
<1>2. /\ Len(d) = m + 6 /\ d[3] = IF p.file THEN "f" ELSE "h"
      /\ \A k \in 1..m : d[k + 5] = p.data[k]
  BY <1>1, EncodedIs
<1>3. /\ Len(e) = Len(q.data) + 6 /\ e[3] = IF q.file THEN "f" ELSE "h"
      /\ \A k \in 1..Len(q.data) : e[k + 5] = q.data[k]
  BY <1>1, EncodedIs
<1>4. /\ p.data \in Seq(Chars) /\ q.data \in Seq(Chars) /\ m \in Nat /\ Len(q.data) \in Nat
      /\ p.file \in BOOLEAN /\ q.file \in BOOLEAN
      /\ p = [file |-> p.file, data |-> p.data] /\ q = [file |-> q.file, data |-> q.data]
  BY <1>1 DEF FormPartRead
<1>5. (\A k \in 1..Len(d) : t[a + k] = d[k]) /\ (\A k \in 1..Len(e) : t[a + k] = e[k])
  BY DEF Behind
<1>6. Len(d) <= Len(e) /\ (Len(d) = Len(e) \/ t[a + Len(d) + 1] = "x")
  OBVIOUS
<1> HIDE DEF d, e, m
<1>7. Len(d) = Len(e)
  <2> SUFFICES ASSUME Len(d) # Len(e) PROVE FALSE
    OBVIOUS
  <2> DEFINE l == Len(d)
  <2>0. l \in Nat /\ Len(e) \in Nat /\ l # 0
    BY <1>2, <1>3, <1>4
  <2>1. l + 1 \in 1..Len(e) /\ a + (l + 1) = a + l + 1 /\ l + 1 # 1
    <3> HIDE DEF l
    <3>1. l <= Len(e) /\ l # Len(e)
      BY <1>6 DEF l
    <3> QED BY <2>0, <3>1
  <2>2. e[Len(d) + 1] = "x"
    BY <1>5, <1>6, <2>1
  <2> QED BY <1>1, <2>1, <2>2
<1>8. m = Len(q.data)
  BY <1>2, <1>3, <1>4, <1>7
<1>9. \A k \in 1..Len(d) : d[k] = e[k]
  BY <1>5, <1>7
<1>10. p.file = q.file
  <2>1. 3 \in 1..Len(d)
    BY <1>2, <1>4
  <2>2. d[3] = e[3]
    BY <1>9, <2>1
  <2>3. p.file <=> q.file
    BY <1>2, <1>3, <2>2
  <2> QED BY <1>4, <2>3
<1>11. \A k \in 1..m : p.data[k] = q.data[k]
  <2> SUFFICES ASSUME NEW k \in 1..m PROVE p.data[k] = q.data[k]
    OBVIOUS
  <2>1. k + 5 \in 1..Len(d) /\ k \in 1..Len(q.data)
    BY <1>2, <1>4, <1>8
  <2> QED BY <1>2, <1>3, <1>9, <2>1
<1>12. p.data = q.data
  BY <1>4, <1>8, <1>11, SeqEqual DEF m
<1> QED BY <1>4, <1>10, <1>12

\* Where a part of a form stands in its text, and what is behind it.
LEMMA PartStands ==
  ASSUME NEW form \in Seq(FormPart), NEW g, Sound(form, g), NEW n \in 1..Len(form),
         NEW t, t = g[Len(form)]
  PROVE  /\ Behind(t, Len(g[n - 1]), Encoded(form[n]))
         /\ n # Len(form) => t[Len(g[n]) + 1] = "x"
<1>1. PICK u, v, e : u = g[n - 1] /\ v = g[n] /\ e = Encoded(form[n])
  OBVIOUS
<1>2. /\ Len(u) \in Nat /\ Len(e) \in Nat /\ Len(v) = Len(u) + Len(e)
      /\ \A k \in 1..Len(e) : v[Len(u) + k] = e[k]
  <2>1. /\ Len(g[n - 1]) \in Nat /\ Len(Encoded(form[n])) \in Nat
        /\ Len(g[n]) = Len(g[n - 1]) + Len(Encoded(form[n]))
    BY NextText
  <2>2. \A k \in 1..Len(Encoded(form[n])) : g[n][Len(g[n - 1]) + k] = Encoded(form[n])[k]
    BY NextChars
  <2> QED BY <1>1, <2>1, <2>2
<1>3. /\ Len(v) \in Nat /\ Len(t) \in Nat /\ Len(v) <= Len(t)
      /\ \A k \in 1..Len(v) : t[k] = v[k]
  BY <1>1, FirstTexts
<1>4. \A k \in 1..Len(e) : Len(u) + k \in 1..Len(v)
  BY <1>2
<1>5. Behind(t, Len(u), e)
  BY <1>2, <1>3, <1>4 DEF Behind
<1>6. ASSUME n # Len(form) PROVE t[Len(v) + 1] = "x"
  <2>1. PICK m \in 1..Len(form) : m = n + 1 /\ m - 1 = n
    BY <1>6
  <2>2. PICK r, d : r = g[m] /\ d = Encoded(form[m])
    OBVIOUS
  <2>3. form[m] \in FormPart /\ Len(d) \in Nat /\ Len(d) >= 6
    BY <2>2, NextText
  <2>4. PICK l : l = Len(g[m - 1])
    OBVIOUS
  <2>5. l \in Nat /\ Len(r) = l + Len(d) /\ \A k \in 1..Len(d) : r[l + k] = d[k]
    <3>1. Len(g[m - 1]) \in Nat /\ Len(g[m]) = Len(g[m - 1]) + Len(Encoded(form[m]))
      BY NextText
    <3>2. \A k \in 1..Len(Encoded(form[m])) : g[m][Len(g[m - 1]) + k] = Encoded(form[m])[k]
      BY NextChars
    <3> QED BY <2>2, <2>4, <3>1, <3>2
  <2>6. l = Len(v)
    BY <1>1, <2>1, <2>4
  <2>7. d[1] = "x"
    <3>1. PartsText(d) /\ Len(d) # 0
      BY <2>2, <2>3, OnePartText
    <3> QED BY <3>1 DEF PartsText
  <2>8. \A k \in 1..Len(r) : t[k] = r[k]
    BY <2>2, FirstTexts
  <2>9. 1 \in 1..Len(d) /\ l + 1 \in 1..Len(r)
    BY <2>3, <2>5
  <2> QED BY <2>5, <2>6, <2>7, <2>8, <2>9
<1> QED BY <1>1, <1>5, <1>6

\* Two forms with one text have the same part wherever it begins at the same place.
LEMMA SameNext ==
  ASSUME NEW p \in Seq(FormPart), NEW q \in Seq(FormPart), NEW g, NEW h,
         Sound(p, g), Sound(q, h), g[Len(p)] = h[Len(q)],
         NEW n \in 1..Len(p), n \in 1..Len(q), Len(g[n - 1]) = Len(h[n - 1]),
         Len(Encoded(p[n])) <= Len(Encoded(q[n]))
  PROVE  p[n] = q[n]
<1>0. PICK t : t = g[Len(p)] /\ t = h[Len(q)]
  OBVIOUS
<1>1. PICK a, d, e : a = Len(g[n - 1]) /\ d = Encoded(p[n]) /\ e = Encoded(q[n])
  OBVIOUS
<1>2. /\ p[n] \in FormPart /\ a \in Nat /\ Len(d) \in Nat /\ Len(g[n]) = a + Len(d)
  BY <1>1, NextText
<1>3. /\ q[n] \in FormPart /\ Len(e) \in Nat /\ Len(h[n]) = a + Len(e)
  <2>1. /\ q[n] \in FormPart /\ Len(Encoded(q[n])) \in Nat
        /\ Len(h[n]) = Len(h[n - 1]) + Len(Encoded(q[n]))
    BY NextText
  <2> QED BY <1>1, <2>1
<1>4. Behind(t, a, d) /\ (n # Len(p) => t[Len(g[n]) + 1] = "x")
  BY <1>0, <1>1, PartStands
<1>5. Behind(t, a, e)
  BY <1>0, <1>1, PartStands
<1>6. ASSUME n = Len(p) PROVE Len(d) = Len(e)
  <2>1. Len(t) = a + Len(d)
    BY <1>0, <1>2, <1>6
  <2>2. Len(h[n]) <= Len(t)
    <3>1. n \in 0..Len(q)
      OBVIOUS
    <3> QED BY <1>0, <3>1, FirstTexts
  <2>3. Len(d) <= Len(e)
    BY <1>1
  <2> QED BY <1>2, <1>3, <2>1, <2>2, <2>3
<1>7. Len(d) = Len(e) \/ t[a + Len(d) + 1] = "x"
  BY <1>2, <1>4, <1>6
<1>8. Len(d) <= Len(e)
  BY <1>1
<1> QED BY <1>1, <1>2, <1>3, <1>4, <1>5, <1>7, <1>8, SamePart

\* No part is without text.
LEMMA WholeText ==
  ASSUME NEW form \in Seq(FormPart), NEW g, Sound(form, g), NEW n \in 0..Len(form),
         Len(g[n]) = Len(g[Len(form)])
  PROVE  n = Len(form)
<1> SUFFICES ASSUME n # Len(form) PROVE FALSE
  OBVIOUS
<1>1. PICK m \in 1..Len(form) : m = n + 1 /\ m - 1 = n
  OBVIOUS
<1>2. PICK l, r, d : l = Len(g[m - 1]) /\ r = Len(g[m]) /\ d = Len(Encoded(form[m]))
  OBVIOUS
<1>3. l \in Nat /\ d \in Nat /\ d >= 6 /\ r = l + d
  BY <1>2, NextText
<1>4. l = Len(g[Len(form)])
  BY <1>1, <1>2
<1>5. r <= Len(g[Len(form)])
  <2>1. m \in 0..Len(form)
    OBVIOUS
  <2> QED BY <1>2, <2>1, FirstTexts
<1> QED BY <1>3, <1>4, <1>5

\* A body is the text of one form only.
LEMMA SentOnce ==
  ASSUME NEW p \in Seq(FormPart), NEW q \in Seq(FormPart), Encode(p) = Encode(q)
  PROVE  p = q
<1>1. PICK g : p \in Seq(FormPartRead) /\ Sound(p, g)
  BY SoundTexts
<1>2. PICK h : q \in Seq(FormPartRead) /\ Sound(q, h)
  BY SoundTexts
<1> DEFINE P == Len(p)
           Q == Len(q)
<1>3. P \in Nat /\ Q \in Nat
  OBVIOUS
<1>4. PICK t, u : t = g[P] /\ u = h[Q]
  OBVIOUS
<1>5. t = u
  <2>1. t \in Seq(Chars) /\ u \in Seq(Chars)
    BY <1>1, <1>2, <1>3, <1>4 DEF Sound, PartsText
  <2>2. t \o EndMark = u \o EndMark
    BY <1>1, <1>2, <1>4, OneText DEF Sound
  <2>3. EndMark \in Seq(Chars) /\ Len(EndMark) = 2
    BY DEF EndMark, Chars
  <2>4. Len(t) \in Nat /\ Len(u) \in Nat
    BY <2>1
  <2>5. /\ Len(t \o EndMark) = Len(t) + 2
        /\ \A i \in 1..Len(t) : (t \o EndMark)[i] = t[i]
    <3>1. \A i \in 1..Len(t) : i \in 1..(Len(t) + 2) /\ i <= Len(t)
      BY <2>4
    <3> QED BY <2>1, <2>3, <3>1, ConcatIs
  <2>6. /\ Len(u \o EndMark) = Len(u) + 2
        /\ \A i \in 1..Len(u) : (u \o EndMark)[i] = u[i]
    <3>1. \A i \in 1..Len(u) : i \in 1..(Len(u) + 2) /\ i <= Len(u)
      BY <2>4
    <3> QED BY <2>1, <2>3, <3>1, ConcatIs
  <2>7. Len(t) = Len(u)
    BY <2>2, <2>4, <2>5, <2>6
  <2>8. \A i \in 1..Len(t) : t[i] = u[i]
    BY <2>2, <2>5, <2>6, <2>7
  <2> QED BY <2>1, <2>7, <2>8, SeqEqual
<1> DEFINE Agree(n) == g[n] = h[n] /\ \A i \in 1..n : p[i] = q[i]
           U == {n \in Nat : n <= P /\ n <= Q /\ ~Agree(n)}
<1>6. Agree(0)
  <2>1. g[0] = <<>> /\ h[0] = <<>>
    BY <1>1, <1>2, <1>3, TextsAre DEF Sound
  <2> QED BY <2>1
<1>7. ASSUME NEW n \in 1..P, n \in 1..Q, Agree(n - 1) PROVE Agree(n)
  <2>1. p[n] = q[n]
    <3>1. Len(g[n - 1]) = Len(h[n - 1]) /\ g[Len(p)] = h[Len(q)]
      BY <1>4, <1>5, <1>7
    <3> HIDE DEF Agree
    <3>0. n \in 1..Len(p) /\ n \in 1..Len(q) /\ Sound(p, g) /\ Sound(q, h)
      BY <1>1, <1>2, <1>7
    <3> HIDE DEF P, Q
    <3>2. CASE Len(Encoded(p[n])) <= Len(Encoded(q[n]))
      BY <3>0, <3>1, <3>2, SameNext
    <3>3. CASE Len(Encoded(q[n])) <= Len(Encoded(p[n]))
      <4>1. q[n] = p[n]
        BY <3>0, <3>1, <3>3, SameNext
      <4> QED BY <4>1
    <3>4. Len(Encoded(p[n])) \in Nat /\ Len(Encoded(q[n])) \in Nat
      BY <1>1, <1>2, <1>7, NextText
    <3> QED BY <3>2, <3>3, <3>4
  <2>2. g[n] = g[n - 1] \o Encoded(p[n]) /\ h[n] = h[n - 1] \o Encoded(q[n])
    <3>1. g[n] = g[n - 1] \o Encoded(p[n])
      BY <1>1, NextText
    <3>2. h[n] = h[n - 1] \o Encoded(q[n])
      BY <1>2, <1>7, NextText
    <3> QED BY <3>1, <3>2
  <2>3. g[n] = h[n]
    BY <1>7, <2>1, <2>2
  <2>4. \A i \in 1..n : i = n \/ i \in 1..(n - 1)
    BY <1>3
  <2> QED BY <1>7, <2>1, <2>3, <2>4
<1> HIDE DEF Agree
<1>8. ASSUME U # {} PROVE FALSE
  <2>1. PICK k \in U : \A m \in U : k <= m
    BY <1>8, LeastNat
  <2>2. k \in Nat /\ k <= P /\ k <= Q /\ ~Agree(k) /\ k # 0
    BY <1>6
  <2>3. k - 1 \in Nat /\ k - 1 \notin U /\ k - 1 <= P /\ k - 1 <= Q /\ k \in 1..P /\ k \in 1..Q
    BY <1>3, <2>1, <2>2
  <2>4. Agree(k - 1)
    BY <2>3
  <2> QED BY <1>7, <2>2, <2>3, <2>4
<1>9. P = Q
  <2>1. CASE P <= Q
    <3>1. Agree(P) /\ P \in 0..Len(q)
      BY <1>3, <1>8, <2>1
    <3>2. Len(h[P]) = Len(h[Q])
      BY <1>4, <1>5, <3>1 DEF Agree
    <3> QED BY <1>2, <3>1, <3>2, WholeText
  <2>2. CASE Q <= P
    <3>1. Agree(Q) /\ Q \in 0..Len(p)
      BY <1>3, <1>8, <2>2
    <3>2. Len(g[Q]) = Len(g[P])
      BY <1>4, <1>5, <3>1 DEF Agree
    <3> QED BY <1>1, <3>1, <3>2, WholeText
  <2> QED BY <1>3, <2>1, <2>2
<1>10. \A i \in 1..P : p[i] = q[i]
  <2>1. Agree(P)
    BY <1>3, <1>8, <1>9
  <2> QED BY <2>1 DEF Agree
<1> QED BY <1>9, <1>10, SeqEqual

\* What arrives with the mark of the end is all that was sent.
LEMMA WholeArrives ==
  ASSUME NEW form \in Seq(FormPart) \ {<<>>}, NEW b, Arrives(b, form), Complete(b)
  PROVE  Encode(form) = b
<1>1. b \in Seq(Chars) /\ Shaped(b)
  BY BrowserShaped DEF FromBrowser
<1>2. PICK t : PartsText(t) /\ Len(t) # 0 /\ Encode(form) = t \o EndMark
  BY FormText
<1> DEFINE a == Len(t)
           u == t \o EndMark
<1>3. t \in Seq(Chars) /\ a \in Nat
  BY <1>2 DEF PartsText
<1>4. EndMark \in Seq(Chars) /\ Len(EndMark) = 2
  BY DEF EndMark, Chars
<1>5. /\ u \in Seq(Chars) /\ Len(u) = a + 2
      /\ \A i \in 1..a : i \in 1..(a + 2) /\ u[i] = t[i]
  <2>1. /\ u \in Seq(Chars) /\ Len(u) = Len(t) + Len(EndMark)
        /\ \A i \in 1..(Len(t) + Len(EndMark)) : u[i] = IF i <= Len(t) THEN t[i] ELSE EndMark[i - Len(t)]
    BY <1>3, <1>4, ConcatIs
  <2> HIDE DEF u
  <2>2. \A i \in 1..a : i \in 1..(a + 2) /\ i <= a
    BY <1>3
  <2> QED BY <1>4, <2>1, <2>2
<1> HIDE DEF u, a
<1>6. PICK n \in 0..(a + 2) : b = SubSeq(u, 1, n)
  BY <1>2, <1>5 DEF Arrives, u
<1>7. Len(b) = n /\ \A i \in 1..n : b[i] = u[i]
  <2>1. n \in Int /\ \A i \in 1..n : u[i] \in Chars
    BY <1>3, <1>5, ElementOfSeq
  <2> QED BY <1>6, <2>1, SubSeqProperties
<1>8. n - 1 \in 2..n /\ b[n - 1] = "x" /\ b[n] = "-"
  BY <1>1, <1>7, EndIsLast
<1>9. u[n - 1] = "x" /\ u[n] = "-"
  <2>1. n - 1 \in 1..n /\ n \in 1..n
    BY <1>6, <1>8
  <2> QED BY <1>7, <1>8, <2>1
<1>10. n - 1 \notin 1..a
  <2> SUFFICES ASSUME n - 1 \in 1..a PROVE FALSE
    OBVIOUS
  <2>1. t[n - 1] = "x" /\ n - 1 \in 1..Len(t)
    BY <1>5, <1>9 DEF a
  <2>2. (n - 1) + 5 <= Len(t) /\ t[(n - 1) + 1] = "n"
    BY <1>2, <2>1 DEF PartsText
  <2>3. (n - 1) + 1 = n /\ n \in 1..a
    BY <1>3, <1>6, <2>2 DEF a
  <2> QED BY <1>5, <1>9, <2>2, <2>3
<1>11. n = a + 2
  BY <1>3, <1>6, <1>8, <1>10
<1>12. \A i \in 1..Len(b) : b[i] = u[i]
  BY <1>7
<1>13. b = u
  BY <1>1, <1>5, <1>7, <1>11, <1>12, SeqEqual
<1> QED BY <1>2, <1>13 DEF u

\* The parts of a form that was read are the ones that were sent.
LEMMA PartsSent ==
  ASSUME NEW form \in Seq(FormPart) \ {<<>>}, NEW b, Arrives(b, form), Complete(b),
         NEW parts \in Seq(FormPartRead), SentAs(parts, b)
  PROVE  parts = form
<1>1. \A n \in 1..Len(parts) : parts[n] \in FormPart
  <2> SUFFICES ASSUME NEW n \in 1..Len(parts) PROVE parts[n] \in FormPart
    OBVIOUS
  <2>1. PICK p : p = parts[n] /\ p \in FormPartRead
    BY ElementOfSeq
  <2>2. \A k \in 1..Len(p.data) : p.data[k] # "x"
    BY <2>1 DEF SentAs, NoBoundary
  <2>3. p.data \in Seq(Chars) /\ p.file \in BOOLEAN /\ p = [file |-> p.file, data |-> p.data]
    BY <2>1 DEF FormPartRead
  <2>4. \A k \in 1..Len(p.data) : p.data[k] \in Chars \ {"x"}
    BY <2>2, <2>3, ElementOfSeq
  <2>5. p.data \in Seq(Chars \ {"x"})
    <3>1. p.data \in [1..Len(p.data) -> Chars] /\ Len(p.data) \in Nat
      BY <2>3, LenProperties
    <3>2. p.data \in [1..Len(p.data) -> Chars \ {"x"}]
      BY <2>4, <3>1
    <3> QED BY <3>1, <3>2, SeqDef
  <2> QED BY <2>1, <2>3, <2>5 DEF FormPart
<1>2. parts \in Seq(FormPart)
  <2>1. parts \in [1..Len(parts) -> FormPartRead] /\ Len(parts) \in Nat
    BY LenProperties
  <2>2. parts \in [1..Len(parts) -> FormPart]
    BY <1>1, <2>1
  <2> QED BY <2>1, <2>2, SeqDef
<1>3. Encode(parts) = Encode(form)
  BY WholeArrives DEF SentAs
<1> QED BY <1>2, <1>3, SentOnce
-----------------------------------------------------------------------------
(* The types of the server.                                                *)

USE WebAssumption

\* The sets that the fields of a job are from, each under a name: the records of Jobs have
\* too many fields for the provers to look into all of them at once.
Bodies == [from : {"nothing", "read", "cache", "file", "404", "garbage"},
           version : 0..MaxVersion]
ExtStates == {"none", "live", "freed"}
Exts == [Slots -> ExtStates]
Results == {"none", "over", "error", "lost", "endless"}
Asked == Requests \cup {NoRequest}
Todos == Seq(Dlls)
Who == Dlls \cup {None}
\* The jobs whose form was read as these parts.
Jobs(parts) ==
  [pc : Points, req : Asked, again : BOOLEAN, timed : BOOLEAN, lost : 0..2, early : BOOLEAN,
   todo : Todos, refusedBy : Who, ran : BOOLEAN, ext : Exts, result : Results, parts : {parts},
   files : SUBSET DOMAIN parts, body : Bodies, misused : BOOLEAN]

\* Where filters run one is next, and a page to insert is a page.
Guarded(j) ==
  /\ j.pc \in {"before", "after"} => j.todo # <<>>
  /\ j.pc = "insert" => j.req.uri \in Pages
LoadOK ==
  /\ loaded \in 0..Len(Handlers) /\ dlls \in [Dlls -> {"unknown", "loaded", "missing"}]
  /\ before \in Todos /\ after \in Todos /\ bound \subseteq Uris \cup {None}
PagesOK ==
  /\ cacheOn \in BOOLEAN /\ window \in Windows
  /\ file \in [Pages -> 0..MaxVersion] /\ cache \in [Pages -> 0..MaxVersion \cup {None}]
JobOK(j) == j \in Jobs(j.parts) /\ Guarded(j)
JobsOK == job = [w \in Workers |-> job[w]] /\ \A w \in Workers : JobOK(job[w])
TypeInv == LoadOK /\ PagesOK /\ JobsOK /\ crashed \in BOOLEAN

LEMMA TypeInvIsTypeOK == TypeInv => WebTypeOK
<1> SUFFICES ASSUME TypeInv PROVE WebTypeOK
  OBVIOUS
<1>1. ASSUME NEW w \in Workers
      PROVE  /\ job[w].pc \in Points /\ job[w].req \in Asked
             /\ job[w].todo \in Todos /\ job[w].ext \in Exts
             /\ job[w].files \in SUBSET DOMAIN job[w].parts /\ job[w].lost \in 0..2
  BY DEF TypeInv, JobsOK, JobOK, Jobs
<1> QED BY <1>1 DEF TypeInv, LoadOK, PagesOK, WebTypeOK, Asked, Todos, Exts, ExtStates

LEMMA Members ==
  /\ \A p \in {"idle", "before", "call", "page", "insert", "called", "after", "answer", "stuck"} :
       p \in Points
  /\ <<>> \in Todos /\ NoExt \in Exts /\ NoBody \in Bodies /\ NoRequest \in Asked
  /\ None \in Who /\ Dlls \subseteq Who /\ "parser" \in Dlls /\ "np" \in Dlls
  /\ "uri" \in Slots /\ "cookie" \in Slots /\ "set_cookie" \in Slots /\ "form" \in Slots
  /\ "none" \in ExtStates /\ "live" \in ExtStates /\ "freed" \in ExtStates
BY DEF Points, Todos, NoExt, Exts, NoBody, Bodies, Asked, Who, Dlls, Slots, ExtStates

LEMMA IdleTyped == Idle \in Jobs(<<>>) /\ Idle.parts = <<>> /\ JobOK(Idle)
<1>1. Idle.parts = <<>> /\ Idle.pc = "idle"
  BY DEF Idle
<1>2. "none" \in Results /\ {} \in SUBSET DOMAIN <<>> /\ "idle" \in Points
  BY Members DEF Results
<1>3. Idle \in Jobs(<<>>)
  BY <1>2, Members DEF Idle, Jobs
<1> QED BY <1>1, <1>3 DEF JobOK, Guarded

LEMMA InitTyped == Init => TypeInv
<1> SUFFICES ASSUME Init PROVE TypeInv
  OBVIOUS
<1>1. LoadOK
  BY Members DEF Init, LoadOK
<1>2. PagesOK
  BY DEF Init, PagesOK
<1>3. JobsOK
  BY IdleTyped DEF Init, JobsOK
<1> QED BY <1>1, <1>2, <1>3 DEF Init, TypeInv

-----------------------------------------------------------------------------
(* What the filters make of a job.                                         *)

LEMMA Entered ==
  ASSUME NEW P, NEW j \in Jobs(P), NEW todo \in Todos, NEW pc \in Points, NEW behind \in Points,
         behind \notin {"before", "after", "insert"}, pc # "insert"
  PROVE  Enter(j, todo, pc, behind) \in Jobs(P) /\ Guarded(Enter(j, todo, pc, behind))
<1>1. Enter(j, todo, pc, behind) \in Jobs(P)
  BY DEF Jobs, Enter
<1>2. Enter(j, todo, pc, behind).todo = todo
  BY DEF Jobs, Enter
<1>3. Enter(j, todo, pc, behind).pc = IF todo = <<>> THEN behind ELSE pc
  BY DEF Jobs, Enter
<1> QED BY <1>1, <1>2, <1>3 DEF Guarded

LEMMA Passed ==
  ASSUME NEW P, NEW j \in Jobs(P), j.todo # <<>>
  PROVE  Pass(j) \in Jobs(P) /\ Guarded(Pass(j))
<1>1. j.todo \in Todos
  BY DEF Jobs
<1>2. Tail(j.todo) \in Todos
  BY <1>1 DEF Todos
<1> QED BY <1>2, Entered, Members DEF Pass

LEMMA Refused ==
  ASSUME NEW P, NEW j \in Jobs(P), NEW d \in Dlls
  PROVE  Refuse(j, d) \in Jobs(P) /\ Guarded(Refuse(j, d))
<1>1. "answer" \in Points /\ <<>> \in Todos /\ d \in Who
  BY Members
<1>2. Refuse(j, d) \in Jobs(P)
  BY <1>1 DEF Jobs, Refuse
<1>3. Refuse(j, d).pc = "answer"
  BY DEF Jobs, Refuse
<1> QED BY <1>2, <1>3 DEF Guarded

LEMMA Typed == ASSUME NEW P, NEW j \in Jobs(P), Guarded(j) PROVE JobOK(j)
BY DEF JobOK, Jobs

LEMMA ExtSet ==
  ASSUME NEW P, NEW j \in Jobs(P), NEW s \in Slots, NEW e \in ExtStates
  PROVE  /\ [j EXCEPT !.ext[s] = e] \in Jobs(P)
         /\ [j EXCEPT !.ext[s] = e].todo = j.todo
         /\ [j EXCEPT !.ext[s] = e].req = j.req
         /\ [j EXCEPT !.ext[s] = e].pc = j.pc
<1>1. j.ext \in Exts
  BY DEF Jobs
<1>2. [j.ext EXCEPT ![s] = e] \in Exts
  BY <1>1 DEF Exts
<1>3. [j EXCEPT !.ext = [j.ext EXCEPT ![s] = e]] \in Jobs(P)
  BY <1>2 DEF Jobs
<1>4. [j EXCEPT !.ext[s] = e] = [j EXCEPT !.ext = [j.ext EXCEPT ![s] = e]]
  BY Zenon
<1> QED BY <1>3, <1>4 DEF Jobs

\* How many of a request and its response are deleted when they are looked up.
LEMMA MomentsAre ==
  ASSUME NEW P, NEW j \in Jobs(P), NEW n \in {4, 5}, NEW t \in Moments(j, n)
  PROVE  /\ \A i \in 1..n : t[i] \in 0..2 /\ j.lost <= t[i]
         /\ t[1] <= t[2] /\ t[2] <= t[3] /\ t[3] <= t[4] /\ (n = 5 => t[4] <= t[5])
<1>1. j.lost \in 0..2
  BY DEF Jobs
<1>2. \A x \in Left(j) : x \in 0..2 /\ j.lost <= x
  BY <1>1 DEF Left
<1>3. t \in [1..n -> Left(j)] /\ \A i \in 2..n : t[i - 1] <= t[i]
  BY DEF Moments
<1>4. 2 \in 2..n /\ 3 \in 2..n /\ 4 \in 2..n /\ (n = 5 => 5 \in 2..n)
  OBVIOUS
<1>5. t[2 - 1] <= t[2] /\ t[3 - 1] <= t[3] /\ t[4 - 1] <= t[4] /\ (n = 5 => t[5 - 1] <= t[5])
  BY <1>3, <1>4
<1> QED BY <1>2, <1>3, <1>5

\* The job from which close_link has taken so much.
Lost(j, lost) == [j EXCEPT !.lost = lost]

LEMMA LostTyped ==
  ASSUME NEW P, NEW j \in Jobs(P), NEW lost \in 0..2
  PROVE  /\ Lost(j, lost) \in Jobs(P) /\ Lost(j, lost).todo = j.todo
         /\ Lost(j, lost).pc = j.pc /\ Lost(j, lost).req = j.req
BY DEF Lost, Jobs

\* A job whose form has been read as these parts.
Filled(j, parts) == [j EXCEPT !.parts = parts, !.files = FormFiles(parts)]
ReadParts(f) == IF Ended(f) THEN f.parts ELSE Unfinished(f)

LEMMA FormTyped ==
  ASSUME NEW P, NEW j \in Jobs(P), NEW parts
  PROVE  Filled(j, parts) \in Jobs(parts) /\ Filled(j, parts).todo = j.todo
<1>1. FormFiles(parts) \in SUBSET DOMAIN parts
  BY DEF FormFiles
<1>2. [j EXCEPT !.parts = parts] \in [pc : Points, req : Asked, again : BOOLEAN, timed : BOOLEAN,
         lost : 0..2, early : BOOLEAN, todo : Todos, refusedBy : Who, ran : BOOLEAN, ext : Exts,
         result : Results, parts : {parts}, files : SUBSET DOMAIN P, body : Bodies,
         misused : BOOLEAN]
  BY DEF Jobs
<1>3. Filled(j, parts) = [[j EXCEPT !.parts = parts] EXCEPT !.files = FormFiles(parts)]
  BY Zenon DEF Filled
<1> QED BY <1>1, <1>2, <1>3 DEF Jobs

\* What WithForm comes to, field by field.
Attached(k, e) == [[k EXCEPT !.ext["form"] = e] EXCEPT !.result = "over"]
LEMMA WithFormIs ==
  ASSUME NEW j, NEW f
  PROVE  LET k == Filled(j, ReadParts(f)) IN
         /\ f.mode = "over" =>
              WithForm(j, f) = Pass(Attached(k, IF Gone(j) THEN "none" ELSE "live"))
         /\ f.mode = "error" =>
              WithForm(j, f) = Refuse([k EXCEPT !.result = IF Gone(j) THEN "lost" ELSE "error"],
                                      "parser")
         /\ f.mode \notin {"over", "error"} =>
              WithForm(j, f) = [k EXCEPT !.result = "endless", !.pc = "stuck", !.todo = <<>>]
<1> DEFINE k == Filled(j, ReadParts(f))
<1>1. WithForm(j, f) =
        CASE f.mode = "over" ->
               Pass([k EXCEPT !.ext["form"] = IF Gone(j) THEN "none" ELSE "live",
                              !.result = "over"])
          [] f.mode = "error" ->
               Refuse([k EXCEPT !.result = IF Gone(j) THEN "lost" ELSE "error"], "parser")
          [] OTHER -> [k EXCEPT !.result = "endless", !.pc = "stuck", !.todo = <<>>]
  BY Zenon DEF WithForm, Filled, ReadParts
<1> HIDE DEF k
<1>2. PICK e : e = IF Gone(j) THEN "none" ELSE "live"
  OBVIOUS
<1>3. [k EXCEPT !.ext["form"] = e, !.result = "over"] = Attached(k, e)
  BY Zenon DEF Attached
<1>4. f.mode = "over" => WithForm(j, f) = Pass([k EXCEPT !.ext["form"] = e, !.result = "over"])
  BY <1>1, <1>2
<1>5. f.mode = "error" =>
        WithForm(j, f) = Refuse([k EXCEPT !.result = IF Gone(j) THEN "lost" ELSE "error"], "parser")
  BY <1>1
<1>6. f.mode \notin {"over", "error"} =>
        WithForm(j, f) = [k EXCEPT !.result = "endless", !.pc = "stuck", !.todo = <<>>]
  BY <1>1
<1> QED BY <1>2, <1>3, <1>4, <1>5, <1>6 DEF k

LEMMA WithFormTyped ==
  ASSUME NEW P, NEW j \in Jobs(P), j.todo # <<>>, NEW f
  PROVE  JobOK(WithForm(j, f))
<1> DEFINE k == Filled(j, ReadParts(f))
           parts == ReadParts(f)
<1>1. k \in Jobs(parts) /\ k.todo = j.todo
  BY FormTyped
<1>2. PICK e \in ExtStates : e = IF Gone(j) THEN "none" ELSE "live"
  BY Members
<1>3. PICK r \in {"lost", "error"} : r = IF Gone(j) THEN "lost" ELSE "error"
  OBVIOUS
<1>4. /\ f.mode = "over" => WithForm(j, f) = Pass(Attached(k, e))
      /\ f.mode = "error" => WithForm(j, f) = Refuse([k EXCEPT !.result = r], "parser")
      /\ f.mode \notin {"over", "error"} =>
           WithForm(j, f) = [k EXCEPT !.result = "endless", !.pc = "stuck", !.todo = <<>>]
  BY <1>2, <1>3, WithFormIs
<1> HIDE DEF k, parts
<1>5. CASE f.mode = "over"
  <2> DEFINE l == [k EXCEPT !.ext["form"] = e]
  <2>1. l \in Jobs(parts) /\ l.todo = j.todo
    BY <1>1, ExtSet, Members
  <2>2. Attached(k, e) = [l EXCEPT !.result = "over"]
    BY DEF Attached
  <2> HIDE DEF l
  <2>3. [l EXCEPT !.result = "over"] \in Jobs(parts) /\ [l EXCEPT !.result = "over"].todo = j.todo
    BY <2>1 DEF Jobs, Results
  <2> QED BY <1>4, <1>5, <2>2, <2>3, Passed, Typed
<1>6. CASE f.mode = "error"
  <2>1. r \in Results
    BY DEF Results
  <2>2. [k EXCEPT !.result = r] \in Jobs(parts)
    BY <1>1, <2>1 DEF Jobs
  <2> QED BY <1>4, <1>6, <2>2, Refused, Typed DEF Dlls
<1>7. CASE f.mode \notin {"over", "error"}
  <2> DEFINE l == [k EXCEPT !.result = "endless", !.pc = "stuck", !.todo = <<>>]
  <2>1. "endless" \in Results /\ "stuck" \in Points /\ <<>> \in Todos
    BY Members DEF Results
  <2>2. l \in Jobs(parts) /\ l.pc = "stuck"
    BY <1>1, <2>1 DEF Jobs
  <2> HIDE DEF l
  <2>3. Guarded(l)
    BY <2>2 DEF Guarded
  <2>4. WithForm(j, f) = l
    BY <1>4, <1>7 DEF l
  <2> QED BY <2>2, <2>3, <2>4, Typed
<1> QED BY <1>5, <1>6, <1>7

LEMMA CookiesTyped ==
  ASSUME NEW P, NEW j \in Jobs(P)
  PROVE  /\ ParseUri(j) \in Jobs(P) /\ ParseUri(j).todo = j.todo
         /\ SetCookies(ParseUri(j), "freed") \in Jobs(P)
         /\ LET k == ParseCookies(ParseUri(j))
            IN  k \in Jobs(P) /\ k.todo = j.todo /\ k.pc = j.pc /\ k.req = j.req
<1>1. PICK k : k = ParseUri(j)
  OBVIOUS
<1>2. k \in Jobs(P) /\ k.todo = j.todo /\ k.pc = j.pc /\ k.req = j.req
  BY <1>1, ExtSet, Members DEF ParseUri
<1>3. PICK l : l = SetCookies(k, "live")
  OBVIOUS
<1>4. l \in Jobs(P) /\ l.todo = j.todo /\ l.pc = j.pc /\ l.req = j.req
  BY <1>2, <1>3, ExtSet, Members DEF SetCookies
<1>5. SetCookies(k, "freed") \in Jobs(P)
  BY <1>2, ExtSet, Members DEF SetCookies
<1> DEFINE m == [l EXCEPT !.ext["cookie"] = "live"]
<1>6. m \in Jobs(P) /\ m.todo = j.todo /\ m.pc = j.pc /\ m.req = j.req
  BY <1>4, ExtSet, Members
<1>7. ParseCookies(k) = m
  BY <1>3 DEF ParseCookies
<1> HIDE DEF m
<1> QED BY <1>1, <1>2, <1>5, <1>6, <1>7

\* http_parser_before as its returns one after the other.
LEMMA ParserBeforeIs ==
  ASSUME NEW j, NEW t, NEW f
  PROVE  LET k == Lost(j, t[5])
             l == ParseCookies(ParseUri(k))
         IN  \/ ParserBefore(j, t, f) = Refuse(k, "parser") /\ GoneAt(j, t[1])
             \/ ParserBefore(j, t, f) = Refuse(ParseUri(k), "parser") /\ ~GoneAt(j, t[1])
             \/ /\ ParserBefore(j, t, f) = Refuse(SetCookies(ParseUri(k), "freed"), "parser")
                /\ ~GoneAt(j, t[1])
             \/ /\ ParserBefore(j, t, f) = Pass(l) /\ ~GoneAt(j, t[1])
                /\ GoneAt(j, t[4]) \/ j.req.form = <<>>
             \/ /\ ParserBefore(j, t, f) = WithForm(l, f) /\ ~GoneAt(j, t[1])
                /\ j.req.form # <<>>
BY DEF ParserBefore, Lost

LEMMA ParserBeforeTyped ==
  ASSUME NEW P, NEW j \in Jobs(P), j.todo # <<>>, NEW t \in Moments(j, 5), NEW f
  PROVE  JobOK(ParserBefore(j, t, f))
<1>1. PICK k : k = Lost(j, t[5])
  OBVIOUS
<1>2. t[5] \in 0..2
  <2>1. \A i \in 1..5 : t[i] \in 0..2
    BY MomentsAre
  <2> QED BY <2>1
<1>3. k \in Jobs(P) /\ k.todo = j.todo
  BY <1>1, <1>2, LostTyped
<1>4. PICK l : l = ParseCookies(ParseUri(k))
  OBVIOUS
<1>5. l \in Jobs(P) /\ l.todo = j.todo
  BY <1>3, <1>4, CookiesTyped
<1>6. ParseUri(k) \in Jobs(P) /\ SetCookies(ParseUri(k), "freed") \in Jobs(P)
  BY <1>3, CookiesTyped
<1>7. /\ JobOK(Refuse(k, "parser")) /\ JobOK(Refuse(ParseUri(k), "parser"))
      /\ JobOK(Refuse(SetCookies(ParseUri(k), "freed"), "parser"))
  BY <1>3, <1>6, Refused, Typed, Members
<1>8. JobOK(Pass(l))
  BY <1>5, Passed, Typed
<1>9. JobOK(WithForm(l, f))
  BY <1>5, WithFormTyped
<1> QED BY <1>1, <1>4, <1>7, <1>8, <1>9, ParserBeforeIs

LEMMA NpBeforeTyped ==
  ASSUME NEW P, NEW j \in Jobs(P), j.todo # <<>>
  PROVE  JobOK(NpBefore(j))
BY Passed, Refused, Typed, Members DEF NpBefore

LEMMA ParserAfterTyped ==
  ASSUME NEW P, NEW j \in Jobs(P), j.todo # <<>>, NEW t \in Moments(j, 4)
  PROVE  JobOK(ParserAfter(j, t))
<1> DEFINE ext == [s \in Slots |-> IF ~Finds(j, s, t) THEN j.ext[s]
                                   ELSE IF s = "form" THEN "none" ELSE Free(j.ext[s])]
           misused == j.misused \/ \E s \in Slots : Finds(j, s, t) /\ j.ext[s] = "freed"
           files == FilesLeft(j, Finds(j, "form", t))
           lost == t[4]
           k == [j EXCEPT !.ext = ext, !.files = files, !.misused = misused, !.lost = lost]
<1>1. ext \in Exts
  BY DEF Exts, ExtStates, Free, Jobs
<1>2. misused \in BOOLEAN
  BY DEF Jobs
<1>3. files \in SUBSET DOMAIN P
  BY DEF Jobs, FilesLeft
<1>4. lost \in 0..2
  <2>1. \A i \in 1..4 : t[i] \in 0..2
    BY MomentsAre
  <2> QED BY <2>1
<1>5. ParserAfter(j, t) = Pass(k)
  BY DEF ParserAfter
<1> HIDE DEF ext, misused, files, lost
<1>6. k \in Jobs(P) /\ k.todo = j.todo
  BY <1>1, <1>2, <1>3, <1>4 DEF Jobs
<1> HIDE DEF k
<1> QED BY <1>5, <1>6, Passed, Typed
-----------------------------------------------------------------------------
(* Type correctness.                                                       *)

LEMMA Becoming ==
  ASSUME JobsOK, NEW w \in Workers, NEW j, JobOK(j), Becomes(w, j)
  PROVE  JobsOK'
<1>1. PICK q \in {job} : q = job
  OBVIOUS
<1>2. job' = [q EXCEPT ![w] = j] /\ q = [v \in Workers |-> q[v]]
  BY <1>1 DEF JobsOK, Becomes
<1>3. \A v \in Workers : JobOK(q[v])
  BY <1>1 DEF JobsOK
<1>4. \A v \in Workers : job'[v] = IF v = w THEN j ELSE q[v]
  BY <1>2
<1>5. \A v \in Workers : JobOK(job'[v])
  BY <1>3, <1>4
<1>6. job' = [v \in Workers |-> job'[v]]
  BY <1>2
<1> QED BY <1>5, <1>6 DEF JobsOK

LEMMA BeginTyped ==
  ASSUME TypeInv, NEW w \in Workers, NEW P, NEW j \in Jobs(P), Begin(w, j)
  PROVE  JobsOK'
<1> DEFINE early == j.early \/ loaded < Len(Handlers)
           k == [j EXCEPT !.early = early]
<1>1. early \in BOOLEAN
  BY DEF Jobs
<1> HIDE DEF early
<1>2. k \in Jobs(P)
  BY <1>1 DEF Jobs
<1>3. Becomes(w, Enter(k, before, "before", "call"))
  BY DEF Begin, early
<1> HIDE DEF k
<1>4. JobOK(Enter(k, before, "before", "call"))
  BY <1>2, Entered, Typed, Members DEF TypeInv, LoadOK
<1> QED BY <1>3, <1>4, Becoming DEF TypeInv

LEMMA TakeRequestTyped ==
  ASSUME TypeInv, NEW w \in Workers, NEW r \in Requests, TakeRequest(w, r) PROVE JobsOK'
<1>1. r \in Asked
  BY DEF Asked
<1>2. PICK timed \in BOOLEAN : timed = r.timed
  OBVIOUS
<1>3. [Idle EXCEPT !.req = r, !.timed = timed] \in Jobs(<<>>)
  BY <1>1, IdleTyped DEF Jobs
<1> QED BY <1>2, <1>3, BeginTyped DEF TakeRequest

LEMMA AgainTyped ==
  ASSUME TypeInv, NEW w \in Workers, Again(w) PROVE JobsOK'
<1> DEFINE j == job[w]
           ext == [NoExt EXCEPT !["set_cookie"] = j.ext["set_cookie"]]
<1>1. PICK lost \in Left(j) :
        Begin(w, [Idle EXCEPT !.again = TRUE, !.timed = j.timed, !.lost = lost,
                              !.early = j.early, !.misused = j.misused,
                              !.ext["set_cookie"] = j.ext["set_cookie"]])
  BY DEF Again
<1> DEFINE k == [Idle EXCEPT !.again = TRUE, !.timed = j.timed, !.lost = lost, !.early = j.early,
                             !.misused = j.misused]
           l == [Idle EXCEPT !.again = TRUE, !.timed = j.timed, !.lost = lost, !.early = j.early,
                             !.misused = j.misused, !.ext["set_cookie"] = j.ext["set_cookie"]]
<1>2. /\ j.early \in BOOLEAN /\ j.misused \in BOOLEAN /\ j.timed \in BOOLEAN
      /\ j.ext \in Exts /\ j.lost \in 0..2
  BY DEF TypeInv, JobsOK, JobOK, Jobs
<1>3. lost \in 0..2
  BY <1>2 DEF Left
<1>4. ext \in Exts
  BY <1>2 DEF Exts, ExtStates, NoExt, Slots
<1>5. k \in Jobs(<<>>)
  BY <1>2, <1>3, IdleTyped DEF Jobs
<1>6. Idle.ext = NoExt
  BY DEF Idle
<1>7. l = [k EXCEPT !.ext = ext]
  BY <1>6, Zenon
<1>8. Begin(w, l)
  BY <1>1
<1> HIDE DEF j, k, ext, l
<1>9. l \in Jobs(<<>>)
  BY <1>4, <1>5, <1>7 DEF Jobs
<1> QED BY <1>8, <1>9, BeginTyped

\* The filters, the call and the pages each make the job of the worker another job.
LEMMA RunBeforeTyped ==
  ASSUME TypeInv, NEW w \in Workers, RunBefore(w) PROVE JobsOK'
<1>1. JobOK(job[w]) /\ job[w].todo # <<>> /\ job[w] \in Jobs(job[w].parts)
  BY DEF TypeInv, JobsOK, RunBefore, At, JobOK, Guarded
<1>2. CASE Becomes(w, NpBefore(job[w]))
  BY <1>1, <1>2, NpBeforeTyped, Becoming DEF TypeInv
<1>3. CASE \E t \in Moments(job[w], 5) : \E f \in FormEnds(job[w].req.form, t) :
             Becomes(w, ParserBefore(job[w], t, f))
  <2>1. PICK t \in Moments(job[w], 5) :
               \E f : Becomes(w, ParserBefore(job[w], t, f))
    BY <1>3
  <2>2. PICK f : Becomes(w, ParserBefore(job[w], t, f))
    BY <2>1
  <2>3. JobOK(ParserBefore(job[w], t, f))
    BY <1>1, ParserBeforeTyped
  <2> QED BY <2>2, <2>3, Becoming DEF TypeInv
<1> QED BY <1>2, <1>3 DEF RunBefore

LEMMA RunAfterTyped ==
  ASSUME TypeInv, NEW w \in Workers, RunAfter(w) PROVE JobsOK'
<1>1. JobOK(job[w]) /\ job[w].todo # <<>> /\ job[w] \in Jobs(job[w].parts)
  BY DEF TypeInv, JobsOK, RunAfter, At, JobOK, Guarded
<1>2. CASE Becomes(w, Pass(job[w]))
  BY <1>1, <1>2, Passed, Typed, Becoming DEF TypeInv
<1>3. CASE \E t \in Moments(job[w], 4) : Becomes(w, ParserAfter(job[w], t))
  BY <1>1, <1>3, ParserAfterTyped, Becoming DEF TypeInv
<1> QED BY <1>2, <1>3 DEF RunAfter

LEMMA CallTyped ==
  ASSUME TypeInv, NEW w \in Workers, Call(w) PROVE JobsOK'
<1> DEFINE j == job[w]
<1>1. PICK left \in SUBSET j.files :
        Becomes(w, [j EXCEPT !.pc = "called", !.ran = TRUE, !.files = left])
  BY DEF Call
<1> DEFINE k == [j EXCEPT !.pc = "called", !.ran = TRUE, !.files = left]
<1>2. j \in Jobs(j.parts)
  BY DEF TypeInv, JobsOK, JobOK
<1>3. left \in SUBSET DOMAIN j.parts /\ "called" \in Points
  BY <1>2, Members DEF Jobs
<1>4. k \in Jobs(j.parts) /\ k.pc = "called"
  BY <1>2, <1>3 DEF Jobs
<1>5. Becomes(w, k)
  BY <1>1
<1> HIDE DEF k
<1>6. Guarded(k)
  BY <1>4 DEF Guarded
<1> QED BY <1>4, <1>5, <1>6, Typed, Becoming DEF TypeInv

LEMMA Answering ==
  ASSUME NEW P, NEW j \in Jobs(P), NEW pc \in {"called", "page"}
  PROVE  JobOK([j EXCEPT !.pc = pc])
<1>1. pc \in Points
  BY Members
<1>2. [j EXCEPT !.pc = pc] \in Jobs(P) /\ [j EXCEPT !.pc = pc].pc = pc
  BY <1>1 DEF Jobs
<1>3. Guarded([j EXCEPT !.pc = pc])
  BY <1>2 DEF Guarded
<1> QED BY <1>2, <1>3, Typed

LEMMA CallDefaultTyped ==
  ASSUME TypeInv, NEW w \in Workers, CallDefault(w) PROVE JobsOK'
<1>1. PICK pc \in {"called", "page"} : pc = IF Gone(job[w]) THEN "called" ELSE "page"
  OBVIOUS
<1>2. job[w] \in Jobs(job[w].parts)
  BY DEF TypeInv, JobsOK, JobOK
<1>3. JobOK([job[w] EXCEPT !.pc = pc])
  BY <1>2, Answering
<1>4. Becomes(w, [job[w] EXCEPT !.pc = pc])
  BY <1>1 DEF CallDefault
<1> QED BY <1>3, <1>4, Becoming DEF TypeInv

LEMMA AnswerTyped ==
  ASSUME TypeInv, NEW w \in Workers, NEW body \in Bodies, Answer(w, body)
  PROVE  JobsOK'
<1>1. PICK given \in Bodies : given = IF Answerable(job[w]) THEN body ELSE NoBody
  BY Members
<1> DEFINE j == job[w]
           k == [j EXCEPT !.pc = "called", !.body = given]
<1>2. j \in Jobs(j.parts)
  BY DEF TypeInv, JobsOK, JobOK
<1>3. "called" \in Points
  BY Members
<1>4. k \in Jobs(j.parts) /\ k.pc = "called"
  BY <1>2, <1>3 DEF Jobs
<1>5. Becomes(w, k)
  BY <1>1 DEF Answer
<1> HIDE DEF k
<1>6. Guarded(k)
  BY <1>4 DEF Guarded
<1> QED BY <1>4, <1>5, <1>6, Typed, Becoming DEF TypeInv

LEMMA PageTyped ==
  ASSUME TypeInv, NEW w \in Workers, FromCache(w) \/ NotCached(w)
  PROVE  JobsOK'
<1>1. CASE FromCache(w)
  <2> DEFINE version == cache[job[w].req.uri]
  <2>1. version \in 0..MaxVersion
    BY <1>1 DEF FromCache, Found, TypeInv, PagesOK
  <2>2. Body("cache", version) \in Bodies
    BY <2>1 DEF Body, Bodies
  <2>3. Answer(w, Body("cache", version))
    BY <1>1 DEF FromCache
  <2> QED BY <2>2, <2>3, AnswerTyped
<1>2. CASE NotCached(w)
  <2>1. PICK from \in {"file", "404", "garbage"} : Answer(w, Body(from, 0))
    BY <1>2 DEF NotCached
  <2>2. Body(from, 0) \in Bodies
    BY DEF Body, Bodies
  <2> QED BY <2>1, <2>2, AnswerTyped
<1> QED BY <1>1, <1>2

LEMMA ReadPageTyped ==
  ASSUME TypeInv, NEW w \in Workers, ReadPage(w) PROVE JobsOK'
<1> DEFINE j == job[w]
           body == Body("read", file[j.req.uri])
           k == [j EXCEPT !.pc = "insert", !.body = body]
<1>1. j \in Jobs(j.parts)
  BY DEF TypeInv, JobsOK, JobOK
<1>2. j.req.uri \in Pages
  BY DEF ReadPage, Found
<1>3. file[j.req.uri] \in 0..MaxVersion
  BY <1>2 DEF TypeInv, PagesOK
<1>4. "insert" \in Points /\ body \in Bodies
  BY <1>3, Members DEF Body, Bodies
<1>5. Becomes(w, k)
  BY DEF ReadPage
<1> HIDE DEF body
<1>6. k \in Jobs(j.parts) /\ k.pc = "insert" /\ k.req = j.req
  BY <1>1, <1>4 DEF Jobs
<1> HIDE DEF k
<1>7. Guarded(k)
  BY <1>2, <1>6 DEF Guarded
<1> QED BY <1>5, <1>6, <1>7, Typed, Becoming DEF TypeInv

\* What InsertPage does to the cache; its other half is an answer.
LEMMA Inserted ==
  ASSUME TypeInv, NEW w \in Workers, InsertPage(w)
  PROVE  /\ job[w].req.uri \in Pages
         /\ cache' \in [Pages -> 0..MaxVersion \cup {None}]
         /\ \A p \in Pages : cache[p] # None => cache'[p] = cache[p]
         /\ cache'[job[w].req.uri] \in 0..MaxVersion
         /\ Answer(w, Body("cache", cache'[job[w].req.uri]))
<1> DEFINE p == job[w].req.uri
           version == job[w].body.version
<1>1. p \in Pages
  BY DEF TypeInv, JobsOK, JobOK, Guarded, InsertPage, At
<1>2. job[w].body \in Bodies
  BY DEF TypeInv, JobsOK, JobOK, Jobs
<1>3. version \in 0..MaxVersion
  BY <1>2 DEF Bodies
<1>4. /\ cache' = [cache EXCEPT ![p] = Insert(cache[p], version)]
      /\ Answer(w, Body("cache", cache'[p]))
  BY DEF InsertPage
<1> HIDE DEF p, version
<1>5. cache \in [Pages -> 0..MaxVersion \cup {None}]
  BY DEF TypeInv, PagesOK
<1>6. Insert(cache[p], version) \in 0..MaxVersion
  BY <1>1, <1>3, <1>5 DEF Insert
<1>7. cache'[p] = Insert(cache[p], version)
  BY <1>1, <1>4, <1>5
<1>8. \A q \in Pages : cache[q] # None => cache'[q] = cache[q]
  BY <1>1, <1>4, <1>5 DEF Insert
<1>9. cache' \in [Pages -> 0..MaxVersion \cup {None}]
  BY <1>4, <1>5, <1>6
<1> QED BY <1>1, <1>4, <1>6, <1>7, <1>8, <1>9 DEF p

LEMMA InsertPageTyped ==
  ASSUME TypeInv, NEW w \in Workers, InsertPage(w) PROVE JobsOK' /\ PagesOK'
<1>1. PICK version \in 0..MaxVersion : version = cache'[job[w].req.uri]
  BY Inserted
<1>2. Body("cache", version) \in Bodies
  BY DEF Body, Bodies
<1>3. Answer(w, Body("cache", version))
  BY <1>1, Inserted
<1>4. JobsOK'
  BY <1>2, <1>3, AnswerTyped
<1>5. PagesOK'
  BY Inserted DEF TypeInv, PagesOK, InsertPage, config
<1> QED BY <1>4, <1>5

LEMMA CallDoneTyped ==
  ASSUME TypeInv, NEW w \in Workers, CallDone(w) PROVE JobsOK'
<1>1. job[w] \in Jobs(job[w].parts) /\ after \in Todos
  BY DEF TypeInv, JobsOK, JobOK, LoadOK
<1>2. JobOK(Enter(job[w], after, "after", "answer"))
  BY <1>1, Entered, Typed, Members
<1> QED BY <1>2, Becoming DEF CallDone, TypeInv

LEMMA LoopTyped ==
  ASSUME TypeInv, NEW w \in Workers, Loop(w) PROVE JobsOK'
<1>1. JobOK(job[w]) /\ job[w] \in Jobs(job[w].parts)
  BY DEF TypeInv, JobsOK, JobOK
<1>2. [job[w] EXCEPT !.result = "lost"] \in Jobs(job[w].parts)
  BY <1>1 DEF Jobs, Results
<1>3. JobOK(Refuse([job[w] EXCEPT !.result = "lost"], "parser"))
  BY <1>2, Refused, Typed, Members
<1> QED BY <1>1, <1>3, Becoming DEF Loop, TypeInv

LEMMA CloseLinkTyped ==
  ASSUME TypeInv, NEW w \in Workers, CloseLink(w) PROVE JobsOK'
<1>1. JobOK(job[w]) /\ job[w] \in Jobs(job[w].parts) /\ job[w].lost \in 0..2
  BY DEF TypeInv, JobsOK, JobOK, Jobs
<1>2. PICK lost \in 0..2 : lost = job[w].lost + 1
  BY <1>1 DEF CloseLink, Left
<1>3. Becomes(w, Lost(job[w], lost))
  BY <1>2 DEF CloseLink, Lost
<1>4. /\ Lost(job[w], lost) \in Jobs(job[w].parts) /\ Lost(job[w], lost).todo = job[w].todo
      /\ Lost(job[w], lost).pc = job[w].pc /\ Lost(job[w], lost).req = job[w].req
  BY <1>1, LostTyped
<1>5. Guarded(Lost(job[w], lost))
  BY <1>1, <1>4 DEF JobOK, Guarded
<1> QED BY <1>3, <1>4, <1>5, Typed, Becoming DEF TypeInv

LEMMA LoadNextTyped ==
  ASSUME TypeInv, LoadNext PROVE LoadOK'
<1> DEFINE e == Handlers[loaded + 1]
<1>1. e \in Handler /\ loaded + 1 \in 0..Len(Handlers)
  BY DEF LoadNext, TypeInv, LoadOK
<1>2. PICK d \in {"unknown", "loaded", "missing"} :
        /\ d \in IF dlls[e.dll] = "unknown" THEN {"loaded", "missing"} ELSE {dlls[e.dll]}
        /\ loaded' = loaded + 1
        /\ dlls' = [dlls EXCEPT ![e.dll] = d]
        /\ before' = IF d = "loaded" /\ e.type = "before" THEN AddHandler(before, e.dll) ELSE before
        /\ after' = IF d = "loaded" /\ e.type = "after" THEN AddHandler(after, e.dll) ELSE after
        /\ bound' = IF d = "loaded" /\ e.type = "uri" THEN bound \cup {e.uri} ELSE bound
  BY <1>1 DEF LoadNext, TypeInv, LoadOK, Handler
<1> HIDE DEF e
<1>3. e.dll \in Dlls /\ e.uri \in Uris \cup {None}
  BY <1>1 DEF Handler
<1>4. AddHandler(before, e.dll) \in Todos /\ AddHandler(after, e.dll) \in Todos
  BY <1>3 DEF TypeInv, LoadOK, Todos, AddHandler
<1> QED BY <1>1, <1>2, <1>3, <1>4 DEF TypeInv, LoadOK

LEMMA RestartTyped == ASSUME TypeInv, Restart PROVE TypeInv'
<1>1. LoadOK'
  BY Members DEF Restart, LoadOK
<1>2. PagesOK'
  BY DEF Restart, TypeInv, PagesOK, config
<1>3. JobsOK'
  BY IdleTyped DEF Restart, JobsOK
<1>4. crashed' \in BOOLEAN
  BY DEF Restart
<1> QED BY <1>1, <1>2, <1>3, <1>4 DEF TypeInv

LEMMA WorkTyped ==
  ASSUME TypeInv, NEW w \in Workers, Work(w) \/ \E r \in Requests : TakeRequest(w, r)
  PROVE  TypeInv'
<1>1. JobsOK'
  <2>1. CASE RunBefore(w) \/ RunAfter(w)
    BY <2>1, RunBeforeTyped, RunAfterTyped
  <2>2. CASE Call(w) \/ CallDefault(w) \/ CallDone(w)
    BY <2>2, CallTyped, CallDefaultTyped, CallDoneTyped
  <2>3. CASE FromCache(w) \/ NotCached(w)
    BY <2>3, PageTyped
  <2>4. CASE ReadPage(w) \/ InsertPage(w)
    BY <2>4, ReadPageTyped, InsertPageTyped
  <2>5. CASE Answered(w)
    BY <2>5, IdleTyped, Becoming DEF Answered, TypeInv
  <2>6. CASE Again(w)
    BY <2>6, AgainTyped
  <2>7. CASE Loop(w) \/ CloseLink(w)
    BY <2>7, LoopTyped, CloseLinkTyped
  <2>8. CASE \E r \in Requests : TakeRequest(w, r)
    BY <2>8, TakeRequestTyped
  <2> QED BY <2>1, <2>2, <2>3, <2>4, <2>5, <2>6, <2>7, <2>8 DEF Work
<1>2. LoadOK' /\ PagesOK'
  <2>1. CASE InsertPage(w)
    BY <2>1, InsertPageTyped DEF InsertPage, TypeInv, LoadOK, loading
  <2>2. CASE ~InsertPage(w)
    <3>1. UNCHANGED <<loading, config, file, cache>>
      BY <2>2 DEF Work, RunBefore, Call, CallDefault, FromCache, NotCached, ReadPage, CallDone,
                  RunAfter, Answered, Again, Loop, CloseLink, TakeRequest
    <3> QED BY <3>1 DEF TypeInv, LoadOK, PagesOK, loading, config
  <2> QED BY <2>1, <2>2
<1>3. crashed' \in BOOLEAN
  BY DEF Work, RunBefore, Call, CallDefault, FromCache, NotCached, ReadPage, InsertPage, CallDone,
         RunAfter, Answered, Again, Loop, CloseLink, TakeRequest, TypeInv
<1> QED BY <1>1, <1>2, <1>3 DEF TypeInv

LEMMA StepTyped == ASSUME TypeInv, [Next]_wvars PROVE TypeInv'
<1>1. CASE LoadNext
  <2>1. PagesOK' /\ JobsOK' /\ crashed' \in BOOLEAN
    BY <1>1 DEF LoadNext, TypeInv, PagesOK, JobsOK, config
  <2> QED BY <1>1, <2>1, LoadNextTyped DEF TypeInv
<1>2. CASE Restart
  BY <1>2, RestartTyped
<1>3. CASE \E w \in Workers : Work(w) \/ \E r \in Requests : TakeRequest(w, r)
  BY <1>3, WorkTyped
<1>4. CASE \E p \in Pages : FileChanges(p)
  <2>1. PICK p \in Pages : FileChanges(p)
    BY <1>4
  <2>2. PagesOK'
    BY <2>1 DEF FileChanges, TypeInv, PagesOK, config
  <2>3. LoadOK' /\ JobsOK' /\ crashed' \in BOOLEAN
    BY <2>1 DEF FileChanges, TypeInv, LoadOK, JobsOK, loading
  <2> QED BY <2>2, <2>3 DEF TypeInv
<1>5. CASE UNCHANGED wvars
  BY <1>5 DEF TypeInv, LoadOK, PagesOK, JobsOK, wvars, loading, config
<1> QED BY <1>1, <1>2, <1>3, <1>4, <1>5 DEF Next

\* The variables have their types in every reachable state: whatever a form makes of a
\* request, a filter that is called is there, and a file that a request has written belongs
\* to a part of its form.
THEOREM WebTyped == Spec => []WebTypeOK
<1>1. Init => TypeInv
  BY InitTyped
<1>2. TypeInv /\ [Next]_wvars => TypeInv'
  BY StepTyped
<1>3. TypeInv => WebTypeOK
  BY TypeInvIsTypeOK
<1> QED BY <1>1, <1>2, <1>3, PTL DEF Spec
-----------------------------------------------------------------------------
(* What the filters leave alone.                                           *)

\* No filter changes these of a job, and few the others.
SameRequest(j, k) == k.req = j.req /\ k.again = j.again /\ k.early = j.early /\ k.body = j.body
SameTraces(j, k) ==
  /\ k.refusedBy = j.refusedBy /\ k.ran = j.ran /\ k.ext = j.ext /\ k.files = j.files
  /\ k.misused = j.misused /\ k.lost = j.lost
\* Where a filter that returns 0 leads.
Onward(j, k) ==
  /\ k.todo = Tail(j.todo)
  /\ k.pc = IF Tail(j.todo) # <<>> THEN (IF j.pc = "before" THEN "before" ELSE "after")
            ELSE IF j.pc = "before" THEN "call" ELSE "answer"

LEMMA EnterFields ==
  ASSUME NEW P, NEW j \in Jobs(P), NEW todo, NEW pc, NEW behind
  PROVE  LET k == Enter(j, todo, pc, behind)
         IN  /\ SameRequest(j, k) /\ SameTraces(j, k) /\ k.todo = todo
             /\ k.pc = IF todo = <<>> THEN behind ELSE pc
BY DEF Enter, Jobs, SameRequest, SameTraces

LEMMA PassFields ==
  ASSUME NEW P, NEW j \in Jobs(P)
  PROVE  SameRequest(j, Pass(j)) /\ SameTraces(j, Pass(j)) /\ Onward(j, Pass(j))
<1>1. PICK t \in {Tail(j.todo)} : t = Tail(j.todo)
  OBVIOUS
<1>2. CASE j.pc = "before"
  <2>1. Pass(j) = Enter(j, t, "before", "call")
    BY <1>1, <1>2 DEF Pass
  <2>2. /\ SameRequest(j, Pass(j)) /\ SameTraces(j, Pass(j)) /\ Pass(j).todo = t
        /\ Pass(j).pc = IF t = <<>> THEN "call" ELSE "before"
    BY <2>1, EnterFields
  <2>3. Onward(j, Pass(j))
    BY <1>1, <1>2, <2>2, Zenon DEF Onward
  <2> QED BY <2>2, <2>3
<1>3. CASE j.pc # "before"
  <2>1. Pass(j) = Enter(j, t, "after", "answer")
    BY <1>1, <1>3 DEF Pass
  <2>2. /\ SameRequest(j, Pass(j)) /\ SameTraces(j, Pass(j)) /\ Pass(j).todo = t
        /\ Pass(j).pc = IF t = <<>> THEN "answer" ELSE "after"
    BY <2>1, EnterFields
  <2>3. Onward(j, Pass(j))
    BY <1>1, <1>3, <2>2, Zenon DEF Onward
  <2> QED BY <2>2, <2>3
<1> QED BY <1>2, <1>3

LEMMA RefuseFields ==
  ASSUME NEW P, NEW j \in Jobs(P), NEW d
  PROVE  LET k == Refuse(j, d)
         IN  /\ SameRequest(j, k) /\ k.pc = "answer" /\ k.todo = <<>> /\ k.refusedBy = d
             /\ k.ran = j.ran /\ k.ext = j.ext /\ k.misused = j.misused /\ k.lost = j.lost
BY DEF Refuse, Jobs, SameRequest

LEMMA LostFields ==
  ASSUME NEW P, NEW j \in Jobs(P), NEW lost \in 0..2
  PROVE  LET k == Lost(j, lost)
         IN  /\ SameRequest(j, k) /\ k.pc = j.pc /\ k.todo = j.todo
             /\ k.refusedBy = j.refusedBy /\ k.ran = j.ran /\ k.files = j.files
             /\ k.misused = j.misused /\ k.ext = j.ext /\ k.lost = lost
BY DEF Lost, Jobs, SameRequest

\* Nothing but what is attached changes.
SameButExt(j, k) ==
  /\ SameRequest(j, k) /\ k.pc = j.pc /\ k.todo = j.todo
  /\ k.refusedBy = j.refusedBy /\ k.ran = j.ran /\ k.files = j.files
  /\ k.misused = j.misused /\ k.lost = j.lost

LEMMA ExtFields ==
  ASSUME NEW P, NEW j \in Jobs(P), NEW s \in Slots, NEW e \in ExtStates
  PROVE  LET k == [j EXCEPT !.ext[s] = e]
         IN  SameButExt(j, k) /\ k.ext = [j.ext EXCEPT ![s] = e]
<1>1. [j EXCEPT !.ext[s] = e] = [j EXCEPT !.ext = [j.ext EXCEPT ![s] = e]]
  BY Zenon
<1> QED BY <1>1 DEF Jobs, SameRequest, SameButExt

LEMMA CookiesFields ==
  ASSUME NEW P, NEW j \in Jobs(P)
  PROVE  /\ SameButExt(j, ParseUri(j))
         /\ SameButExt(j, SetCookies(ParseUri(j), "freed"))
         /\ LET k == ParseCookies(ParseUri(j))
            IN  /\ SameButExt(j, k)
                /\ k.ext["cookie"] = "live" /\ \A s \in Slots : k.ext[s] \in {j.ext[s], "live"}
<1>1. PICK k : k = ParseUri(j)
  OBVIOUS
<1>2. k \in Jobs(P) /\ SameButExt(j, k) /\ k.ext = [j.ext EXCEPT !["uri"] = "live"]
  BY <1>1, ExtSet, ExtFields, Members DEF ParseUri
<1>3. SameButExt(k, SetCookies(k, "freed"))
  BY <1>2, ExtFields, Members DEF SetCookies
<1>4. PICK l : l = SetCookies(k, "live")
  OBVIOUS
<1>5. l \in Jobs(P) /\ SameButExt(k, l) /\ l.ext = [k.ext EXCEPT !["set_cookie"] = "live"]
  BY <1>2, <1>4, ExtSet, ExtFields, Members DEF SetCookies
<1> DEFINE m == [l EXCEPT !.ext["cookie"] = "live"]
<1>6. SameButExt(l, m) /\ m.ext = [l.ext EXCEPT !["cookie"] = "live"]
  BY <1>5, ExtFields, Members
<1>7. ParseCookies(k) = m
  BY <1>4 DEF ParseCookies
<1> HIDE DEF m
<1>8. j.ext \in Exts
  BY DEF Jobs
<1>9. m.ext["cookie"] = "live" /\ \A s \in Slots : m.ext[s] \in {j.ext[s], "live"}
  BY <1>2, <1>5, <1>6, <1>8 DEF Exts, Slots
<1>10. SameButExt(j, m) /\ SameButExt(j, SetCookies(k, "freed"))
  BY <1>2, <1>3, <1>5, <1>6 DEF SameButExt, SameRequest
<1> QED BY <1>1, <1>2, <1>7, <1>9, <1>10

LEMMA WithFormFields ==
  ASSUME NEW P, NEW j \in Jobs(P), NEW f
  PROVE  LET k == WithForm(j, f)
         IN  /\ SameRequest(j, k) /\ k.ran = j.ran /\ k.misused = j.misused /\ k.lost = j.lost
             /\ \/ /\ Onward(j, k) /\ k.refusedBy = j.refusedBy
                   /\ k.ext = [j.ext EXCEPT !["form"] = IF Gone(j) THEN "none" ELSE "live"]
                \/ /\ k.pc = "answer" /\ k.todo = <<>> /\ k.refusedBy = "parser" /\ k.ext = j.ext
                \/ /\ k.pc = "stuck" /\ k.todo = <<>> /\ k.refusedBy = j.refusedBy
                   /\ k.ext = j.ext
<1> DEFINE parts == ReadParts(f)
           k == Filled(j, parts)
           Same(a, b) == /\ SameRequest(a, b) /\ b.pc = a.pc /\ b.todo = a.todo
                         /\ b.refusedBy = a.refusedBy /\ b.ran = a.ran /\ b.misused = a.misused
                         /\ b.lost = a.lost
<1>1. k \in Jobs(parts) /\ Same(j, k) /\ k.ext = j.ext
  BY FormTyped DEF Filled, Jobs, SameRequest
<1>2. PICK e \in ExtStates : e = IF Gone(j) THEN "none" ELSE "live"
  BY Members
<1>3. PICK r \in Results : r = IF Gone(j) THEN "lost" ELSE "error"
  BY DEF Results
<1>4. /\ f.mode = "over" => WithForm(j, f) = Pass(Attached(k, e))
      /\ f.mode = "error" => WithForm(j, f) = Refuse([k EXCEPT !.result = r], "parser")
      /\ f.mode \notin {"over", "error"} =>
           WithForm(j, f) = [k EXCEPT !.result = "endless", !.pc = "stuck", !.todo = <<>>]
  BY <1>2, <1>3, WithFormIs
<1> HIDE DEF k, parts
<1>5. CASE f.mode = "over"
  <2> DEFINE l == [k EXCEPT !.ext["form"] = e]
             m == [l EXCEPT !.result = "over"]
  <2>1. l \in Jobs(parts) /\ Same(k, l) /\ l.ext = [k.ext EXCEPT !["form"] = e]
    BY <1>1, ExtSet, ExtFields, Members DEF SameButExt
  <2>2. Attached(k, e) = m
    BY DEF Attached
  <2> HIDE DEF l
  <2>3. m \in Jobs(parts) /\ Same(l, m) /\ m.ext = l.ext
    BY <2>1 DEF Jobs, Results, SameRequest
  <2> HIDE DEF m
  <2>4. SameRequest(m, Pass(m)) /\ SameTraces(m, Pass(m)) /\ Onward(m, Pass(m))
    BY <2>3, PassFields
  <2>5. WithForm(j, f) = Pass(m)
    BY <1>4, <1>5, <2>2
  <2> QED BY <1>1, <1>2, <2>1, <2>3, <2>4, <2>5 DEF SameRequest, SameTraces, Onward
<1>6. CASE f.mode = "error"
  <2> DEFINE l == [k EXCEPT !.result = r]
  <2>1. l \in Jobs(parts) /\ Same(k, l) /\ l.ext = k.ext
    BY <1>1 DEF Jobs, SameRequest
  <2>2. WithForm(j, f) = Refuse(l, "parser")
    BY <1>4, <1>6
  <2> HIDE DEF l
  <2> QED BY <1>1, <2>1, <2>2, RefuseFields DEF SameRequest
<1>7. CASE f.mode \notin {"over", "error"}
  <2> DEFINE l == [k EXCEPT !.result = "endless", !.pc = "stuck", !.todo = <<>>]
  <2>1. /\ SameRequest(k, l) /\ l.pc = "stuck" /\ l.todo = <<>> /\ l.refusedBy = k.refusedBy
        /\ l.ran = k.ran /\ l.misused = k.misused /\ l.ext = k.ext /\ l.lost = k.lost
    BY <1>1 DEF Jobs, SameRequest
  <2>2. WithForm(j, f) = l
    BY <1>4, <1>7
  <2> HIDE DEF l
  <2> QED BY <1>1, <2>1, <2>2 DEF SameRequest
<1> QED BY <1>5, <1>6, <1>7

\* http_parser_before attaches what it needs and passes the request on, or it does not.
Attaches(j, k) ==
  /\ ~j.again /\ Onward(j, k) /\ k.refusedBy = j.refusedBy /\ k.ext["cookie"] = "live"
  /\ \A s \in Slots : k.ext[s] \in {j.ext[s], "live"} \/ (k.ext[s] = "none" /\ k.lost > 0)
  /\ k.files = j.files \/ k.ext["form"] = "live" \/ k.lost > 0
Stops(j, k) ==
  /\ k.pc \in {"answer", "stuck"} /\ k.todo = <<>>
  /\ k.pc = "answer" => k.refusedBy = "parser"
  /\ k.refusedBy \in {j.refusedBy, "parser"}
  /\ j.again => k.pc = "answer" /\ k.ext = j.ext
  /\ k.pc = "stuck" => \A s \in Slots : k.ext[s] \in {j.ext[s], "live"}

LEMMA ParserBeforeFields ==
  ASSUME NEW P, NEW j \in Jobs(P), NEW t \in Moments(j, 5), NEW f
  PROVE  LET k == ParserBefore(j, t, f)
         IN  /\ SameRequest(j, k) /\ k.ran = j.ran /\ k.misused = j.misused
             /\ j.lost <= k.lost /\ k.lost \in 0..2
             /\ Attaches(j, k) \/ Stops(j, k)
<1>1. PICK k : k = ParserBefore(j, t, f)
  OBVIOUS
<1>2. PICK i : i = Lost(j, t[5])
  OBVIOUS
<1>3. t[5] \in 0..2 /\ j.lost <= t[5]
  <2>1. \A n \in 1..5 : t[n] \in 0..2 /\ j.lost <= t[n]
    BY MomentsAre
  <2>2. 5 \in 1..5
    OBVIOUS
  <2> QED BY <2>1, <2>2, Zenon
<1>4. /\ i \in Jobs(P) /\ SameRequest(j, i) /\ i.pc = j.pc /\ i.todo = j.todo
      /\ i.refusedBy = j.refusedBy /\ i.ran = j.ran /\ i.files = j.files
      /\ i.misused = j.misused /\ i.ext = j.ext /\ i.lost \in 0..2 /\ j.lost <= i.lost
  <2>1. PICK lost \in 0..2 : lost = t[5]
    BY <1>3
  <2>2. i = Lost(j, lost) /\ j.lost <= lost
    BY <1>2, <1>3, <2>1
  <2> QED BY <2>2, LostTyped, LostFields
<1>5. PICK u, v, c : u = ParseUri(i) /\ v = SetCookies(ParseUri(i), "freed")
                     /\ c = ParseCookies(ParseUri(i))
  OBVIOUS
<1>6. /\ u \in Jobs(P) /\ v \in Jobs(P) /\ c \in Jobs(P)
      /\ SameButExt(i, u) /\ SameButExt(i, v) /\ SameButExt(i, c)
      /\ c.ext["cookie"] = "live" /\ \A s \in Slots : c.ext[s] \in {i.ext[s], "live"}
  BY <1>4, <1>5, CookiesTyped, CookiesFields
<1>7. \/ k = Refuse(i, "parser")
      \/ k \in {Refuse(u, "parser"), Refuse(v, "parser")} /\ ~j.again
      \/ k = Pass(c) /\ ~j.again
      \/ k = WithForm(c, f) /\ ~j.again
  BY <1>1, <1>2, <1>5, ParserBeforeIs DEF GoneAt
<1> SUFFICES /\ SameRequest(j, k) /\ k.ran = j.ran /\ k.misused = j.misused
             /\ k.lost = i.lost
             /\ Attaches(j, k) \/ Stops(j, k)
  BY <1>1, <1>4
<1>8. ASSUME NEW b \in Jobs(P), SameButExt(i, b), k = Refuse(b, "parser"),
             j.again => b.ext = j.ext
      PROVE  /\ SameRequest(j, k) /\ k.ran = j.ran /\ k.misused = j.misused
             /\ k.lost = i.lost /\ Stops(j, k)
  <2>1. /\ SameRequest(b, k) /\ k.pc = "answer" /\ k.todo = <<>> /\ k.refusedBy = "parser"
        /\ k.ran = b.ran /\ k.ext = b.ext /\ k.misused = b.misused /\ k.lost = b.lost
    BY <1>8, RefuseFields
  <2> QED BY <1>4, <1>8, <2>1 DEF SameButExt, SameRequest, Stops
<1>9. CASE k = Refuse(i, "parser")
  <2>1. SameButExt(i, i)
    BY DEF SameButExt, SameRequest
  <2> QED BY <1>4, <1>8, <1>9, <2>1
<1>10. CASE k \in {Refuse(u, "parser"), Refuse(v, "parser")} /\ ~j.again
  BY <1>6, <1>8, <1>10
<1>11. CASE k = Pass(c) /\ ~j.again
  <2>1. SameRequest(c, k) /\ SameTraces(c, k) /\ Onward(c, k)
    BY <1>6, <1>11, PassFields
  <2> QED BY <1>4, <1>6, <1>11, <2>1 DEF SameButExt, SameRequest, SameTraces, Onward, Attaches
<1>12. CASE k = WithForm(c, f) /\ ~j.again
  <2>1. /\ SameRequest(c, k) /\ k.ran = c.ran /\ k.misused = c.misused /\ k.lost = c.lost
        /\ \/ /\ Onward(c, k) /\ k.refusedBy = c.refusedBy
              /\ k.ext = [c.ext EXCEPT !["form"] = IF Gone(c) THEN "none" ELSE "live"]
           \/ /\ k.pc = "answer" /\ k.todo = <<>> /\ k.refusedBy = "parser" /\ k.ext = c.ext
           \/ /\ k.pc = "stuck" /\ k.todo = <<>> /\ k.refusedBy = c.refusedBy
              /\ k.ext = c.ext
    BY <1>6, <1>12, WithFormFields
  <2>2. SameRequest(j, k) /\ k.ran = j.ran /\ k.misused = j.misused /\ k.lost = i.lost
    BY <1>4, <1>6, <2>1 DEF SameButExt, SameRequest
  <2>3. CASE /\ Onward(c, k) /\ k.refusedBy = c.refusedBy
             /\ k.ext = [c.ext EXCEPT !["form"] = IF Gone(c) THEN "none" ELSE "live"]
    <3>1. PICK e : e = IF Gone(c) THEN "none" ELSE "live"
      OBVIOUS
    <3>2. e = "live" \/ (e = "none" /\ k.lost > 0)
      BY <1>4, <1>6, <1>12, <2>1, <3>1 DEF Gone, GoneAt, SameButExt, SameRequest
    <3>3. c.ext \in Exts
      BY <1>6 DEF Jobs
    <3>4. k.ext["cookie"] = "live" /\ k.ext["form"] = e
          /\ \A s \in Slots : k.ext[s] \in {c.ext[s], e}
      BY <1>6, <2>3, <3>1, <3>3 DEF Exts, Slots
    <3>5. Onward(j, k) /\ k.refusedBy = j.refusedBy
      BY <1>4, <1>6, <2>3 DEF Onward, SameButExt
    <3>6. \A s \in Slots : c.ext[s] \in {j.ext[s], "live"}
      BY <1>4, <1>6
    <3>7. Attaches(j, k)
      BY <1>12, <3>2, <3>4, <3>5, <3>6 DEF Attaches
    <3> QED BY <2>2, <3>7
  <2>4. CASE k.pc = "answer" /\ k.todo = <<>> /\ k.refusedBy = "parser" /\ k.ext = c.ext
    BY <1>12, <2>2, <2>4 DEF Stops
  <2>5. CASE k.pc = "stuck" /\ k.todo = <<>> /\ k.refusedBy = c.refusedBy /\ k.ext = c.ext
    BY <1>4, <1>6, <1>12, <2>2, <2>5 DEF SameButExt, Stops
  <2> QED BY <2>1, <2>3, <2>4, <2>5
<1> QED BY <1>7, <1>9, <1>10, <1>11, <1>12

LEMMA NpBeforeFields ==
  ASSUME NEW P, NEW j \in Jobs(P)
  PROVE  LET k == NpBefore(j)
             turned == (j.req.uri \in Protected /\ ~Known(j)) \/ j.req.uri = Index
         IN  /\ SameRequest(j, k) /\ k.ran = j.ran /\ k.ext = j.ext /\ k.misused = j.misused
             /\ \/ (~turned \/ Gone(j)) /\ Onward(j, k) /\ SameTraces(j, k)
                \/ turned /\ k.pc = "answer" /\ k.todo = <<>> /\ k.refusedBy = "np"
<1> DEFINE turned == (j.req.uri \in Protected /\ ~Known(j)) \/ j.req.uri = Index
<1>1. CASE ~Gone(j) /\ turned
  <2>1. NpBefore(j) = Refuse(j, "np")
    BY <1>1 DEF NpBefore
  <2> QED BY <1>1, <2>1, RefuseFields
<1>2. CASE ~(~Gone(j) /\ turned)
  <2>1. NpBefore(j) = Pass(j)
    BY <1>2 DEF NpBefore
  <2> QED BY <1>2, <2>1, PassFields DEF SameTraces
<1> QED BY <1>1, <1>2

LEMMA ParserAfterFields ==
  ASSUME NEW P, NEW j \in Jobs(P), NEW t \in Moments(j, 4)
  PROVE  LET k == ParserAfter(j, t)
         IN  /\ SameRequest(j, k) /\ Onward(j, k) /\ k.refusedBy = j.refusedBy /\ k.ran = j.ran
             /\ k.files = FilesLeft(j, Finds(j, "form", t)) /\ k.lost = t[4] /\ t[4] \in 0..2
             /\ k.misused = (j.misused \/ \E s \in Slots : Finds(j, s, t) /\ j.ext[s] = "freed")
             /\ \A s \in Slots : k.ext[s] = IF ~Finds(j, s, t) THEN j.ext[s]
                                          ELSE IF s = "form" THEN "none" ELSE Free(j.ext[s])
<1> DEFINE ext == [s \in Slots |-> IF ~Finds(j, s, t) THEN j.ext[s]
                                   ELSE IF s = "form" THEN "none" ELSE Free(j.ext[s])]
           misused == j.misused \/ \E s \in Slots : Finds(j, s, t) /\ j.ext[s] = "freed"
           files == FilesLeft(j, Finds(j, "form", t))
           lost == t[4]
           k == [j EXCEPT !.ext = ext, !.files = files, !.misused = misused, !.lost = lost]
<1>1. ext \in Exts
  BY DEF Exts, ExtStates, Free, Jobs
<1>2. misused \in BOOLEAN
  BY DEF Jobs
<1>3. files \in SUBSET DOMAIN P
  BY DEF Jobs, FilesLeft
<1>4. lost \in 0..2
  <2>1. \A i \in 1..4 : t[i] \in 0..2
    BY MomentsAre
  <2> QED BY <2>1
<1>5. ParserAfter(j, t) = Pass(k)
  BY DEF ParserAfter
<1>6. \A s \in Slots : ext[s] = IF ~Finds(j, s, t) THEN j.ext[s]
                                ELSE IF s = "form" THEN "none" ELSE Free(j.ext[s])
  OBVIOUS
<1> HIDE DEF ext, misused, files, lost
<1>7. /\ k \in Jobs(P) /\ SameRequest(j, k) /\ k.todo = j.todo /\ k.pc = j.pc
      /\ k.refusedBy = j.refusedBy /\ k.ran = j.ran
      /\ k.ext = ext /\ k.files = files /\ k.misused = misused /\ k.lost = lost
  BY <1>1, <1>2, <1>3, <1>4 DEF Jobs, SameRequest
<1> HIDE DEF k
<1>8. SameRequest(k, Pass(k)) /\ SameTraces(k, Pass(k)) /\ Onward(k, Pass(k))
  BY <1>7, PassFields
<1>9. SameRequest(j, Pass(k)) /\ Onward(j, Pass(k))
  BY <1>7, <1>8 DEF SameRequest, Onward
<1>10. /\ Pass(k).refusedBy = j.refusedBy /\ Pass(k).ran = j.ran /\ Pass(k).files = files
       /\ Pass(k).misused = misused /\ Pass(k).ext = ext /\ Pass(k).lost = lost
  BY <1>7, <1>8 DEF SameTraces
<1> QED BY <1>4, <1>5, <1>6, <1>9, <1>10 DEF files, misused, lost
-----------------------------------------------------------------------------
(* The cached pages.                                                       *)

\* An answer from the cache is a page, that the cache has, as it is there.
Cached(j) ==
  j.body.from = "cache" =>
    /\ j.req.uri \in Pages /\ cache[j.req.uri] # None
    /\ j.body.version = cache[j.req.uri]
AllCached == \A w \in Workers : Cached(job[w])

LEMMA JobSet ==
  ASSUME JobsOK, NEW w \in Workers, NEW k, Becomes(w, k)
  PROVE  \A v \in Workers : job'[v] = IF v = w THEN k ELSE job[v]
BY DEF JobsOK, Becomes

LEMMA CacheKept ==
  ASSUME JobsOK, AllCached, cache' = cache, NEW w \in Workers, NEW k, Becomes(w, k), Cached(k)
  PROVE  AllCached'
<1>1. \A v \in Workers : job'[v] = IF v = w THEN k ELSE job[v]
  BY JobSet
<1> QED BY <1>1 DEF AllCached, Cached

LEMMA SamePage ==
  ASSUME AllCached, NEW w \in Workers, NEW k, SameRequest(job[w], k)
  PROVE  Cached(k)
BY DEF AllCached, Cached, SameRequest

LEMMA FiltersCached ==
  ASSUME TypeInv, AllCached, NEW w \in Workers,
         \/ RunBefore(w) \/ RunAfter(w) \/ CallDone(w) \/ Call(w) \/ CallDefault(w)
         \/ Loop(w) \/ CloseLink(w)
  PROVE  AllCached'
<1> DEFINE j == job[w]
<1>1. j \in Jobs(j.parts) /\ JobsOK
  BY DEF TypeInv, JobsOK, JobOK
<1>2. cache' = cache
  BY DEF RunBefore, RunAfter, CallDone, Call, CallDefault, Loop, CloseLink
<1>3. PICK k : Becomes(w, k) /\ SameRequest(j, k)
  <2>1. CASE RunBefore(w)
    <3>1. \/ \E t \in Moments(j, 5) : \E f : Becomes(w, ParserBefore(j, t, f))
          \/ Becomes(w, NpBefore(j))
      BY <2>1 DEF RunBefore
    <3>2. SameRequest(j, NpBefore(j))
      BY <1>1, NpBeforeFields
    <3>3. \A t \in Moments(j, 5) : \A f : SameRequest(j, ParserBefore(j, t, f))
      BY <1>1, ParserBeforeFields
    <3> QED BY <3>1, <3>2, <3>3
  <2>2. CASE RunAfter(w)
    <3>1. (\E t \in Moments(j, 4) : Becomes(w, ParserAfter(j, t))) \/ Becomes(w, Pass(j))
      BY <2>2 DEF RunAfter
    <3>2. SameRequest(j, Pass(j))
      BY <1>1, PassFields
    <3>3. \A t \in Moments(j, 4) : SameRequest(j, ParserAfter(j, t))
      BY <1>1, ParserAfterFields
    <3> QED BY <3>1, <3>2, <3>3
  <2>3. CASE CallDone(w)
    BY <1>1, <2>3, EnterFields DEF CallDone
  <2>4. CASE Call(w)
    <3>1. PICK left \in SUBSET j.files :
            Becomes(w, [j EXCEPT !.pc = "called", !.ran = TRUE, !.files = left])
      BY <2>4 DEF Call
    <3>2. SameRequest(j, [j EXCEPT !.pc = "called", !.ran = TRUE, !.files = left])
      BY <1>1 DEF Jobs, SameRequest
    <3> QED BY <3>1, <3>2
  <2>5. CASE CallDefault(w)
    <3>1. Becomes(w, [j EXCEPT !.pc = IF Gone(j) THEN "called" ELSE "page"])
      BY <2>5 DEF CallDefault
    <3>2. SameRequest(j, [j EXCEPT !.pc = IF Gone(j) THEN "called" ELSE "page"])
      BY <1>1 DEF Jobs, SameRequest
    <3> QED BY <3>1, <3>2
  <2>6. CASE Loop(w)
    <3>1. Becomes(w, Refuse([j EXCEPT !.result = "lost"], "parser")) \/ Becomes(w, j)
      BY <2>6 DEF Loop
    <3>2. SameRequest(j, Refuse([j EXCEPT !.result = "lost"], "parser"))
      BY <1>1 DEF Jobs, Refuse, SameRequest
    <3> QED BY <3>1, <3>2 DEF SameRequest
  <2>7. CASE CloseLink(w)
    <3>1. Becomes(w, Lost(j, j.lost + 1))
      BY <2>7 DEF CloseLink, Lost
    <3>2. SameRequest(j, Lost(j, j.lost + 1))
      BY <1>1 DEF Jobs, Lost, SameRequest
    <3> QED BY <3>1, <3>2
  <2> QED BY <2>1, <2>2, <2>3, <2>4, <2>5, <2>6, <2>7
<1> QED BY <1>1, <1>2, <1>3, SamePage, CacheKept

\* A request that begins has no answer yet.
LEMMA BeginCached ==
  ASSUME TypeInv, AllCached, NEW w \in Workers, cache' = cache,
         Again(w) \/ Answered(w) \/ \E r \in Requests : TakeRequest(w, r)
  PROVE  AllCached'
<1>1. JobsOK
  BY DEF TypeInv
<1>2. \A k : k.body = NoBody => Cached(k)
  BY DEF Cached, NoBody
<1>3. Idle.body = NoBody
  BY DEF Idle
<1>4. PICK k : Becomes(w, k) /\ k.body = NoBody
  <2>1. CASE Answered(w)
    BY <1>3, <2>1 DEF Answered
  <2>2. CASE \E r \in Requests : TakeRequest(w, r)
    <3>1. PICK r \in Requests : Begin(w, [Idle EXCEPT !.req = r, !.timed = r.timed])
      BY <2>2 DEF TakeRequest
    <3> DEFINE l == [Idle EXCEPT !.req = r, !.timed = r.timed]
    <3>2. \A todo, early : Enter([l EXCEPT !.early = early], todo, "before", "call").body = NoBody
      BY Zenon DEF Idle, Enter
    <3>3. Begin(w, l)
      BY <3>1
    <3> HIDE DEF l
    <3> QED BY <3>2, <3>3 DEF Begin
  <2>3. CASE Again(w)
    <3>1. PICK lost : Begin(w, [Idle EXCEPT !.again = TRUE, !.timed = job[w].timed, !.lost = lost,
                                            !.early = job[w].early, !.misused = job[w].misused,
                                            !.ext["set_cookie"] = job[w].ext["set_cookie"]])
      BY <2>3 DEF Again
    <3> DEFINE l == [Idle EXCEPT !.again = TRUE, !.timed = job[w].timed, !.lost = lost,
                                 !.early = job[w].early, !.misused = job[w].misused,
                                 !.ext["set_cookie"] = job[w].ext["set_cookie"]]
    <3>2. \A todo, early : Enter([l EXCEPT !.early = early], todo, "before", "call").body = NoBody
      BY Zenon DEF Idle, Enter
    <3>3. Begin(w, l)
      BY <3>1
    <3> HIDE DEF l
    <3> QED BY <3>2, <3>3 DEF Begin
  <2> QED BY <2>1, <2>2, <2>3
<1> QED BY <1>1, <1>2, <1>4, CacheKept

LEMMA AnswerFields ==
  ASSUME TypeInv, NEW w \in Workers, NEW body, Answer(w, body)
  PROVE  \E given \in {body, NoBody} : \A v \in Workers :
           /\ job'[v].req = job[v].req
           /\ job'[v].body = IF v = w THEN given ELSE job[v].body
<1>1. PICK given \in {body, NoBody} : given = IF Answerable(job[w]) THEN body ELSE NoBody
  OBVIOUS
<1> DEFINE k == [job[w] EXCEPT !.pc = "called", !.body = given]
<1>2. k.req = job[w].req /\ k.body = given
  BY DEF TypeInv, JobsOK, JobOK, Jobs
<1>3. Becomes(w, k)
  BY <1>1 DEF Answer
<1> HIDE DEF k
<1>4. \A v \in Workers : job'[v] = IF v = w THEN k ELSE job[v]
  BY <1>3, JobSet DEF TypeInv
<1> QED BY <1>2, <1>4

LEMMA PageCached ==
  ASSUME TypeInv, AllCached, NEW w \in Workers, FromCache(w) \/ NotCached(w) \/ InsertPage(w)
  PROVE  AllCached'
<1>1. CASE FromCache(w)
  <2>1. Answer(w, Body("cache", cache[job[w].req.uri]))
    BY <1>1 DEF FromCache
  <2>2. job[w].req.uri \in Pages /\ cache[job[w].req.uri] # None /\ cache' = cache
    BY <1>1 DEF FromCache, Found
  <2> QED BY <2>1, <2>2, AnswerFields DEF AllCached, Cached, Body, NoBody
<1>2. CASE NotCached(w)
  <2>1. PICK from \in {"file", "404", "garbage"} : Answer(w, Body(from, 0))
    BY <1>2 DEF NotCached
  <2>2. cache' = cache
    BY <1>2 DEF NotCached
  <2> QED BY <2>1, <2>2, AnswerFields DEF AllCached, Cached, Body, NoBody
<1>3. CASE InsertPage(w)
  <2>1. PICK version \in 0..MaxVersion : version = cache'[job[w].req.uri]
    BY <1>3, Inserted
  <2>2. Answer(w, Body("cache", version)) /\ job[w].req.uri \in Pages
    BY <1>3, <2>1, Inserted
  <2>3. \A p \in Pages : cache[p] # None => cache'[p] = cache[p]
    BY <1>3, Inserted
  <2>4. version # None
    OBVIOUS
  <2>5. PICK given \in {Body("cache", version), NoBody} : \A v \in Workers :
          /\ job'[v].req = job[v].req
          /\ job'[v].body = IF v = w THEN given ELSE job[v].body
    BY <2>2, AnswerFields
  <2> QED BY <2>1, <2>2, <2>3, <2>4, <2>5 DEF AllCached, Cached, Body, NoBody
<1> QED BY <1>1, <1>2, <1>3

LEMMA ReadCached ==
  ASSUME TypeInv, AllCached, NEW w \in Workers, ReadPage(w) PROVE AllCached'
<1> DEFINE body == Body("read", file[job[w].req.uri])
           k == [job[w] EXCEPT !.pc = "insert", !.body = body]
<1>1. k.body = body
  BY DEF TypeInv, JobsOK, JobOK, Jobs
<1>2. Becomes(w, k) /\ cache' = cache /\ JobsOK
  BY DEF ReadPage, TypeInv
<1> HIDE DEF k
<1>3. Cached(k)
  BY <1>1 DEF Cached, Body
<1> QED BY <1>2, <1>3, CacheKept

LEMMA StepCached == ASSUME TypeInv, AllCached, [Next]_wvars PROVE AllCached'
<1>1. CASE LoadNext \/ (\E p \in Pages : FileChanges(p)) \/ UNCHANGED wvars
  BY <1>1 DEF LoadNext, FileChanges, wvars, AllCached, Cached
<1>2. CASE Restart
  <2>1. \A w \in Workers : job'[w].body.from = "nothing"
    BY <1>2 DEF Restart, Idle, NoBody
  <2> QED BY <2>1 DEF AllCached, Cached
<1>3. ASSUME NEW w \in Workers, Work(w) \/ \E r \in Requests : TakeRequest(w, r)
      PROVE  AllCached'
  <2>1. CASE \/ RunBefore(w) \/ RunAfter(w) \/ CallDone(w) \/ Call(w) \/ CallDefault(w)
             \/ Loop(w) \/ CloseLink(w)
    BY <2>1, FiltersCached
  <2>2. CASE Again(w) \/ Answered(w) \/ \E r \in Requests : TakeRequest(w, r)
    <3>1. cache' = cache
      BY <2>2 DEF Again, Answered, TakeRequest
    <3> QED BY <2>2, <3>1, BeginCached
  <2>3. CASE FromCache(w) \/ NotCached(w) \/ InsertPage(w)
    BY <2>3, PageCached
  <2>4. CASE ReadPage(w)
    BY <2>4, ReadCached
  <2> QED BY <1>3, <2>1, <2>2, <2>3, <2>4 DEF Work
<1> QED BY <1>1, <1>2, <1>3 DEF Next

\* Every answer from the cache is the version that the cache has of its page: a worker that
\* inserts a page another one has inserted meanwhile answers with that one's.
THEOREM CachedPagesAgree == Spec => []PagesAgree
<1>1. Init => TypeInv /\ AllCached
  <2>1. Init => AllCached
    BY DEF Init, AllCached, Cached, Idle, NoBody
  <2> QED BY <2>1, InitTyped
<1>2. TypeInv /\ AllCached /\ [Next]_wvars => TypeInv' /\ AllCached'
  BY StepTyped, StepCached
<1>3. AllCached => PagesAgree
  BY DEF AllCached, Cached, PagesAgree
<1> QED BY <1>1, <1>2, <1>3, PTL DEF Spec
-----------------------------------------------------------------------------
(* The forms of requests.                                                  *)

\* What http_parser_before notes of a form that is read, and the jobs whose form was read,
\* or not yet, or lost on the way: their request was there until the parser had read n
\* characters of it, and all along when the parser refuses the form itself.
ReadAs(j, f) ==
  /\ j.result = "over" => f.mode = "over" /\ j.parts = f.parts
  /\ j.result = "error" => f.mode = "error"
  /\ j.result = "endless" => ~Ended(f)
FormKept(j) ==
  \/ j.result \in {"none", "lost"}
  \/ /\ j.req \in Requests
     /\ \E disk \in BOOLEAN, n \in Nat :
          /\ ReadAs(j, ParseUntil(j.req.form, window, disk, n))
          /\ j.result = "error" => n = Len(j.req.form) + 1
FormsKept == \A w \in Workers : FormKept(job[w])

\* Nothing but MultipartFormParser::parser changes these of a job.
SameForm(j, k) == k.req = j.req /\ k.result = j.result /\ k.parts = j.parts

LEMMA EnterForm ==
  ASSUME NEW P, NEW j \in Jobs(P), NEW todo, NEW pc, NEW behind
  PROVE  SameForm(j, Enter(j, todo, pc, behind))
BY DEF Enter, Jobs, SameForm

LEMMA PassForm == ASSUME NEW P, NEW j \in Jobs(P) PROVE SameForm(j, Pass(j))
BY EnterForm DEF Pass

LEMMA RefuseForm == ASSUME NEW P, NEW j \in Jobs(P), NEW d PROVE SameForm(j, Refuse(j, d))
BY DEF Refuse, Jobs, SameForm

LEMMA LostForm ==
  ASSUME NEW P, NEW j \in Jobs(P), NEW lost PROVE SameForm(j, Lost(j, lost))
BY DEF Lost, Jobs, SameForm

LEMMA ExtForm ==
  ASSUME NEW P, NEW j \in Jobs(P), NEW s \in Slots, NEW e \in ExtStates
  PROVE  SameForm(j, [j EXCEPT !.ext[s] = e])
<1>1. [j EXCEPT !.ext[s] = e] = [j EXCEPT !.ext = [j.ext EXCEPT ![s] = e]]
  BY Zenon
<1> QED BY <1>1 DEF Jobs, SameForm

LEMMA CookiesForm ==
  ASSUME NEW P, NEW j \in Jobs(P)
  PROVE  /\ SameForm(j, ParseUri(j)) /\ SameForm(j, SetCookies(ParseUri(j), "freed"))
         /\ SameForm(j, ParseCookies(ParseUri(j)))
<1>1. PICK k : k = ParseUri(j)
  OBVIOUS
<1>2. k \in Jobs(P) /\ SameForm(j, k)
  BY <1>1, ExtSet, ExtForm, Members DEF ParseUri
<1>3. PICK l : l = SetCookies(k, "live")
  OBVIOUS
<1>4. l \in Jobs(P) /\ SameForm(k, l) /\ SameForm(k, SetCookies(k, "freed"))
  BY <1>2, <1>3, ExtSet, ExtForm, Members DEF SetCookies
<1>5. SameForm(l, ParseCookies(k))
  BY <1>3, <1>4, ExtForm, Members DEF ParseCookies
<1> QED BY <1>1, <1>2, <1>4, <1>5 DEF SameForm

\* The one that reads the form notes what the parser made of it.
LEMMA WithFormReads ==
  ASSUME NEW P, NEW j \in Jobs(P), NEW f
  PROVE  LET k == WithForm(j, f)
         IN  k.req = j.req /\ ReadAs(k, f) /\ (k.result = "error" => ~Gone(j))
<1> DEFINE parts == ReadParts(f)
           k == Filled(j, parts)
<1>1. k \in Jobs(parts) /\ k.req = j.req /\ k.parts = parts
  <2>1. k.req = j.req
    BY DEF Filled, Jobs
  <2>2. k \in Jobs(parts)
    BY FormTyped
  <2> HIDE DEF k
  <2>3. k.parts = parts
    BY <2>2 DEF Jobs
  <2> QED BY <2>1, <2>2, <2>3
<1>2. PICK e \in ExtStates : e = IF Gone(j) THEN "none" ELSE "live"
  BY Members
<1>3. PICK r \in {"lost", "error"} : r = IF Gone(j) THEN "lost" ELSE "error"
  OBVIOUS
<1>4. /\ f.mode = "over" => WithForm(j, f) = Pass(Attached(k, e))
      /\ f.mode = "error" => WithForm(j, f) = Refuse([k EXCEPT !.result = r], "parser")
      /\ f.mode \notin {"over", "error"} =>
           WithForm(j, f) = [k EXCEPT !.result = "endless", !.pc = "stuck", !.todo = <<>>]
  BY <1>2, <1>3, WithFormIs
<1>5. f.mode = "over" => parts = f.parts
  BY DEF ReadParts, Ended
<1> HIDE DEF k, parts
<1>6. CASE f.mode = "over"
  <2> DEFINE l == [k EXCEPT !.ext["form"] = e]
             m == [l EXCEPT !.result = "over"]
  <2>1. l \in Jobs(parts) /\ SameForm(k, l)
    BY <1>1, ExtSet, ExtForm, Members
  <2>2. Attached(k, e) = m
    BY DEF Attached
  <2> HIDE DEF l
  <2>3. m \in Jobs(parts) /\ m.req = l.req /\ m.parts = l.parts /\ m.result = "over"
    BY <2>1 DEF Jobs, Results
  <2> HIDE DEF m
  <2>4. SameForm(m, Pass(m))
    BY <2>3, PassForm
  <2>5. WithForm(j, f) = Pass(m)
    BY <1>4, <1>6, <2>2
  <2> QED BY <1>1, <1>5, <1>6, <2>1, <2>3, <2>4, <2>5 DEF SameForm, ReadAs
<1>7. CASE f.mode = "error"
  <2> DEFINE l == [k EXCEPT !.result = r]
  <2>1. l \in Jobs(parts) /\ l.req = k.req /\ l.result = r
    BY <1>1 DEF Jobs, Results
  <2>2. WithForm(j, f) = Refuse(l, "parser")
    BY <1>4, <1>7
  <2> HIDE DEF l
  <2>3. SameForm(l, Refuse(l, "parser"))
    BY <2>1, RefuseForm
  <2> QED BY <1>1, <1>3, <1>7, <2>1, <2>2, <2>3 DEF SameForm, ReadAs
<1>8. CASE f.mode \notin {"over", "error"}
  <2> DEFINE l == [k EXCEPT !.result = "endless", !.pc = "stuck", !.todo = <<>>]
  <2>1. l.req = k.req /\ l.result = "endless"
    BY <1>1 DEF Jobs
  <2>2. WithForm(j, f) = l
    BY <1>4, <1>8
  <2> HIDE DEF l
  <2> QED BY <1>1, <1>8, <2>1, <2>2 DEF ReadAs, Ended
<1> QED BY <1>6, <1>7, <1>8

\* Wherever the parser ends, it has read the form; to its end, when the request stays.
LEMMA FormEndsAre ==
  ASSUME TypeInv, NEW form \in Seq(Chars), NEW t, NEW f \in FormEnds(form, t)
  PROVE  \E disk \in BOOLEAN, n \in Nat :
           f = ParseUntil(form, window, disk, n) /\ (t[5] = 0 => n = Len(form) + 1)
<1>1. window \in Nat /\ Len(form) + 1 \in Nat
  BY DEF TypeInv, PagesOK
<1>2. CASE t[4] = 0 /\ t[5] > 0
  <2>1. PICK disk \in BOOLEAN, i \in 0..(Len(form) \div window + 1) :
          f = ParseUntil(form, window, disk, i * window)
    BY <1>2 DEF FormEnds
  <2>2. i * window \in Nat
    BY <1>1
  <2>3. t[5] # 0
    BY <1>2
  <2> QED BY <2>1, <2>2, <2>3
<1>3. CASE ~(t[4] = 0 /\ t[5] > 0)
  <2>1. PICK disk \in BOOLEAN : f = ParseUntil(form, window, disk, Len(form) + 1)
    BY <1>3 DEF FormEnds, ParseForm
  <2> QED BY <1>1, <2>1
<1> QED BY <1>2, <1>3

\* Only requests have a form.
LEMMA ParserBeforeForm ==
  ASSUME TypeInv, NEW P, NEW j \in Jobs(P), FormKept(j),
         NEW t \in Moments(j, 5), NEW f \in FormEnds(j.req.form, t)
  PROVE  FormKept(ParserBefore(j, t, f))
<1>1. PICK k : k = ParserBefore(j, t, f)
  OBVIOUS
<1>2. PICK i : i = Lost(j, t[5])
  OBVIOUS
<1>3. t[5] \in 0..2
  <2>1. \A n \in 1..5 : t[n] \in 0..2
    BY MomentsAre
  <2> QED BY <2>1
<1>4. i \in Jobs(P) /\ SameForm(j, i) /\ i.lost = t[5]
  BY <1>2, <1>3, LostTyped, LostFields, LostForm
<1>5. PICK u, v, c : u = ParseUri(i) /\ v = SetCookies(ParseUri(i), "freed")
                     /\ c = ParseCookies(ParseUri(i))
  OBVIOUS
<1>6. /\ u \in Jobs(P) /\ v \in Jobs(P) /\ c \in Jobs(P) /\ c.lost = t[5]
      /\ SameForm(i, u) /\ SameForm(i, v) /\ SameForm(i, c)
  BY <1>4, <1>5, CookiesTyped, CookiesFields, CookiesForm DEF SameButExt
<1>7. \/ k = Refuse(i, "parser") \/ k = Refuse(u, "parser") \/ k = Refuse(v, "parser")
      \/ k = Pass(c)
      \/ k = WithForm(c, f) /\ j.req.form # <<>>
  BY <1>1, <1>2, <1>5, ParserBeforeIs
<1>8. ASSUME SameForm(j, k) PROVE FormKept(k)
  BY <1>8 DEF SameForm, FormKept, ReadAs
<1>9. CASE k = Refuse(i, "parser") \/ k = Refuse(u, "parser") \/ k = Refuse(v, "parser")
  <2>1. SameForm(i, k) \/ SameForm(u, k) \/ SameForm(v, k)
    BY <1>4, <1>6, <1>9, RefuseForm
  <2>2. SameForm(j, k)
    BY <1>4, <1>6, <2>1 DEF SameForm
  <2> QED BY <1>1, <1>8, <2>2
<1>10. CASE k = Pass(c)
  <2>1. SameForm(c, k)
    BY <1>6, <1>10, PassForm
  <2>2. SameForm(j, k)
    BY <1>4, <1>6, <2>1 DEF SameForm
  <2> QED BY <1>1, <1>8, <2>2
<1>11. CASE k = WithForm(c, f) /\ j.req.form # <<>>
  <2>1. j.req \in Requests
    <3>1. j.req \in Asked
      BY DEF Jobs
    <3> QED BY <1>11, <3>1 DEF Asked, NoRequest
  <2>2. j.req.form \in Seq(Chars)
    BY <2>1
  <2>3. PICK disk \in BOOLEAN, n \in Nat :
          /\ f = ParseUntil(j.req.form, window, disk, n)
          /\ t[5] = 0 => n = Len(j.req.form) + 1
    BY <2>2, FormEndsAre
  <2>4. k.req = c.req /\ ReadAs(k, f) /\ (k.result = "error" => ~Gone(c))
    BY <1>6, <1>11, WithFormReads
  <2>5. k.req = j.req
    BY <1>4, <1>6, <2>4 DEF SameForm
  <2>6. k.result = "error" => t[5] = 0
    BY <1>3, <1>6, <2>4 DEF Gone, GoneAt
  <2> QED BY <1>1, <2>1, <2>3, <2>4, <2>5, <2>6 DEF FormKept
<1> QED BY <1>7, <1>9, <1>10, <1>11

LEMMA NpBeforeForm ==
  ASSUME NEW P, NEW j \in Jobs(P) PROVE SameForm(j, NpBefore(j))
BY PassForm, RefuseForm DEF NpBefore

LEMMA ParserAfterForm ==
  ASSUME NEW P, NEW j \in Jobs(P), NEW t PROVE SameForm(j, ParserAfter(j, t))
<1> DEFINE ext == [s \in Slots |-> IF ~Finds(j, s, t) THEN j.ext[s]
                                   ELSE IF s = "form" THEN "none" ELSE Free(j.ext[s])]
           misused == j.misused \/ \E s \in Slots : Finds(j, s, t) /\ j.ext[s] = "freed"
           files == FilesLeft(j, Finds(j, "form", t))
           lost == t[4]
           k == [j EXCEPT !.ext = ext, !.files = files, !.misused = misused, !.lost = lost]
<1>1. ParserAfter(j, t) = Pass(k)
  BY DEF ParserAfter
<1> HIDE DEF ext, misused, files, lost
<1>2. SameForm(j, k)
  BY DEF Jobs, SameForm
<1>3. SameForm(k, Pass(k))
  <2>1. \A todo, pc, behind : SameForm(k, Enter(k, todo, pc, behind))
    BY DEF Jobs, Enter, SameForm
  <2> QED BY <2>1 DEF Pass
<1> QED BY <1>1, <1>2, <1>3 DEF SameForm

LEMMA WindowKept == ASSUME [Next]_wvars PROVE window' = window
<1>1. ASSUME NEW w \in Workers, Work(w) \/ \E r \in Requests : TakeRequest(w, r)
      PROVE  window' = window
  BY <1>1 DEF Work, RunBefore, Call, CallDefault, FromCache, NotCached, ReadPage, InsertPage,
              CallDone, RunAfter, Answered, Again, Loop, CloseLink, TakeRequest, config
<1> QED BY <1>1 DEF Next, LoadNext, Restart, FileChanges, config, wvars

LEMMA FormSet ==
  ASSUME JobsOK, FormsKept, window' = window, NEW w \in Workers, NEW k, Becomes(w, k), FormKept(k)
  PROVE  FormsKept'
<1>1. \A v \in Workers : job'[v] = IF v = w THEN k ELSE job[v]
  BY JobSet
<1> QED BY <1>1 DEF FormsKept, FormKept

\* The filters, the handlers and the pages: each makes the job of the worker another one.
LEMMA WorkForms ==
  ASSUME TypeInv, FormsKept, window' = window, NEW w \in Workers,
         \/ RunBefore(w) \/ RunAfter(w) \/ CallDone(w) \/ Call(w) \/ CallDefault(w)
         \/ FromCache(w) \/ NotCached(w) \/ ReadPage(w) \/ InsertPage(w)
         \/ Loop(w) \/ CloseLink(w)
  PROVE  FormsKept'
<1> DEFINE j == job[w]
<1>1. j \in Jobs(j.parts) /\ JobsOK /\ FormKept(j)
  BY DEF TypeInv, JobsOK, JobOK, FormsKept
<1>2. \A k : SameForm(j, k) => FormKept(k)
  BY <1>1 DEF SameForm, FormKept, ReadAs
<1>3. PICK k : Becomes(w, k) /\ FormKept(k)
  <2>1. CASE RunBefore(w)
    <3>1. \/ \E t \in Moments(j, 5) : \E f \in FormEnds(j.req.form, t) :
               Becomes(w, ParserBefore(j, t, f))
          \/ Becomes(w, NpBefore(j))
      BY <2>1 DEF RunBefore
    <3>2. \A t \in Moments(j, 5) : \A f \in FormEnds(j.req.form, t) :
            FormKept(ParserBefore(j, t, f))
      BY <1>1, ParserBeforeForm
    <3>3. FormKept(NpBefore(j))
      BY <1>1, <1>2, NpBeforeForm
    <3> QED BY <3>1, <3>2, <3>3
  <2>2. CASE RunAfter(w)
    <3>1. (\E t \in Moments(j, 4) : Becomes(w, ParserAfter(j, t))) \/ Becomes(w, Pass(j))
      BY <2>2 DEF RunAfter
    <3>2. FormKept(Pass(j)) /\ \A t : FormKept(ParserAfter(j, t))
      BY <1>1, <1>2, ParserAfterForm, PassForm
    <3> QED BY <3>1, <3>2
  <2>3. CASE CallDone(w)
    BY <1>1, <1>2, <2>3, EnterForm DEF CallDone
  <2>4. CASE Call(w)
    <3>1. PICK left \in SUBSET j.files :
            Becomes(w, [j EXCEPT !.pc = "called", !.ran = TRUE, !.files = left])
      BY <2>4 DEF Call
    <3>2. SameForm(j, [j EXCEPT !.pc = "called", !.ran = TRUE, !.files = left])
      BY <1>1 DEF Jobs, SameForm
    <3> QED BY <1>2, <3>1, <3>2
  <2>5. CASE CallDefault(w)
    <3>1. Becomes(w, [j EXCEPT !.pc = IF Gone(j) THEN "called" ELSE "page"])
      BY <2>5 DEF CallDefault
    <3>2. SameForm(j, [j EXCEPT !.pc = IF Gone(j) THEN "called" ELSE "page"])
      BY <1>1 DEF Jobs, SameForm
    <3> QED BY <1>2, <3>1, <3>2
  <2>6. CASE ReadPage(w)
    <3>1. Becomes(w, [j EXCEPT !.pc = "insert", !.body = Body("read", file[j.req.uri])])
      BY <2>6 DEF ReadPage
    <3>2. SameForm(j, [j EXCEPT !.pc = "insert", !.body = Body("read", file[j.req.uri])])
      BY <1>1 DEF Jobs, SameForm
    <3> QED BY <1>2, <3>1, <3>2
  <2>7. CASE FromCache(w) \/ NotCached(w) \/ InsertPage(w)
    <3>1. PICK body : Answer(w, body)
      BY <2>7 DEF FromCache, NotCached, InsertPage
    <3>2. PICK given : Becomes(w, [j EXCEPT !.pc = "called", !.body = given])
      BY <3>1 DEF Answer
    <3>3. SameForm(j, [j EXCEPT !.pc = "called", !.body = given])
      BY <1>1 DEF Jobs, SameForm
    <3> QED BY <1>2, <3>2, <3>3
  <2>8. CASE Loop(w)
    <3>1. Becomes(w, Refuse([j EXCEPT !.result = "lost"], "parser")) \/ Becomes(w, j)
      BY <2>8 DEF Loop
    <3>2. Refuse([j EXCEPT !.result = "lost"], "parser").result = "lost"
      BY <1>1 DEF Jobs, Refuse
    <3> QED BY <1>1, <3>1, <3>2 DEF FormKept
  <2>9. CASE CloseLink(w)
    <3>1. Becomes(w, Lost(j, j.lost + 1))
      BY <2>9 DEF CloseLink, Lost
    <3> QED BY <1>1, <1>2, <3>1, LostForm
  <2> QED BY <2>1, <2>2, <2>3, <2>4, <2>5, <2>6, <2>7, <2>8, <2>9
<1> QED BY <1>1, <1>3, FormSet

\* A request that begins has read no form.
LEMMA BeginForms ==
  ASSUME TypeInv, FormsKept, window' = window, NEW w \in Workers,
         Again(w) \/ Answered(w) \/ \E r \in Requests : TakeRequest(w, r)
  PROVE  FormsKept'
<1>1. JobsOK
  BY DEF TypeInv
<1>2. Idle.result = "none"
  BY DEF Idle
<1>3. PICK k : Becomes(w, k) /\ k.result = "none"
  <2>1. CASE Answered(w)
    BY <1>2, <2>1 DEF Answered
  <2>2. CASE \E r \in Requests : TakeRequest(w, r)
    <3>1. PICK r \in Requests : Begin(w, [Idle EXCEPT !.req = r, !.timed = r.timed])
      BY <2>2 DEF TakeRequest
    <3> DEFINE l == [Idle EXCEPT !.req = r, !.timed = r.timed]
    <3>2. \A todo, early : Enter([l EXCEPT !.early = early], todo, "before", "call").result = "none"
      BY Zenon DEF Idle, Enter
    <3>3. Begin(w, l)
      BY <3>1
    <3> HIDE DEF l
    <3> QED BY <3>2, <3>3 DEF Begin
  <2>3. CASE Again(w)
    <3>1. PICK lost : Begin(w, [Idle EXCEPT !.again = TRUE, !.timed = job[w].timed, !.lost = lost,
                                            !.early = job[w].early, !.misused = job[w].misused,
                                            !.ext["set_cookie"] = job[w].ext["set_cookie"]])
      BY <2>3 DEF Again
    <3> DEFINE l == [Idle EXCEPT !.again = TRUE, !.timed = job[w].timed, !.lost = lost,
                                 !.early = job[w].early, !.misused = job[w].misused,
                                 !.ext["set_cookie"] = job[w].ext["set_cookie"]]
    <3>2. \A todo, early : Enter([l EXCEPT !.early = early], todo, "before", "call").result = "none"
      BY Zenon DEF Idle, Enter
    <3>3. Begin(w, l)
      BY <3>1
    <3> HIDE DEF l
    <3> QED BY <3>2, <3>3 DEF Begin
  <2> QED BY <2>1, <2>2, <2>3
<1> QED BY <1>1, <1>3, FormSet DEF FormKept

LEMMA StepForms == ASSUME TypeInv, FormsKept, [Next]_wvars PROVE FormsKept'
<1>1. window' = window
  BY WindowKept
<1>2. CASE LoadNext \/ (\E p \in Pages : FileChanges(p)) \/ UNCHANGED wvars
  <2>1. job' = job
    BY <1>2 DEF LoadNext, FileChanges, wvars
  <2> QED BY <1>1, <2>1 DEF FormsKept, FormKept
<1>3. CASE Restart
  <2>1. \A w \in Workers : job'[w].result = "none"
    BY <1>3 DEF Restart, Idle
  <2> QED BY <2>1 DEF FormsKept, FormKept
<1>4. ASSUME NEW w \in Workers, Work(w) \/ \E r \in Requests : TakeRequest(w, r)
      PROVE  FormsKept'
  BY <1>1, <1>4, WorkForms, BeginForms DEF Work
<1> QED BY <1>2, <1>3, <1>4 DEF Next

LEMMA AlwaysForms == Spec => [](TypeInv /\ FormsKept)
<1>1. Init => TypeInv /\ FormsKept
  <2>1. Init => FormsKept
    BY DEF Init, FormsKept, FormKept, Idle
  <2> QED BY <2>1, InitTyped
<1>2. TypeInv /\ FormsKept /\ [Next]_wvars => TypeInv' /\ FormsKept'
  BY StepTyped, StepForms
<1> QED BY <1>1, <1>2, PTL DEF Spec

LEMMA EmptyShaped == Shaped(<<>>)
<1>1. Len(<<>>) = 0 /\ <<>> \in Seq(Chars)
  BY EmptySeq
<1>2. Places(<<>>, BeginMark) = {}
  BY <1>1 DEF Places
<1> QED BY <1>1, <1>2 DEF Shaped

\* What a job notes of its form is what UntilIs and FormIs say of it.
LEMMA NotedIs ==
  ASSUME TypeInv, FormsKept, NEW w \in Workers, job[w].result \notin {"none", "lost"}
  PROVE  LET j == job[w]
             b == j.req.form
         IN  /\ j.req \in Requests /\ b \in Seq(Chars)
             /\ j.result = "over" => j.parts \in Seq(FormPartRead) /\ Complete(b)
             /\ Shaped(b) =>
                  /\ j.result = "error" => ~Complete(b) \/ FilePart(b)
                  /\ Complete(b) /\ ~MarkCut(b, window) =>
                       j.result # "endless" /\ (j.result = "over" => SentAs(j.parts, b))
<1> DEFINE j == job[w]
           b == j.req.form
<1>1. j.req \in Requests /\ b \in Seq(Chars) /\ window \in Nat \ {0}
  BY DEF FormsKept, FormKept, TypeInv, PagesOK
<1>2. PICK disk \in BOOLEAN, n \in Nat :
        /\ ReadAs(j, ParseUntil(b, window, disk, n))
        /\ j.result = "error" => n = Len(b) + 1
  BY DEF FormsKept, FormKept
<1>3. PICK f : f = ParseUntil(b, window, disk, n)
  OBVIOUS
<1>4. /\ f.parts \in Seq(FormPartRead) /\ (f.mode = "over" => Complete(b))
      /\ Shaped(b) /\ Complete(b) /\ ~MarkCut(b, window) =>
           Ended(f) /\ (f.mode = "over" => SentAs(f.parts, b))
  BY <1>1, <1>3, UntilIs
<1>5. Shaped(b) /\ j.result = "error" => ~Complete(b) \/ FilePart(b)
  <2>1. j.result = "error" => f = ParseForm(b, window, disk) /\ f.mode = "error"
    BY <1>2, <1>3 DEF ParseForm, ReadAs
  <2> QED BY <1>1, <2>1, FormIs
<1>6. /\ j.result = "over" => f.mode = "over" /\ j.parts = f.parts
      /\ j.result = "endless" => ~Ended(f)
  BY <1>2, <1>3 DEF ReadAs
<1> QED BY <1>1, <1>4, <1>5, <1>6

\* A body without the mark of an end is never taken for a form, whatever it holds, however
\* it is cut into windows and whoever sends it: the loop over the data of a part is left
\* with a form only where e_boundary is found.
AcceptedFormsEnd ==
  \A w \in Workers : job[w].result = "over" => Complete(job[w].req.form)
THEOREM OnlyWholeFormsAreTaken == Spec => []AcceptedFormsEnd
<1>1. TypeInv /\ FormsKept => AcceptedFormsEnd
  BY NotedIs DEF AcceptedFormsEnd
<1> QED BY <1>1, AlwaysForms, PTL

\* MultipartFormParser::parser reads the forms that browsers send, and what is left of them
\* when the connection breaks, as they were sent, for every size of the window and of the
\* form: what it accepts is whole and, when no window cuts a mark, has the parts that were
\* sent; what it refuses does not end or has a part with a file; and it stays in a loop
\* only over what does not end or is cut.
THEOREM FormsAreRead ==
  ASSUME \A r \in Requests : r.form # <<>> => FromBrowser(r.form)
  PROVE  Spec => []FormRead
<1>1. TypeInv /\ FormsKept => FormRead
  <2> SUFFICES ASSUME TypeInv, FormsKept, NEW w \in Workers,
                      job[w].result \notin {"none", "lost"}
               PROVE  LET j == job[w]
                          cut == MarkCut(j.req.form, window)
                      IN  /\ j.result = "over" => /\ Complete(j.req.form)
                                                  /\ cut \/ SentAs(j.parts, j.req.form)
                          /\ j.result = "error" => ~Complete(j.req.form) \/ FilePart(j.req.form)
                          /\ j.result = "endless" => ~Complete(j.req.form) \/ cut
    BY DEF FormRead
  <2>1. PICK b : b = job[w].req.form
    OBVIOUS
  <2>2. job[w].req \in Requests /\ b \in Seq(Chars)
    BY <2>1, NotedIs
  <2>3. Shaped(b)
    <3>1. CASE b = <<>>
      BY <3>1, EmptyShaped
    <3>2. CASE b # <<>>
      BY <2>1, <2>2, <3>2, BrowserShaped
    <3> QED BY <3>1, <3>2
  <2> QED BY <2>1, <2>3, NotedIs
<1> QED BY <1>1, AlwaysForms, PTL

\* Whatever form a browser sends, and however it is cut into windows as long as no window
\* cuts a mark: when the form is accepted, its parts are the ones that were sent, no other,
\* in their order and with their data whole, though the parser sees the body only.
FormsAsSent ==
  \A w \in Workers : \A form \in Seq(FormPart) \ {<<>>} :
    LET j == job[w]
    IN  j.result = "over" /\ Arrives(j.req.form, form) /\ ~MarkCut(j.req.form, window)
          => j.parts = form
THEOREM PartsAreAsSent == Spec => []FormsAsSent
<1>1. TypeInv /\ FormsKept => FormsAsSent
  <2> SUFFICES ASSUME TypeInv, FormsKept, NEW w \in Workers, NEW form \in Seq(FormPart) \ {<<>>},
                      job[w].result = "over", Arrives(job[w].req.form, form),
                      ~MarkCut(job[w].req.form, window)
               PROVE  job[w].parts = form
    BY DEF FormsAsSent
  <2>1. PICK b, parts : b = job[w].req.form /\ parts = job[w].parts
    OBVIOUS
  <2>2. b \in Seq(Chars) /\ parts \in Seq(FormPartRead) /\ Complete(b)
    BY <2>1, NotedIs
  <2>3. Arrives(b, form) /\ ~MarkCut(b, window)
    BY <2>1
  <2>4. Shaped(b)
    BY <2>2, <2>3, BrowserShaped DEF FromBrowser
  <2>5. SentAs(parts, b)
    BY <2>1, <2>2, <2>3, <2>4, NotedIs
  <2>6. parts = form
    BY <2>2, <2>3, <2>5, PartsSent
  <2> QED BY <2>1, <2>6
<1> QED BY <1>1, AlwaysForms, PTL

-----------------------------------------------------------------------------
(* The lists of filters of handler.json as it is shipped.                  *)

Lists == {<<>>, <<"parser">>, <<"np">>, <<"parser", "np">>}
HasParser(t) == t \in {<<"parser">>, <<"parser", "np">>}
HasNp(t) == t \in {<<"np">>, <<"parser", "np">>}

LEMMA EmptyList == <<>> \in Lists /\ ~HasParser(<<>>) /\ ~HasNp(<<>>)
<1>1. <<>> # <<"parser">> /\ <<>> # <<"np">> /\ <<>> # <<"parser", "np">>
  OBVIOUS
<1> QED BY <1>1 DEF Lists, HasParser, HasNp

LEMMA ListHead ==
  ASSUME NEW t \in Lists, t # <<>>
  PROVE  /\ Head(t) = "parser" => HasParser(t)
         /\ Head(t) # "parser" => ~HasParser(t) /\ HasNp(t) /\ Tail(t) = <<>>
         /\ Tail(t) \in Lists /\ ~HasParser(Tail(t))
         /\ HasParser(t) => (HasNp(Tail(t)) <=> HasNp(t))
         /\ Tail(t) = <<>> => ~HasNp(Tail(t))
<1>1. <<>> # <<"parser">> /\ <<>> # <<"np">> /\ <<>> # <<"parser", "np">>
      /\ <<"parser">> # <<"np">> /\ <<"parser">> # <<"parser", "np">>
      /\ <<"np">> # <<"parser", "np">>
  OBVIOUS
<1>2. Head(<<"parser">>) = "parser" /\ Tail(<<"parser">>) = <<>>
  OBVIOUS
<1>3. Head(<<"np">>) = "np" /\ Tail(<<"np">>) = <<>>
  OBVIOUS
<1>4. Head(<<"parser", "np">>) = "parser" /\ Tail(<<"parser", "np">>) = <<"np">>
  OBVIOUS
<1>5. CASE t = <<"parser">>
  BY <1>1, <1>2, <1>5, Zenon DEF Lists, HasParser, HasNp
<1>6. CASE t = <<"np">>
  <2>1. "np" # "parser"
    OBVIOUS
  <2> QED BY <1>1, <1>3, <1>6, <2>1, Zenon DEF Lists, HasParser, HasNp
<1>7. CASE t = <<"parser", "np">>
  BY <1>1, <1>4, <1>7, Zenon DEF Lists, HasParser, HasNp
<1> QED BY <1>5, <1>6, <1>7, Zenon DEF Lists

LEMMA ListAppend ==
  ASSUME NEW t \in Lists, ~HasNp(t)
  PROVE  /\ LET l == Append(t, "np")
             IN  l \in Lists /\ HasNp(l) /\ (HasParser(l) <=> HasParser(t))
         /\ ~HasParser(t) => LET l == Append(t, "parser")
                             IN  l \in Lists /\ ~HasNp(l) /\ HasParser(l)
<1>1. <<>> # <<"parser">> /\ <<>> # <<"np">> /\ <<>> # <<"parser", "np">>
      /\ <<"parser">> # <<"np">> /\ <<"parser">> # <<"parser", "np">>
      /\ <<"np">> # <<"parser", "np">>
  OBVIOUS
<1>2. Append(<<>>, "np") = <<"np">> /\ Append(<<>>, "parser") = <<"parser">>
      /\ Append(<<"parser">>, "np") = <<"parser", "np">>
  <2>1. "np" \in Dlls /\ "parser" \in Dlls
    BY DEF Dlls
  <2>2. ASSUME NEW d \in Dlls PROVE Append(<<>>, d) = <<d>>
    <3>1. ASSUME NEW l \in Seq(Dlls), Len(l) = 1, l[1] = d PROVE l = <<d>>
      BY <3>1
    <3>2. Append(<<>>, d) \in Seq(Dlls) /\ Len(Append(<<>>, d)) = 1 /\ Append(<<>>, d)[1] = d
      OBVIOUS
    <3> QED BY <3>1, <3>2, Zenon
  <2>3. Append(<<"parser">>, "np") = <<"parser", "np">>
    <3>1. ASSUME NEW l \in Seq(Dlls), Len(l) = 2, l[1] = "parser", l[2] = "np"
          PROVE  l = <<"parser", "np">>
      BY <3>1
    <3>2. <<"parser">> \in Seq(Dlls) /\ Len(<<"parser">>) = 1
      BY <2>1
    <3>3. /\ Append(<<"parser">>, "np") \in Seq(Dlls) /\ Len(Append(<<"parser">>, "np")) = 2
          /\ Append(<<"parser">>, "np")[1] = "parser" /\ Append(<<"parser">>, "np")[2] = "np"
      BY <2>1, <3>2
    <3> QED BY <3>1, <3>3, Zenon
  <2> QED BY <2>1, <2>2, <2>3
<1>3. t = <<>> \/ t = <<"parser">>
  BY Zenon DEF Lists, HasNp
<1>4. CASE t = <<>>
  BY <1>1, <1>2, <1>4, Zenon DEF Lists, HasParser, HasNp
<1>5. CASE t = <<"parser">>
  BY <1>1, <1>2, <1>5, Zenon DEF Lists, HasParser, HasNp
<1> QED BY <1>3, <1>4, <1>5

\* http_parser is loaded, NewPublish is, and the lists of filters follow.  Each is tried at
\* its first entry, so a filter before is there when its filter after is.
ParserOn == dlls["parser"] = "loaded"
NpOn == dlls["np"] = "loaded"
LoadInv ==
  /\ before \in Lists /\ (HasParser(before) <=> ParserOn) /\ (HasNp(before) <=> NpOn)
  /\ after \in Lists
  /\ HasParser(after) <=> ParserOn /\ 2 <= loaded
  /\ HasNp(after) <=> NpOn /\ 4 <= loaded
  /\ loaded = 0 <=> dlls["parser"] = "unknown"
  /\ loaded <= 2 <=> dlls["np"] = "unknown"
  /\ bound # {} => NpOn

LEMMA LoadFlows == ASSUME Shipped, TypeInv, LoadInv, LoadNext PROVE LoadInv' /\ (ParserOn => ParserOn')
<1> DEFINE e == Handlers[loaded + 1]
<1>1. loaded \in Nat /\ loaded + 1 \in DOMAIN Handlers /\ e \in Handler
  BY DEF LoadNext, TypeInv, LoadOK
<1>2. PICK d \in {"unknown", "loaded", "missing"} :
        /\ d \in IF dlls[e.dll] = "unknown" THEN {"loaded", "missing"} ELSE {dlls[e.dll]}
        /\ loaded' = loaded + 1
        /\ dlls' = [dlls EXCEPT ![e.dll] = d]
        /\ before' = IF d = "loaded" /\ e.type = "before" THEN Append(before, e.dll) ELSE before
        /\ after' = IF d = "loaded" /\ e.type = "after" THEN Append(after, e.dll) ELSE after
        /\ bound' = IF d = "loaded" /\ e.type = "uri" THEN bound \cup {e.uri} ELSE bound
  BY <1>1 DEF LoadNext, TypeInv, LoadOK, Handler, AddHandler
<1>3. dlls \in [Dlls -> {"unknown", "loaded", "missing"}]
  BY DEF TypeInv, LoadOK
<1>4. /\ loaded <= 1 => e.dll = "parser"
      /\ 2 <= loaded => e.dll = "np"
      /\ e.type = IF loaded \in {0, 2} THEN "before" ELSE IF loaded \in {1, 3} THEN "after" ELSE "uri"
  <2>1. /\ IF loaded + 1 <= 4
           THEN /\ e.dll = (IF loaded + 1 <= 2 THEN "parser" ELSE "np")
                /\ e.type = (IF loaded + 1 \in {1, 3} THEN "before" ELSE "after")
           ELSE e.type = "uri"
        /\ e.type = "uri" => e.dll = "np"
    BY <1>1 DEF Shipped
  <2> HIDE DEF e
  <2> QED BY <1>1, <2>1
<1> HIDE DEF e
<1> USE DEF Dlls
<1>5. CASE loaded = 0
  <2>1. e.dll = "parser" /\ e.type = "before" /\ d \in {"loaded", "missing"} /\ ~NpOn /\ ~ParserOn
    BY <1>2, <1>4, <1>5 DEF LoadInv, NpOn, ParserOn
  <2>2. dlls'["parser"] = d /\ dlls'["np"] = dlls["np"]
    BY <1>2, <1>3, <2>1
  <2>3. Append(before, "parser") \in Lists /\ ~HasNp(Append(before, "parser"))
        /\ HasParser(Append(before, "parser"))
    BY <2>1, ListAppend DEF LoadInv
  <2> QED BY <1>2, <1>5, <2>1, <2>2, <2>3 DEF LoadInv, NpOn, ParserOn
<1>6. CASE loaded = 1
  <2>1. e.dll = "parser" /\ e.type = "after" /\ d = dlls["parser"] /\ ~NpOn
    BY <1>2, <1>4, <1>6 DEF LoadInv, NpOn
  <2>2. dlls'["parser"] = d /\ dlls'["np"] = dlls["np"]
    BY <1>2, <1>3, <2>1
  <2>3. Append(after, "parser") \in Lists /\ ~HasNp(Append(after, "parser"))
        /\ HasParser(Append(after, "parser"))
    BY <1>6, <2>1, ListAppend DEF LoadInv
  <2> QED BY <1>2, <1>6, <2>1, <2>2, <2>3 DEF LoadInv, NpOn, ParserOn
<1>7. CASE loaded = 2
  <2>1. e.dll = "np" /\ e.type = "before" /\ d \in {"loaded", "missing"} /\ ~NpOn
    BY <1>2, <1>4, <1>7 DEF LoadInv, NpOn
  <2>2. dlls'["np"] = d /\ dlls'["parser"] = dlls["parser"]
    BY <1>2, <1>3, <2>1
  <2>3. Append(before, "np") \in Lists /\ HasNp(Append(before, "np"))
        /\ (HasParser(Append(before, "np")) <=> HasParser(before))
    BY <2>1, ListAppend DEF LoadInv
  <2> QED BY <1>2, <1>7, <2>1, <2>2, <2>3 DEF LoadInv, NpOn, ParserOn
<1>8. CASE loaded = 3
  <2>1. e.dll = "np" /\ e.type = "after" /\ d = dlls["np"]
    BY <1>2, <1>4, <1>8 DEF LoadInv
  <2>2. dlls'["np"] = d /\ dlls'["parser"] = dlls["parser"]
    BY <1>2, <1>3, <2>1
  <2>3. Append(after, "np") \in Lists /\ HasNp(Append(after, "np"))
        /\ (HasParser(Append(after, "np")) <=> HasParser(after))
    BY <1>8, ListAppend DEF LoadInv
  <2> QED BY <1>2, <1>8, <2>1, <2>2, <2>3 DEF LoadInv, NpOn, ParserOn
<1>9. CASE 4 <= loaded
  <2>1. e.dll = "np" /\ e.type = "uri" /\ d = dlls["np"]
    BY <1>1, <1>2, <1>4, <1>9 DEF LoadInv
  <2>2. dlls' = dlls
    BY <1>2, <1>3, <2>1
  <2> QED BY <1>1, <1>2, <1>9, <2>1, <2>2 DEF LoadInv, NpOn, ParserOn
<1> QED BY <1>1, <1>5, <1>6, <1>7, <1>8, <1>9
-----------------------------------------------------------------------------
(* What a request carries, as handler.json is shipped.                     *)

Marked(j) == \E s \in Slots : j.ext[s] # "none"
Freed(j) == \E s \in Slots : j.ext[s] = "freed"
Live(j) == \E s \in Slots : j.ext[s] = "live"

\* Maps are attached only when http_parser is there.  A request whose maps are deleted is
\* past http_parser_after, or was refused; one that comes a second time, with a map of its
\* first, is stopped by the first filter.
Traced(j) ==
  /\ j.todo \in Lists /\ ~j.misused
  /\ HasParser(j.todo) \/ Marked(j) => ParserOn
  /\ j.again /\ Marked(j) => j.pc = "answer" \/ (j.pc = "before" /\ HasParser(j.todo))
  /\ ~j.again /\ Freed(j) => j.pc \in {"after", "answer"} /\ ~HasParser(j.todo)
  /\ j.pc # "idle" /\ ~j.early => loaded = Len(Handlers)

\* A request taken when all is loaded, the first time.
Plain(j) == j.pc # "idle" /\ ~j.again /\ ~j.early
\* It is behind np_before only when this let it through or found it gone.  It has a form to
\* remove its files until http_parser_after, and behind that no map that could be found.
Filtered(j) ==
  Plain(j) =>
    /\ j.pc = "before" => /\ HasParser(j.todo) \/ ~ParserOn \/ j.ext["cookie"] = "live"
                          /\ NpOn => HasNp(j.todo)
    /\ j.pc \in {"call", "page", "insert", "called", "after"} /\ NpOn =>
         Entitled(j.req) \/ j.lost > 0
    /\ j.ran => Entitled(j.req)
    /\ j.refusedBy = "np" => ~Entitled(j.req) \/ j.req.uri = Index
    /\ j.refusedBy = None /\ j.pc # "stuck" =>
         /\ j.files # {} => j.ext["form"] = "live" \/ j.lost > 0
         /\ j.pc = "answer" \/ (j.pc = "after" /\ ~HasParser(j.todo)) =>
              /\ j.lost = 0 => ~Live(j)
              /\ j.lost <= 1 => j.ext["set_cookie"] # "live"

Flows == LoadInv /\ \A w \in Workers : Traced(job[w]) /\ Filtered(job[w])

LEMMA FlowsEnough == TypeInv /\ Flows => MapsReleased /\ NoMisuse /\ Checked
<1> SUFFICES ASSUME TypeInv, Flows, NEW w \in Workers
             PROVE  /\ ~job[w].misused
                    /\ Over(job[w]) =>
                         /\ job[w].ran => Entitled(job[w].req)
                         /\ job[w].refusedBy = "np" => ~Entitled(job[w].req) \/ job[w].req.uri = Index
                         /\ job[w].refusedBy = None =>
                              /\ job[w].lost = 0 => /\ \A s \in Slots : job[w].ext[s] # "live"
                                                    /\ job[w].files = {}
                              /\ job[w].lost = 1 => job[w].ext["set_cookie"] # "live"
  BY DEF MapsReleased, NoMisuse, Checked
<1>1. PICK j : j = job[w]
  OBVIOUS
<1>2. Traced(j) /\ Filtered(j)
  BY <1>1 DEF Flows
<1>3. ~j.misused
  BY <1>2 DEF Traced
<1>4. Over(j) => Plain(j) /\ j.pc = "answer"
  BY DEF Over, Plain
<1>5. "form" \in Slots
  BY DEF Slots
<1>6. Over(j) /\ j.refusedBy = None =>
        /\ j.files # {} => j.ext["form"] = "live" \/ j.lost > 0
        /\ j.lost = 0 => ~Live(j)
        /\ j.lost <= 1 => j.ext["set_cookie"] # "live"
  BY <1>2, <1>4 DEF Filtered
<1>7. Over(j) /\ j.refusedBy = None =>
        /\ j.lost = 0 => (\A s \in Slots : j.ext[s] # "live") /\ j.files = {}
        /\ j.lost = 1 => j.ext["set_cookie"] # "live"
  BY <1>5, <1>6 DEF Live
<1>8. Over(j) => /\ j.ran => Entitled(j.req)
                 /\ j.refusedBy = "np" => ~Entitled(j.req) \/ j.req.uri = Index
  BY <1>2, <1>4 DEF Filtered
<1> QED BY <1>1, <1>3, <1>7, <1>8

LEMMA Flowing ==
  ASSUME TypeInv, Flows, UNCHANGED loading, NEW w \in Workers, NEW k, Becomes(w, k),
         Traced(k), Filtered(k)
  PROVE  Flows'
<1>1. \A v \in Workers : job'[v] = IF v = w THEN k ELSE job[v]
  BY JobSet DEF TypeInv
<1>2. LoadInv' /\ loaded' = loaded /\ dlls' = dlls
  BY DEF Flows, LoadInv, loading, ParserOn, NpOn
<1>3. \A v \in Workers : Traced(job'[v]) /\ Filtered(job'[v])
  BY <1>1 DEF Flows
<1>4. \A v \in Workers : Traced(job[v])' /\ Filtered(job[v])'
  BY <1>2, <1>3 DEF Traced, Filtered, ParserOn, NpOn, Entitled
<1> QED BY <1>2, <1>4 DEF Flows

LEMMA IdleFlows == Traced(Idle) /\ Filtered(Idle)
<1>1. ~Marked(Idle) /\ ~Freed(Idle)
  BY DEF Idle, NoExt, Marked, Freed
<1>2. Idle.pc = "idle" /\ Idle.todo = <<>> /\ ~Idle.misused /\ ~Idle.again
  BY DEF Idle
<1> QED BY <1>1, <1>2, EmptyList DEF Traced, Filtered, Plain

LEMMA InitFlows == Init => Flows
<1> SUFFICES ASSUME Init PROVE Flows
  OBVIOUS
<1>1. LoadInv
  BY EmptyList DEF Init, LoadInv, ParserOn, NpOn, Dlls
<1> QED BY <1>1, IdleFlows DEF Init, Flows

\* The fields of a request that begins.
LEMMA BeginFields ==
  ASSUME NEW j \in Jobs(<<>>), NEW w, Begin(w, j)
  PROVE  \E k : /\ Becomes(w, k)
                /\ k.req = j.req /\ k.again = j.again /\ SameTraces(j, k)
                /\ k.early = (j.early \/ loaded < Len(Handlers))
                /\ k.todo = before /\ k.pc = IF before = <<>> THEN "call" ELSE "before"
<1> DEFINE early == j.early \/ loaded < Len(Handlers)
           l == [j EXCEPT !.early = early]
           k == Enter(l, before, "before", "call")
<1>1. early \in BOOLEAN
  BY DEF Jobs
<1>2. Becomes(w, k)
  BY DEF Begin
<1> HIDE DEF early
<1>3. l \in Jobs(<<>>) /\ l.req = j.req /\ l.again = j.again /\ SameTraces(j, l) /\ l.early = early
  BY <1>1 DEF Jobs, SameTraces
<1> HIDE DEF l
<1>4. /\ SameRequest(l, k) /\ SameTraces(l, k) /\ k.todo = before
      /\ k.pc = IF before = <<>> THEN "call" ELSE "before"
  BY <1>3, EnterFields
<1> HIDE DEF k
<1>5. k.req = j.req /\ k.again = j.again /\ SameTraces(j, k) /\ k.early = early
  BY <1>3, <1>4 DEF SameRequest, SameTraces
<1> QED BY <1>2, <1>4, <1>5 DEF early

LEMMA TakeRequestFlows ==
  ASSUME TypeInv, Flows, NEW w \in Workers, NEW r \in Requests, TakeRequest(w, r) PROVE Flows'
<1> DEFINE j == [Idle EXCEPT !.req = r, !.timed = r.timed]
<1>1. r \in Asked
  BY DEF Asked
<1>2. /\ j \in Jobs(<<>>) /\ j.again = FALSE /\ j.early = FALSE /\ j.refusedBy = None
      /\ j.ran = FALSE /\ j.ext = NoExt /\ j.files = {} /\ j.misused = FALSE
  <2>1. j \in Jobs(<<>>)
    <3>1. PICK timed \in BOOLEAN : timed = r.timed
      OBVIOUS
    <3>2. [Idle EXCEPT !.req = r, !.timed = timed] \in Jobs(<<>>)
      BY <1>1, IdleTyped DEF Jobs
    <3> QED BY <3>1, <3>2
  <2> QED BY <2>1 DEF Idle
<1>3. Begin(w, j) /\ UNCHANGED loading
  BY DEF TakeRequest
<1> HIDE DEF j
<1>4. PICK k : /\ Becomes(w, k)
               /\ k.req = j.req /\ k.again = j.again /\ SameTraces(j, k)
               /\ k.early = (j.early \/ loaded < Len(Handlers))
               /\ k.todo = before /\ k.pc = IF before = <<>> THEN "call" ELSE "before"
  BY <1>2, <1>3, BeginFields
<1>5. ~Marked(k) /\ ~Freed(k)
  BY <1>2, <1>4 DEF SameTraces, NoExt, Marked, Freed
<1>6. ~k.again /\ k.refusedBy = None /\ ~k.ran /\ k.files = {} /\ ~k.misused
  BY <1>2, <1>4 DEF SameTraces
<1>7. loaded <= Len(Handlers) /\ loaded \in Int /\ Len(Handlers) \in Int
  BY DEF TypeInv, LoadOK
<1>8. ~k.early => ~(loaded < Len(Handlers))
  BY <1>4, Zenon
<1>9. LoadInv
  BY DEF Flows
<1>10. Traced(k)
  <2>1. ~k.early => loaded = Len(Handlers)
    BY <1>7, <1>8
  <2>2. k.todo \in Lists /\ (HasParser(k.todo) => ParserOn)
    BY <1>4, <1>9 DEF LoadInv
  <2> QED BY <1>5, <1>6, <2>1, <2>2 DEF Traced
<1>11. None # "np"
  BY DEF Dlls
<1>12. Filtered(k)
  <2>1. HasParser(k.todo) \/ ~ParserOn
    BY <1>4, <1>9 DEF LoadInv
  <2>2. NpOn => HasNp(k.todo) /\ k.pc = "before"
    BY <1>4, <1>9, EmptyList DEF LoadInv
  <2>3. k.pc \in {"before", "call"}
    BY <1>4
  <2> QED BY <1>6, <1>11, <2>1, <2>2, <2>3 DEF Filtered
<1> QED BY <1>3, <1>4, <1>10, <1>12, Flowing

LEMMA AgainFlows ==
  ASSUME TypeInv, Flows, NEW w \in Workers, Again(w) PROVE Flows'
<1> DEFINE i == job[w]
           ext == [NoExt EXCEPT !["set_cookie"] = i.ext["set_cookie"]]
<1>1. /\ i.early \in BOOLEAN /\ i.misused \in BOOLEAN /\ i.timed \in BOOLEAN
      /\ i.ext \in Exts /\ i.lost \in 0..2
  BY DEF TypeInv, JobsOK, JobOK, Jobs
<1>2. PICK lost \in Left(i) :
        Begin(w, [Idle EXCEPT !.again = TRUE, !.timed = i.timed, !.lost = lost,
                              !.early = i.early, !.misused = i.misused,
                              !.ext["set_cookie"] = i.ext["set_cookie"]])
  BY DEF Again
<1> DEFINE h == [Idle EXCEPT !.again = TRUE, !.timed = i.timed, !.lost = lost, !.early = i.early,
                             !.misused = i.misused]
           j == [Idle EXCEPT !.again = TRUE, !.timed = i.timed, !.lost = lost, !.early = i.early,
                             !.misused = i.misused, !.ext["set_cookie"] = i.ext["set_cookie"]]
<1>3. lost \in 0..2
  BY <1>1 DEF Left
<1>4. ext \in Exts
  BY <1>1 DEF Exts, ExtStates, NoExt, Slots
<1>5. h \in Jobs(<<>>) /\ h.again = TRUE /\ h.early = i.early /\ h.misused = i.misused
  BY <1>1, <1>3, IdleTyped DEF Jobs
<1>6. j = [h EXCEPT !.ext = ext]
  <2>1. Idle.ext = NoExt
    BY DEF Idle
  <2> QED BY <2>1, Zenon
<1>7. Begin(w, j) /\ i.pc = "answer" /\ UNCHANGED loading
  BY <1>2 DEF Again, At
<1>8. Traced(i) /\ LoadInv
  BY DEF Flows
<1>9. "set_cookie" \in Slots
  BY DEF Slots
<1>10. \A s \in Slots : ext[s] # "none" => i.ext["set_cookie"] # "none"
  BY DEF NoExt
<1> HIDE DEF h, ext, j
<1>11. j \in Jobs(<<>>) /\ j.again = TRUE /\ j.early = i.early /\ j.misused = i.misused
       /\ j.ext = ext
  BY <1>4, <1>5, <1>6 DEF Jobs
<1>12. PICK k : /\ Becomes(w, k)
                /\ k.req = j.req /\ k.again = j.again /\ SameTraces(j, k)
                /\ k.early = (j.early \/ loaded < Len(Handlers))
                /\ k.todo = before /\ k.pc = IF before = <<>> THEN "call" ELSE "before"
  BY <1>7, <1>11, BeginFields
<1>13. k.again /\ k.misused = i.misused /\ k.early = (i.early \/ loaded < Len(Handlers))
       /\ k.ext = ext
  BY <1>11, <1>12 DEF SameTraces
<1>14. Marked(k) => Marked(i)
  BY <1>9, <1>10, <1>13 DEF Marked
<1>15. loaded <= Len(Handlers) /\ loaded \in Int /\ Len(Handlers) \in Int
  BY DEF TypeInv, LoadOK
<1>16. HasParser(k.todo) => k.pc = "before"
  BY <1>12, EmptyList
<1>17. Traced(k)
  BY <1>1, <1>7, <1>8, <1>12, <1>13, <1>14, <1>15, <1>16 DEF Traced, LoadInv
<1>18. Filtered(k)
  BY <1>13 DEF Filtered, Plain
<1> QED BY <1>7, <1>12, <1>17, <1>18, Flowing

LEMMA ParserBeforeFlows ==
  ASSUME TypeInv, Flows, NEW w \in Workers, NEW t \in Moments(job[w], 5), NEW f,
         job[w].pc = "before", Head(job[w].todo) = "parser"
  PROVE  LET k == ParserBefore(job[w], t, f) IN Traced(k) /\ Filtered(k)
<1> DEFINE j == job[w]
<1>1. j \in Jobs(j.parts) /\ j.todo # <<>> /\ j.ext \in Exts /\ j.lost \in 0..2
  BY DEF TypeInv, JobsOK, JobOK, Guarded, Jobs
<1>2. Traced(j) /\ Filtered(j) /\ LoadInv
  BY DEF Flows
<1>3. PICK k : k = ParserBefore(j, t, f)
  OBVIOUS
<1>4. /\ SameRequest(j, k) /\ k.ran = j.ran /\ k.misused = j.misused
      /\ j.lost <= k.lost /\ k.lost \in 0..2
      /\ Attaches(j, k) \/ Stops(j, k)
  BY <1>1, <1>3, ParserBeforeFields
<1>5. j.todo \in Lists
  BY <1>2 DEF Traced
<1>6. /\ HasParser(j.todo) /\ Tail(j.todo) \in Lists /\ ~HasParser(Tail(j.todo))
      /\ HasNp(Tail(j.todo)) <=> HasNp(j.todo)
      /\ Tail(j.todo) = <<>> => ~HasNp(Tail(j.todo))
  BY <1>1, <1>5, ListHead
<1>7. ParserOn
  BY <1>2, <1>6 DEF Traced
<1>8. "form" \in Slots /\ None # "np" /\ None # "parser" /\ "np" # "parser"
  BY DEF Slots, Dlls
<1>9. ~j.again => ~Freed(j)
  BY <1>2 DEF Traced
<1>10. Plain(k) => Plain(j)
  BY <1>4 DEF Plain, SameRequest
<1>11. CASE Attaches(j, k)
  <2>1. PICK u : u = Tail(j.todo)
    OBVIOUS
  <2>2. k.todo = u /\ k.pc = IF u # <<>> THEN "before" ELSE "call"
    BY <1>11, <2>1 DEF Onward, Attaches
  <2>3. /\ u \in Lists /\ ~HasParser(u) /\ (HasNp(u) <=> HasNp(j.todo))
        /\ u = <<>> => ~HasNp(u)
    BY <1>6, <2>1
  <2>4. ~j.again /\ ~Freed(k)
    BY <1>9, <1>11 DEF Attaches, Freed
  <2>5. Traced(k)
    BY <1>2, <1>4, <1>7, <2>2, <2>3, <2>4 DEF Traced, SameRequest
  <2>6. k.files # {} /\ Plain(j) /\ j.refusedBy = None => k.ext["form"] = "live" \/ k.lost > 0
    BY <1>1, <1>2, <1>4, <1>8, <1>11 DEF Attaches, Filtered
  <2>7. k.refusedBy = j.refusedBy /\ k.ext["cookie"] = "live" /\ k.pc \in {"before", "call"}
    BY <1>11, <2>2 DEF Attaches
  <2>8. Filtered(k)
    BY <1>2, <1>4, <1>8, <1>10, <2>2, <2>3, <2>6, <2>7 DEF Filtered, SameRequest
  <2> QED BY <1>3, <2>5, <2>8
<1>12. CASE Stops(j, k)
  <2>1. ~j.again /\ k.pc = "stuck" => ~Freed(k)
    BY <1>9, <1>12 DEF Stops, Freed
  <2>2. j.again => k.pc = "answer"
    BY <1>12 DEF Stops
  <2>3. Traced(k)
    BY <1>2, <1>4, <1>7, <1>12, <2>1, <2>2, EmptyList DEF Traced, SameRequest, Stops
  <2>4. Filtered(k)
    BY <1>2, <1>4, <1>8, <1>10, <1>12 DEF Filtered, SameRequest, Stops
  <2> QED BY <1>3, <2>3, <2>4
<1> QED BY <1>4, <1>11, <1>12

LEMMA NpBeforeFlows ==
  ASSUME TypeInv, Flows, NEW w \in Workers, job[w].pc = "before", Head(job[w].todo) # "parser"
  PROVE  LET k == NpBefore(job[w]) IN Traced(k) /\ Filtered(k)
<1> DEFINE j == job[w]
<1>1. j \in Jobs(j.parts) /\ j.todo # <<>> /\ j.ext \in Exts
  BY DEF TypeInv, JobsOK, JobOK, Guarded, Jobs
<1>2. Traced(j) /\ Filtered(j) /\ LoadInv
  BY DEF Flows
<1>3. PICK k : k = NpBefore(j)
  OBVIOUS
<1> DEFINE turned == (j.req.uri \in Protected /\ ~Known(j)) \/ j.req.uri = Index
<1>4. /\ SameRequest(j, k) /\ k.ran = j.ran /\ k.ext = j.ext /\ k.misused = j.misused
      /\ \/ (~turned \/ Gone(j)) /\ Onward(j, k) /\ SameTraces(j, k)
         \/ turned /\ k.pc = "answer" /\ k.todo = <<>> /\ k.refusedBy = "np"
  BY <1>1, <1>3, NpBeforeFields
<1>5. ~HasParser(j.todo) /\ HasNp(j.todo) /\ Tail(j.todo) = <<>>
  BY <1>1, <1>2, ListHead DEF Traced
<1>6. ~Freed(j) /\ (j.again => ~Marked(j))
  BY <1>2, <1>5 DEF Traced, Freed, Marked
<1>7. (Marked(k) <=> Marked(j)) /\ (Freed(k) <=> Freed(j)) /\ (Live(k) <=> Live(j))
  BY <1>4 DEF Marked, Freed, Live
<1>8. Plain(k) => Plain(j)
  BY <1>2, <1>4 DEF Plain, SameRequest
<1>9. "cookie" \in Slots /\ None # "np"
  BY DEF Slots, Dlls
<1>10. Known(j) => Marked(j) /\ j.req.user
  BY <1>9 DEF Known, Marked
<1>11. Known(j) => ParserOn
  BY <1>2, <1>10 DEF Traced
<1>12. CASE (~turned \/ Gone(j)) /\ Onward(j, k) /\ SameTraces(j, k)
  <2>1. k.todo = <<>> /\ k.pc = "call"
    BY <1>5, <1>12 DEF Onward
  <2>2. Entitled(j.req) \/ j.again \/ j.lost > 0
    BY <1>10, <1>11, <1>12 DEF Entitled, ParserOn, Gone, GoneAt
  <2>3. Traced(k)
    BY <1>2, <1>4, <1>6, <1>7, <2>1, EmptyList DEF Traced, SameRequest
  <2>4. Filtered(k)
    BY <1>2, <1>4, <1>8, <1>12, <2>1, <2>2 DEF Filtered, Plain, SameRequest, SameTraces
  <2> QED BY <1>3, <2>3, <2>4
<1>13. CASE turned /\ k.pc = "answer" /\ k.todo = <<>> /\ k.refusedBy = "np"
  <2>1. Plain(j) => ~Entitled(j.req) \/ j.req.uri = Index
    BY <1>2, <1>5, <1>13 DEF Filtered, Entitled, Known, ParserOn
  <2>2. Traced(k)
    BY <1>2, <1>4, <1>6, <1>7, <1>13, EmptyList DEF Traced, SameRequest
  <2>3. Filtered(k)
    BY <1>2, <1>4, <1>8, <1>9, <1>13, <2>1 DEF Filtered, SameRequest
  <2> QED BY <1>3, <2>2, <2>3
<1> QED BY <1>4, <1>12, <1>13

LEMMA RunBeforeFlows ==
  ASSUME TypeInv, Flows, NEW w \in Workers, RunBefore(w) PROVE Flows'
<1>1. job[w].pc = "before" /\ UNCHANGED loading
  BY DEF RunBefore, At
<1>2. CASE Head(job[w].todo) = "parser"
  <2>1. "np" # "parser"
    OBVIOUS
  <2>2. PICK t \in Moments(job[w], 5) :
               \E f : Becomes(w, ParserBefore(job[w], t, f))
    BY <1>2, <2>1 DEF RunBefore
  <2>3. PICK f : Becomes(w, ParserBefore(job[w], t, f))
    BY <2>2
  <2> QED BY <1>1, <1>2, <2>3, ParserBeforeFlows, Flowing
<1>3. CASE Head(job[w].todo) # "parser"
  <2>1. Becomes(w, NpBefore(job[w]))
    BY <1>3 DEF RunBefore
  <2> QED BY <1>1, <1>3, <2>1, NpBeforeFlows, Flowing
<1> QED BY <1>2, <1>3

LEMMA RunAfterFlows ==
  ASSUME TypeInv, Flows, NEW w \in Workers, RunAfter(w) PROVE Flows'
<1> DEFINE j == job[w]
<1>1. j \in Jobs(j.parts) /\ j.todo # <<>> /\ j.ext \in Exts /\ j.pc = "after" /\ UNCHANGED loading
  BY DEF TypeInv, JobsOK, JobOK, Guarded, Jobs, RunAfter, At
<1>2. Traced(j) /\ Filtered(j)
  BY DEF Flows
<1>3. /\ Tail(j.todo) \in Lists /\ ~HasParser(Tail(j.todo))
      /\ Head(j.todo) = "parser" => HasParser(j.todo)
      /\ Head(j.todo) # "parser" => ~HasParser(j.todo)
  BY <1>1, <1>2, ListHead DEF Traced
<1>4. "form" \in Slots
  BY DEF Slots
<1>5. ASSUME NEW k, Onward(j, k)
      PROVE  k.todo \in Lists /\ ~HasParser(k.todo) /\ k.pc \in {"after", "answer"}
  BY <1>1, <1>3, <1>5 DEF Onward
<1>6. ASSUME NEW k, SameRequest(j, k) PROVE Plain(k) => Plain(j)
  BY <1>1, <1>6 DEF Plain, SameRequest
<1>7. CASE Head(j.todo) = "parser"
  <2>1. PICK t \in Moments(j, 4) : Becomes(w, ParserAfter(j, t))
    <3>1. "np" # "parser"
      OBVIOUS
    <3> QED BY <1>7, <3>1 DEF RunAfter
  <2>2. PICK k : k = ParserAfter(j, t)
    OBVIOUS
  <2>3. /\ SameRequest(j, k) /\ Onward(j, k) /\ k.refusedBy = j.refusedBy /\ k.ran = j.ran
        /\ k.files = FilesLeft(j, Finds(j, "form", t)) /\ k.lost = t[4] /\ t[4] \in 0..2
        /\ k.misused = (j.misused \/ \E s \in Slots : Finds(j, s, t) /\ j.ext[s] = "freed")
        /\ \A s \in Slots : k.ext[s] = IF ~Finds(j, s, t) THEN j.ext[s]
                                     ELSE IF s = "form" THEN "none" ELSE Free(j.ext[s])
    BY <1>1, <2>2, ParserAfterFields
  <2>4. HasParser(j.todo) /\ ParserOn
    BY <1>2, <1>3, <1>7 DEF Traced
  <2>5. ~Freed(j) /\ (j.again => ~Marked(j))
    BY <1>1, <1>2, <2>4 DEF Traced, Freed, Marked
  <2>6. ~k.misused
    BY <1>2, <2>3, <2>5, Zenon DEF Traced, Freed
  <2>7. Marked(k) => Marked(j)
    BY <2>3 DEF Marked, Free
  <2>8. Traced(k)
    BY <1>2, <1>5, <2>3, <2>4, <2>5, <2>6, <2>7, <1>1 DEF Traced, SameRequest
  <2>9. /\ \A i \in 1..4 : t[i] \in 0..2 /\ j.lost <= t[i]
        /\ t[1] <= t[2] /\ t[2] <= t[3] /\ t[3] <= t[4]
    BY <1>1, MomentsAre
  <2>10. /\ t[1] \in 0..2 /\ t[2] \in 0..2 /\ t[3] \in 0..2 /\ t[4] \in 0..2
         /\ j.lost <= t[4] /\ j.lost \in 0..2
    BY <1>1, <2>9 DEF Jobs
  <2>11. \A s \in Slots : ~j.again /\ ~Finds(j, s, t) => 0 < t[4] /\ (s = "set_cookie" => 1 < t[4])
    BY <2>9, <2>10 DEF Slots, Finds, AfterOrder, GoneAt
  <2>12. ~j.again => /\ k.lost = 0 => ~Live(k)
                     /\ k.lost <= 1 => k.ext["set_cookie"] # "live"
    <3>1. \A s \in Slots : Finds(j, s, t) => k.ext[s] # "live"
      BY <2>3 DEF Free
    <3>2. "set_cookie" \in Slots
      BY DEF Slots
    <3> QED BY <2>3, <2>10, <2>11, <3>1, <3>2 DEF Live
  <2>13. Plain(j) /\ k.refusedBy = None /\ k.files # {} => k.lost > 0
    <3>1. j.files # {} /\ Plain(j) /\ k.refusedBy = None => j.ext["form"] = "live" \/ j.lost > 0
      BY <1>1, <1>2, <2>3 DEF Filtered
    <3>2. k.files # {} => /\ j.files # {}
                          /\ ~Finds(j, "form", t) \/ j.ext["form"] # "live"
      BY <2>3 DEF FilesLeft
    <3> QED BY <1>4, <2>3, <2>10, <2>11, <3>1, <3>2 DEF Plain
  <2>14. Filtered(k)
    BY <1>1, <1>2, <1>5, <1>6, <2>3, <2>10, <2>12, <2>13 DEF Filtered, Plain, SameRequest
  <2> QED BY <1>1, <2>1, <2>2, <2>8, <2>14, Flowing
<1>8. CASE Head(j.todo) # "parser"
  <2>1. PICK k : k = Pass(j)
    OBVIOUS
  <2>2. SameRequest(j, k) /\ SameTraces(j, k) /\ Onward(j, k)
    BY <1>1, <2>1, PassFields
  <2>3. ~HasParser(j.todo)
    BY <1>3, <1>8
  <2>4. (Marked(k) <=> Marked(j)) /\ (Freed(k) <=> Freed(j)) /\ (Live(k) <=> Live(j))
    BY <2>2 DEF SameTraces, Marked, Freed, Live
  <2>5. Traced(k)
    BY <1>1, <1>2, <1>5, <2>2, <2>3, <2>4 DEF Traced, SameRequest, SameTraces
  <2>6. Filtered(k)
    BY <1>1, <1>2, <1>5, <1>6, <2>2, <2>3, <2>4 DEF Filtered, SameRequest, SameTraces
  <2>7. Becomes(w, k)
    BY <1>8, <2>1 DEF RunAfter
  <2> QED BY <1>1, <2>5, <2>6, <2>7, Flowing
<1> QED BY <1>7, <1>8

\* Between the filters a request keeps its maps.
LEMMA MiddleFlows ==
  ASSUME TypeInv, Flows, NEW w \in Workers, NEW k, Becomes(w, k), UNCHANGED loading,
         job[w].pc \in {"call", "page", "insert"}, k.pc \in {"page", "insert", "called"},
         k.req = job[w].req, k.again = job[w].again, k.early = job[w].early, k.todo = job[w].todo,
         k.ext = job[w].ext, k.misused = job[w].misused, k.refusedBy = job[w].refusedBy,
         k.files \subseteq job[w].files, k.lost = job[w].lost, job[w].lost \in 0..2,
         k.ran => job[w].ran \/ (job[w].pc = "call" /\ NpOn /\ ~Gone(job[w]))
  PROVE  Flows'
<1> DEFINE j == job[w]
<1>1. Traced(j) /\ Filtered(j)
  BY DEF Flows
<1>2. (Marked(k) <=> Marked(j)) /\ (Freed(k) <=> Freed(j))
  BY DEF Marked, Freed
<1>3. Traced(k)
  BY <1>1, <1>2 DEF Traced
<1>4. Plain(k) => Plain(j)
  BY DEF Plain
<1>5. Plain(k) /\ k.ran => Entitled(k.req)
  BY <1>1, <1>4 DEF Filtered, Plain, Gone, GoneAt
<1>6. Filtered(k)
  BY <1>1, <1>4, <1>5 DEF Filtered
<1> QED BY <1>3, <1>6, Flowing

LEMMA CallFlows ==
  ASSUME TypeInv, Flows, NEW w \in Workers, Call(w) PROVE Flows'
<1> DEFINE j == job[w]
<1>1. PICK left \in SUBSET j.files :
        Becomes(w, [j EXCEPT !.pc = "called", !.ran = TRUE, !.files = left])
  BY DEF Call
<1>2. j.pc = "call" /\ UNCHANGED loading /\ bound # {} /\ ~Gone(j)
  BY DEF Call, At
<1>3. j \in Jobs(j.parts) /\ j.lost \in 0..2
  BY DEF TypeInv, JobsOK, JobOK, Jobs
<1> DEFINE k == [j EXCEPT !.pc = "called", !.ran = TRUE, !.files = left]
<1>4. /\ k.pc = "called" /\ k.req = j.req /\ k.again = j.again /\ k.early = j.early
      /\ k.todo = j.todo /\ k.ext = j.ext /\ k.misused = j.misused
      /\ k.refusedBy = j.refusedBy /\ k.files \subseteq j.files
      /\ k.lost = j.lost
  BY <1>3 DEF Jobs
<1>5. Becomes(w, k) /\ NpOn
  BY <1>1, <1>2 DEF Flows, LoadInv
<1> HIDE DEF k
<1> QED BY <1>2, <1>3, <1>4, <1>5, MiddleFlows

LEMMA PageFlows ==
  ASSUME TypeInv, Flows, NEW w \in Workers,
         CallDefault(w) \/ FromCache(w) \/ NotCached(w) \/ ReadPage(w) \/ InsertPage(w)
  PROVE  Flows'
<1> DEFINE j == job[w]
<1>1. j \in Jobs(j.parts) /\ j.lost \in 0..2
  BY DEF TypeInv, JobsOK, JobOK, Jobs
<1>2. j.pc \in {"call", "page", "insert"} /\ UNCHANGED loading
  BY DEF CallDefault, FromCache, NotCached, ReadPage, InsertPage, At
<1>3. ASSUME NEW pc \in {"page", "insert", "called"}, NEW body,
             Becomes(w, [j EXCEPT !.pc = pc, !.body = body])
      PROVE  Flows'
  <2> DEFINE k == [j EXCEPT !.pc = pc, !.body = body]
  <2>1. /\ k.pc = pc /\ k.req = j.req /\ k.again = j.again /\ k.early = j.early
        /\ k.todo = j.todo /\ k.ext = j.ext /\ k.misused = j.misused
        /\ k.refusedBy = j.refusedBy /\ k.files = j.files /\ k.ran = j.ran
        /\ k.lost = j.lost
    BY <1>1 DEF Jobs
  <2>2. Becomes(w, k)
    BY <1>3
  <2> HIDE DEF k
  <2> QED BY <1>1, <1>2, <2>1, <2>2, MiddleFlows
<1>4. CASE CallDefault(w)
  <2>1. PICK pc \in {"called", "page"} : pc = IF Gone(j) THEN "called" ELSE "page"
    OBVIOUS
  <2>2. [j EXCEPT !.pc = pc] = [j EXCEPT !.pc = pc, !.body = j.body]
    BY <1>1 DEF Jobs
  <2>3. Becomes(w, [j EXCEPT !.pc = pc])
    BY <1>4, <2>1 DEF CallDefault
  <2>4. Becomes(w, [j EXCEPT !.pc = pc, !.body = j.body])
    BY <2>2, <2>3
  <2> QED BY <1>3, <2>4
<1>5. CASE FromCache(w) \/ NotCached(w) \/ InsertPage(w)
  <2>1. PICK body : Answer(w, body)
    BY <1>5 DEF FromCache, NotCached, InsertPage
  <2>2. Becomes(w, [j EXCEPT !.pc = "called", !.body = IF Answerable(j) THEN body ELSE NoBody])
    BY <2>1 DEF Answer
  <2> QED BY <1>3, <2>2
<1>6. CASE ReadPage(w)
  <2>1. Becomes(w, [j EXCEPT !.pc = "insert", !.body = Body("read", file[j.req.uri])])
    BY <1>6 DEF ReadPage
  <2> QED BY <1>3, <2>1
<1> QED BY <1>4, <1>5, <1>6

LEMMA CallDoneFlows ==
  ASSUME Shipped, TypeInv, Flows, NEW w \in Workers, CallDone(w) PROVE Flows'
<1> DEFINE j == job[w]
<1>1. j \in Jobs(j.parts) /\ j.pc = "called" /\ UNCHANGED loading
  BY DEF TypeInv, JobsOK, JobOK, CallDone, At
<1>2. PICK k : k = Enter(j, after, "after", "answer")
  OBVIOUS
<1>3. /\ SameRequest(j, k) /\ SameTraces(j, k) /\ k.todo = after
      /\ k.pc = IF after = <<>> THEN "answer" ELSE "after"
  BY <1>1, <1>2, EnterFields
<1>4. Becomes(w, k)
  BY <1>2 DEF CallDone
<1>5. Traced(j) /\ Filtered(j) /\ LoadInv
  BY DEF Flows
<1>6. ~Freed(j) /\ (j.again => ~Marked(j))
  BY <1>1, <1>5 DEF Traced, Freed, Marked
<1>7. (Marked(k) <=> Marked(j)) /\ (Freed(k) <=> Freed(j)) /\ (Live(k) => Marked(j))
  BY <1>3 DEF SameTraces, Marked, Freed, Live
<1>8. Traced(k)
  BY <1>1, <1>3, <1>5, <1>6, <1>7 DEF Traced, LoadInv, SameRequest, SameTraces
<1>9. Plain(k) => Plain(j) /\ loaded = Len(Handlers)
  BY <1>1, <1>3, <1>5 DEF Plain, Traced, SameRequest
<1>10. Plain(k) /\ ~HasParser(after) => ~Live(k)
  BY <1>5, <1>7, <1>9 DEF Shipped, LoadInv, Traced
<1>11. ~Live(k) => k.ext["set_cookie"] # "live"
  BY DEF Live, Slots
<1>12. Filtered(k)
  BY <1>1, <1>3, <1>5, <1>9, <1>10, <1>11, EmptyList DEF Filtered, SameRequest, SameTraces
<1> QED BY <1>1, <1>4, <1>8, <1>12, Flowing

LEMMA LoopFlows ==
  ASSUME TypeInv, Flows, NEW w \in Workers, Loop(w) PROVE Flows'
<1> DEFINE j == job[w]
<1>1. j \in Jobs(j.parts) /\ j.pc = "stuck" /\ UNCHANGED loading
  BY DEF TypeInv, JobsOK, JobOK, Loop, At
<1>2. Traced(j) /\ Filtered(j)
  BY DEF Flows
<1>3. CASE Becomes(w, j)
  BY <1>1, <1>2, <1>3, Flowing
<1>4. CASE Becomes(w, Refuse([j EXCEPT !.result = "lost"], "parser"))
  <2>1. PICK l : l = [j EXCEPT !.result = "lost"]
    OBVIOUS
  <2>2. /\ l \in Jobs(j.parts) /\ l.req = j.req /\ l.again = j.again /\ l.early = j.early
        /\ l.ran = j.ran /\ l.ext = j.ext /\ l.misused = j.misused
    BY <1>1, <2>1 DEF Jobs, Results
  <2>3. PICK k : k = Refuse(l, "parser")
    OBVIOUS
  <2>4. /\ k.req = j.req /\ k.again = j.again /\ k.early = j.early /\ k.ran = j.ran
        /\ k.ext = j.ext /\ k.misused = j.misused
        /\ k.pc = "answer" /\ k.todo = <<>> /\ k.refusedBy = "parser"
    BY <2>2, <2>3, RefuseFields DEF SameRequest
  <2>5. Traced(k)
    BY <1>1, <1>2, <2>4, EmptyList DEF Traced, Marked, Freed
  <2>6. None # "parser" /\ "np" # "parser"
    BY DEF Dlls
  <2>7. Filtered(k)
    BY <1>1, <1>2, <2>4, <2>6 DEF Filtered, Plain
  <2> QED BY <1>1, <1>4, <2>1, <2>3, <2>5, <2>7, Flowing
<1> QED BY <1>3, <1>4 DEF Loop

\* What a request carries stays when close_link deletes it; only fewer can find it.
LEMMA CloseLinkFlows ==
  ASSUME TypeInv, Flows, NEW w \in Workers, CloseLink(w) PROVE Flows'
<1> DEFINE j == job[w]
<1>1. j \in Jobs(j.parts) /\ j.lost \in 0..2 /\ UNCHANGED loading
  BY DEF TypeInv, JobsOK, JobOK, Jobs, CloseLink
<1>2. PICK lost \in 0..2 : lost = j.lost + 1
  BY <1>1 DEF CloseLink, Left
<1>3. PICK k : k = Lost(j, lost)
  OBVIOUS
<1>4. Becomes(w, k)
  BY <1>2, <1>3 DEF CloseLink, Lost
<1>5. /\ k.req = j.req /\ k.again = j.again /\ k.early = j.early /\ k.pc = j.pc
      /\ k.todo = j.todo /\ k.refusedBy = j.refusedBy /\ k.ran = j.ran /\ k.files = j.files
      /\ k.misused = j.misused /\ k.ext = j.ext /\ k.lost = lost
  BY <1>1, <1>3, LostFields DEF SameRequest
<1>6. Traced(j) /\ Filtered(j)
  BY DEF Flows
<1>7. Traced(k)
  BY <1>5, <1>6 DEF Traced, Marked, Freed
<1>8. Filtered(k)
  BY <1>1, <1>2, <1>5, <1>6 DEF Filtered, Plain, Live
<1> QED BY <1>1, <1>4, <1>7, <1>8, Flowing

LEMMA LoadNextFlows == ASSUME Shipped, TypeInv, Flows, LoadNext PROVE Flows'
<1>1. LoadInv' /\ (ParserOn => ParserOn')
  BY LoadFlows DEF Flows
<1>2. loaded < Len(Handlers) /\ job' = job /\ loaded \in Int /\ Len(Handlers) \in Int
  BY DEF LoadNext, TypeInv, LoadOK
<1>3. ASSUME NEW w \in Workers PROVE Traced(job[w])' /\ Filtered(job[w])'
  <2>1. PICK j : j = job[w] /\ j = job'[w]
    BY <1>2
  <2>2. Traced(j)
    BY <2>1 DEF Flows
  <2>3. j.pc = "idle" \/ j.early
    BY <1>2, <2>2 DEF Traced
  <2>4. Traced(j)'
    BY <1>1, <2>2, <2>3 DEF Traced
  <2>5. Filtered(j)'
    BY <2>3 DEF Filtered, Plain
  <2>6. Traced(job[w])' /\ Filtered(job[w])'
    BY <2>1, <2>4, <2>5 DEF Traced, Filtered, Marked, Freed, Live, Plain, ParserOn, NpOn, Entitled
  <2> QED BY <2>6
<1> QED BY <1>1, <1>3 DEF Flows

LEMMA StepFlows == ASSUME Shipped, TypeInv, Flows, [Next]_wvars PROVE Flows'
<1>1. CASE LoadNext
  BY <1>1, LoadNextFlows
<1>2. CASE Restart
  <2>1. /\ loaded' = 0 /\ dlls' = [d \in Dlls |-> "unknown"]
        /\ before' = <<>> /\ after' = <<>> /\ bound' = {}
        /\ job' = [w \in Workers |-> Idle]
    BY <1>2 DEF Restart
  <2>2. LoadInv'
    BY <2>1, EmptyList DEF LoadInv, ParserOn, NpOn, Dlls
  <2>3. ~Marked(Idle) /\ ~Freed(Idle)
    BY DEF Idle, NoExt, Marked, Freed
  <2>4. Idle.pc = "idle" /\ Idle.todo = <<>> /\ ~Idle.misused
    BY DEF Idle
  <2>5. \A w \in Workers : job'[w] = Idle
    BY <2>1
  <2>6. \A w \in Workers : Traced(job[w])' /\ Filtered(job[w])'
    BY <2>3, <2>4, <2>5, EmptyList DEF Traced, Filtered, Plain, Marked, Freed
  <2> QED BY <2>2, <2>6 DEF Flows
<1>3. CASE (\E p \in Pages : FileChanges(p)) \/ UNCHANGED wvars
  BY <1>3 DEF FileChanges, wvars, loading, Flows, LoadInv, Traced, Filtered, Plain, Marked,
              Freed, Live, ParserOn, NpOn, Entitled
<1>4. ASSUME NEW w \in Workers, Work(w) \/ \E r \in Requests : TakeRequest(w, r)
      PROVE  Flows'
  <2>1. CASE RunBefore(w) \/ RunAfter(w)
    BY <2>1, RunBeforeFlows, RunAfterFlows
  <2>2. CASE Call(w) \/ CallDone(w)
    BY <2>2, CallFlows, CallDoneFlows
  <2>3. CASE CallDefault(w) \/ FromCache(w) \/ NotCached(w) \/ ReadPage(w) \/ InsertPage(w)
    BY <2>3, PageFlows
  <2>4. CASE Answered(w)
    BY <2>4, IdleFlows, Flowing DEF Answered
  <2>5. CASE Again(w)
    BY <2>5, AgainFlows
  <2>6. CASE \E r \in Requests : TakeRequest(w, r)
    BY <2>6, TakeRequestFlows
  <2>7. CASE Loop(w) \/ CloseLink(w)
    BY <2>7, LoopFlows, CloseLinkFlows
  <2> QED BY <1>4, <2>1, <2>2, <2>3, <2>4, <2>5, <2>6, <2>7 DEF Work
<1> QED BY <1>1, <1>2, <1>3, <1>4 DEF Next

LEMMA AlwaysFlows == ASSUME Shipped PROVE Spec => [](TypeInv /\ Flows)
<1>1. Init => TypeInv /\ Flows
  BY InitTyped, InitFlows
<1>2. TypeInv /\ Flows /\ [Next]_wvars => TypeInv' /\ Flows'
  BY StepTyped, StepFlows
<1> QED BY <1>1, <1>2, PTL DEF Spec

\* As handler.json is shipped, no filter uses or deletes what http_parser_after has deleted:
\* a request that comes to http_handler a second time is stopped by http_parser_before, and
\* one that close_link deletes is not found.
THEOREM FiltersDoNotMisuse == ASSUME Shipped PROVE Spec => []NoMisuse
<1>1. TypeInv /\ Flows => NoMisuse
  BY FlowsEnough
<1> QED BY <1>1, AlwaysFlows, PTL

\* As handler.json is shipped, a request that no filter refused leaves no map and no cache
\* file but those that http_parser_after could not find, because close_link had deleted the
\* request, or the response too; whichever of the two libraries could be loaded.
THEOREM FiltersRelease == ASSUME Shipped PROVE Spec => []MapsReleased
<1>1. TypeInv /\ Flows => MapsReleased
  BY FlowsEnough
<1> QED BY <1>1, AlwaysFlows, PTL

\* As handler.json is shipped, a handler runs for those that permission.json lets through,
\* and np_before refuses no other.
THEOREM FiltersCheck == ASSUME Shipped PROVE Spec => []Checked
<1>1. TypeInv /\ Flows => Checked
  BY FlowsEnough
<1> QED BY <1>1, AlwaysFlows, PTL
=============================================================================
