--------------------------- MODULE MultipartForm ---------------------------
(***************************************************************************)
(* MultipartFormParser::parser (plug/http_parser): a form of several parts *)
(* is read from the body of a request in windows of buff_size_ bytes.      *)
(*                                                                         *)
(* A character stands for a piece of text that the parser looks for or     *)
(* skips: "x" is the boundary with the dashes before it, "n" an end of     *)
(* line, "-" the two dashes that end a form, "f" part headers with a file  *)
(* name, "h" part headers without, "d" data.                               *)
(***************************************************************************)
EXTENDS Integers, Sequences

Chars == {"x", "n", "-", "f", "h", "d"}
BeginMark == <<"x", "n">>      \* b_boundary
EndMark == <<"x", "-">>        \* e_boundary
ParamEnd == <<"n", "n">>       \* param_boundary

\* string::find: the first place of m in t, 0 when there is none.
Places(t, m) == {i \in 1..(Len(t) - 1) : t[i] = m[1] /\ t[i + 1] = m[2]}
Find(t, m) ==
  IF Places(t, m) = {} THEN 0
  ELSE CHOOSE i \in Places(t, m) : \A j \in Places(t, m) : i <= j
From(t, i) == SubSeq(t, i, Len(t))

BeforeMark(t, i) == SubSeq(t, 1, i - 1)        \* seeded fault: keeps the end of line
\* The data in front of a mark at i, without the end of line: substr(0, pos - CRLF.size()),
\* whose count is huge when nothing is in front.
InFront(t, i) == IF i = 1 THEN t ELSE SubSeq(t, 1, i - 2)

\* The parser between two turns of its loops.  outer is the length of the last window the
\* outer loop read: the inner loops declare a read_len of their own.
Start(body, window, disk) ==
  [mode |-> "begin", body |-> body, window |-> window, disk |-> disk,
   cache |-> <<>>, pos |-> 0, outer |-> 0, file |-> FALSE, data |-> <<>>, parts |-> <<>>]

Ended(s) == s.mode \in {"over", "error"}
Stop(s) == [s EXCEPT !.mode = "error"]

\* request_get_body: the next window, empty at the end of the body.
Window(s) ==
  SubSeq(s.body, s.pos + 1,
         IF s.pos + s.window < Len(s.body) THEN s.pos + s.window ELSE Len(s.body))
Read(s) == [s EXCEPT !.cache = s.cache \o Window(s), !.pos = s.pos + Len(Window(s))]
AllRead(s) == Len(s.body) <= s.pos

\* The outer loop looks for the beginning of a part; what is in front of it stays.
BeginStep(s) ==
  LET t == [Read(s) EXCEPT !.outer = Len(Window(s))]
      at == Find(t.cache, BeginMark)
  IN  IF at # 0 THEN [t EXCEPT !.mode = "param", !.cache = From(t.cache, at + 2)]
      ELSE IF AllRead(t) THEN Stop(t) ELSE t

\* Its headers; a part with a file name goes to a new cache file.
ParamStep(s) ==
  LET at == Find(s.cache, ParamEnd)
      file == \E i \in 1..(at - 1) : s.cache[i] = "f"
      t == [s EXCEPT !.mode = "data", !.cache = From(s.cache, at + 2),
                     !.file = file, !.data = <<>>]
  IN  IF at # 0 THEN (IF file /\ ~s.disk THEN Stop(s) ELSE t)
      ELSE IF AllRead(s) THEN Stop(s) ELSE Read(s)

Part(s, at) == [file |-> s.file, data |-> s.data \o InFront(s.cache, at)]
AfterRead(s) == Read([s EXCEPT !.data = s.data \o s.cache, !.cache = <<>>])

\* The data goes on to the next mark.  All that is there without a mark is data; the loop
\* ends without one only when the last window of the outer loop was the whole body.
DataStep(s) ==
  LET begin == Find(s.cache, BeginMark)
      end == Find(s.cache, EndMark)
  IN  IF begin # 0
        THEN [s EXCEPT !.mode = "begin", !.parts = Append(s.parts, Part(s, begin)),
                       !.cache = From(s.cache, begin)]
      ELSE IF end # 0
        THEN [s EXCEPT !.mode = "over", !.parts = Append(s.parts, Part(s, end))]
      ELSE IF Len(s.body) = s.outer THEN Stop(s)
      ELSE AfterRead(s)

Step(s) ==
  CASE s.mode = "begin" -> BeginStep(s)
    [] s.mode = "param" -> ParamStep(s)
    [] s.mode = "data" -> DataStep(s)
    [] OTHER -> s

\* The parts with the one the parser is in the middle of, whose cache file is there.
Unfinished(s) == Append(s.parts, [file |-> s.file, data |-> s.data \o s.cache])
\* A turn when the request is gone: request_get_body fails, and the cache file stays.
LostStep(s) ==
  IF s.mode = "begin" \/ (s.mode = "param" /\ Step(s).mode = "param") THEN Stop(s)
  ELSE IF s.mode = "data" /\ Step(s).mode = "data"
    THEN Stop([s EXCEPT !.parts = Unfinished(s)])
  ELSE Step(s)
Turn(s, n) == IF s.pos < n THEN Step(s) ELSE LostStep(s)

\* The parser after enough turns, when the request is gone once n characters of the body are
\* read: it has ended, or it is in a loop that changes nothing.
Turns(body) == 2 * Len(body) + 4
ParseUntil(body, window, disk, n) ==
  LET after[k \in 0..Turns(body)] ==
        IF k = 0 THEN Start(body, window, disk) ELSE Turn(after[k - 1], n)
  IN  after[Turns(body)]
\* The request stays.
ParseForm(body, window, disk) == ParseUntil(body, window, disk, Len(body) + 1)
-----------------------------------------------------------------------------
(* What a browser sends, and when it is read as it was sent.               *)

Encoded(part) ==
  BeginMark \o <<IF part.file THEN "f" ELSE "h">> \o ParamEnd \o part.data \o <<"n">>
\* The body of a form with these parts.
Encode(form) ==
  LET text[n \in 0..Len(form)] ==
        IF n = 0 THEN <<>> ELSE text[n - 1] \o Encoded(form[n])
  IN  text[Len(form)] \o EndMark

\* A form has parts, and their data no boundary.  All of it arrives, or what was sent before
\* the connection broke.
FormPart == [file : BOOLEAN, data : Seq(Chars \ {"x"})]
Arrives(body, form) == \E n \in 0..Len(Encode(form)) : body = SubSeq(Encode(form), 1, n)
FromBrowser(body) == \E form \in Seq(FormPart) \ {<<>>} : Arrives(body, form)

\* These parts, without a boundary in their data, were sent as this body.
NoBoundary(data) == \A k \in 1..Len(data) : data[k] # "x"
SentAs(parts, body) ==
  Encode(parts) = body /\ \A n \in 1..Len(parts) : NoBoundary(parts[n].data)
\* One of the parts of a body has a file.
FilePart(body) ==
  \E i \in Places(body, BeginMark) : i + 2 <= Len(body) /\ body[i + 2] = "f"

\* A window ends in the mark behind some data, or between it and its end of line.
MarkCut(body, window) ==
  \E i \in 2..(Len(body) - 1) :
    /\ body[i] = "x" /\ body[i - 1] = "n"
    /\ (i - 1) % window = 0 \/ i % window = 0

Complete(body) == Find(body, EndMark) # 0
=============================================================================
