----------------------------- MODULE WebServer -----------------------------
(***************************************************************************)
(* The web server (WebService/web_server.cpp) and its first plug-in        *)
(* (plug/http_parser).  load_handler fills the filters and the table of    *)
(* handlers while requests are already served.  Each worker takes a        *)
(* request through the filters before, one handler or a page, and the      *)
(* filters after.  The filters of http_parser attach maps to the request   *)
(* and take them away again; the ones of NewPublish check permissions.     *)
(*                                                                         *)
(* The containers of the server have no lock.  A change of one that        *)
(* another worker is in the middle of may end the process.                 *)
(*                                                                         *)
(* The time-out of the receive that brought a request may be in the queue  *)
(* already.  Then close_link takes the request and its response away from  *)
(* under the filters and handlers, which look them up again and again.     *)
(***************************************************************************)
EXTENDS MultipartForm, FiniteSets

CONSTANTS
  Workers,       \* threads of the io_service
  Handlers,      \* handler.json: a sequence of [type, dll, uri]
  Pages,         \* uris of files under web_root
  Protected,     \* uris that permission.json keeps from visitors
  Requests,      \* the requests clients send: [uri, user, form, timed]
  Windows,       \* values of buff_size
  MaxVersion,    \* bound: a page is changed this often
  MaxTimed,      \* bound: so many requests at once have a time-out in the queue
  None

Dlls == {"parser", "np"}
Index == "/"                                   \* redirected to index_page_
Upload == "upload"                             \* deal_upload_new_image
Uris == {r.uri : r \in Requests}
Handler == [type : {"before", "uri", "after"}, dll : Dlls, uri : Uris \cup {None}]

ASSUME WebAssumption ==
  /\ Handlers \in Seq(Handler)
  /\ \A i \in DOMAIN Handlers : Handlers[i].type = "uri" => Handlers[i].dll = "np"
  /\ Requests \subseteq [uri : Uris, user : BOOLEAN, form : Seq(Chars), timed : BOOLEAN]
  /\ Protected \subseteq Uris /\ MaxVersion \in Nat /\ Windows \subseteq Nat \ {0}
  /\ MaxTimed \in Nat
  /\ None \notin Uris \cup Dlls /\ None \notin 0..MaxVersion

\* handler.json as it is shipped: the filters of http_parser, then those of the news
\* application, then handlers of uris.
Shipped ==
  /\ 4 <= Len(Handlers)
  /\ \A i \in DOMAIN Handlers :
       IF i <= 4 THEN /\ Handlers[i].dll = (IF i <= 2 THEN "parser" ELSE "np")
                      /\ Handlers[i].type = (IF i \in {1, 3} THEN "before" ELSE "after")
                 ELSE Handlers[i].type = "uri"

VARIABLES
  loaded,     \* how many entries of Handlers load_handler has dealt with
  dlls,       \* dll_map_: a dll that is not there is not tried again
  before,     \* before_filter_vec_, each filter by its dll
  after,      \* after_filter_vec_
  bound,      \* the uris in func_map_
  cacheOn,    \* config: page_cahe = 1
  window,     \* config: buff_size
  file,       \* [Pages -> version on disk]
  cache,      \* page_cache_map_: [Pages -> version or None]
  job,        \* [Workers -> the request a worker is about]
  crashed     \* the process has ended

loading == <<loaded, dlls, before, after, bound>>
config == <<cacheOn, window>>
wvars == <<loading, config, file, cache, job, crashed>>

Points == {"idle", "before", "call", "page", "insert", "called", "after", "answer", "stuck"}
Slots == {"uri", "cookie", "set_cookie", "form"}
NoExt == [s \in Slots |-> "none"]
NoBody == [from |-> "nothing", version |-> 0]
NoRequest == [uri |-> None, user |-> FALSE, form |-> <<>>, timed |-> FALSE]
\* again: the second call for a request.  timed: the time-out of its receive is queued.
\* lost: how many of its request and its response close_link has deleted, in this order.
Idle ==
  [pc |-> "idle", req |-> NoRequest, again |-> FALSE, timed |-> FALSE, lost |-> 0,
   early |-> FALSE, todo |-> <<>>, refusedBy |-> None, ran |-> FALSE, ext |-> NoExt,
   result |-> "none", parts |-> <<>>, files |-> {}, body |-> NoBody, misused |-> FALSE]

Init ==
  /\ loaded = 0 /\ dlls = [d \in Dlls |-> "unknown"]
  /\ before = <<>> /\ after = <<>> /\ bound = {}
  /\ cacheOn \in BOOLEAN /\ window \in Windows
  /\ file = [p \in Pages |-> 0] /\ cache = [p \in Pages |-> None]
  /\ job = [w \in Workers |-> Idle]
  /\ crashed = FALSE
-----------------------------------------------------------------------------
(* load_handler, in the thread of main                                     *)

At(w, pc) == job[w].pc = pc /\ ~crashed
Becomes(w, j) == job' = [job EXCEPT ![w] = j]

AddFirst(seq, d) == <<d>> \o seq               \* seeded fault: the filters in reverse order
AddHandler(seq, d) == Append(seq, d)

\* A worker is in the middle of the container that an entry of this type goes to.
Iterated(type) ==
  \E w \in Workers : IF type = "uri" THEN job[w].pc = "call"
                     ELSE job[w].pc = type

LoadNext ==
  /\ loaded < Len(Handlers) /\ ~crashed
  /\ LET e == Handlers[loaded + 1] IN
     \E d \in IF dlls[e.dll] = "unknown" THEN {"loaded", "missing"} ELSE {dlls[e.dll]} :
       /\ loaded' = loaded + 1
       /\ dlls' = [dlls EXCEPT ![e.dll] = d]
       /\ before' = IF d = "loaded" /\ e.type = "before" THEN AddHandler(before, e.dll) ELSE before
       /\ after' = IF d = "loaded" /\ e.type = "after" THEN AddHandler(after, e.dll) ELSE after
       /\ bound' = IF d = "loaded" /\ e.type = "uri" THEN bound \cup {e.uri} ELSE bound
       /\ crashed' \in {FALSE, d = "loaded" /\ Iterated(e.type)}
  /\ UNCHANGED <<config, file, cache, job>>
-----------------------------------------------------------------------------
(* The time-out: close_link on another worker                              *)

\* get_req finds no request: send_response or close_link has deleted it.
GoneAt(j, lost) == j.again \/ lost > 0
Gone(j) == GoneAt(j, j.lost)
\* get_res finds a response until close_link has deleted it too.
Answerable(j) == j.lost < 2

\* Behind http_handler nobody looks them up.
Left(j) == j.lost..(IF j.timed THEN 2 ELSE j.lost)
CloseLink(w) ==
  /\ ~crashed /\ job[w].pc \notin {"idle", "answer"}
  /\ job[w].lost + 1 \in Left(job[w])
  /\ Becomes(w, [job[w] EXCEPT !.lost = @ + 1])
  /\ UNCHANGED <<loading, config, file, cache, crashed>>

\* How many are deleted at each of n moments, among them the look-ups of a filter of
\* http_parser.  Nothing else that happens in between concerns the request.
Moments(j, n) == {t \in [1..n -> Left(j)] : \A i \in 2..n : t[i - 1] <= t[i]}
-----------------------------------------------------------------------------
(* http_handler                                                            *)

\* The point at which the filters that are left to run run, or the one behind them.
Enter(j, todo, pc, behind) == [j EXCEPT !.pc = IF todo = <<>> THEN behind ELSE pc, !.todo = todo]

Begin(w, j) ==
  Becomes(w, Enter([j EXCEPT !.early = j.early \/ loaded < Len(Handlers)],
                   before, "before", "call"))

TakeRequest(w, r) ==
  /\ At(w, "idle") /\ Begin(w, [Idle EXCEPT !.req = r, !.timed = r.timed])
  /\ r.timed => Cardinality({v \in Workers : job[v].timed}) < MaxTimed
  /\ UNCHANGED <<loading, config, file, cache, crashed>>

Pass(j) == IF j.pc = "before" THEN Enter(j, Tail(j.todo), "before", "call")
           ELSE Enter(j, Tail(j.todo), "after", "answer")
\* A filter that returns other than 0 ends http_handler.
Refuse(j, d) == [j EXCEPT !.pc = "answer", !.todo = <<>>, !.refusedBy = d]

FromZero(parts) == {i \in 0..(Len(parts) - 1) : parts[i + 1].file}  \* seeded fault: counts from 0
\* The cache files that a form's parts were written to.
FormFiles(parts) == {i \in DOMAIN parts : parts[i].file}
\* The parser does not look whether it could attach the form.
WithForm(j, f) ==
  LET parts == IF Ended(f) THEN f.parts ELSE Unfinished(f)
      k == [j EXCEPT !.parts = parts, !.files = FormFiles(parts)]
  IN  CASE f.mode = "over" ->
             Pass([k EXCEPT !.ext["form"] = IF Gone(j) THEN "none" ELSE "live", !.result = "over"])
        [] f.mode = "error" ->
             Refuse([k EXCEPT !.result = IF Gone(j) THEN "lost" ELSE "error"], "parser")
        [] OTHER -> [k EXCEPT !.result = "endless", !.pc = "stuck", !.todo = <<>>]
\* Where the parser may end; when the request is deleted while it reads, behind any window.
FormEnds(form, t) ==
  IF t[4] = 0 /\ t[5] > 0
  THEN {ParseUntil(form, window, disk, n) :
          disk \in BOOLEAN, n \in {i * window : i \in 0..(Len(form) \div window + 1)}}
  ELSE {ParseForm(form, window, disk) : disk \in BOOLEAN}

ParseUri(j) == [j EXCEPT !.ext["uri"] = "live"]
SetCookies(j, state) == [j EXCEPT !.ext["set_cookie"] = state]
ParseCookies(j) == [SetCookies(j, "live") EXCEPT !.ext["cookie"] = "live"]
LetGo(j, t, f) ==                              \* seeded fault: returns 0 without a request
  LET k == [j EXCEPT !.lost = t[5]] IN
  Pass(IF GoneAt(j, t[1]) THEN k ELSE ParseCookies(ParseUri(k)))
\* http_parser_before looks up the request for uri_map, the response for set_cookie_map,
\* the request for cookie_map and for its boundary.  What it cannot attach it deletes; the
\* response keeps its pointer to the set_cookie_map then.
ParserBefore(j, t, f) ==
  LET k == [j EXCEPT !.lost = t[5]] IN
  IF GoneAt(j, t[1]) THEN Refuse(k, "parser")
  ELSE IF t[2] = 2 THEN Refuse(ParseUri(k), "parser")
  ELSE IF GoneAt(j, t[3]) THEN Refuse(SetCookies(ParseUri(k), "freed"), "parser")
  ELSE IF GoneAt(j, t[4]) \/ j.req.form = <<>> THEN Pass(ParseCookies(ParseUri(k)))
  ELSE WithForm(ParseCookies(ParseUri(k)), f)

\* The user of the session in the cookie; a visitor without one.
Known(j) == j.ext["cookie"] = "live" /\ j.req.user
\* np_before: filter_session, filter_permission, filter_index.  A request that is gone has
\* an empty uri, which anybody may ask for.
NpBefore(j) ==
  IF /\ ~Gone(j)
     /\ \/ j.req.uri \in Protected /\ ~Known(j)
        \/ j.req.uri = Index
  THEN Refuse(j, "np") ELSE Pass(j)

RunBefore(w) ==
  /\ At(w, "before")
  /\ \/ /\ Head(job[w].todo) = "parser"
        /\ \E t \in Moments(job[w], 5) : \E f \in FormEnds(job[w].req.form, t) :
             Becomes(w, ParserBefore(job[w], t, f))
     \/ Head(job[w].todo) = "np" /\ Becomes(w, NpBefore(job[w]))
  /\ UNCHANGED <<loading, config, file, cache, crashed>>

\* call: the handler of the uri; deal_upload_new_image moves cache files to where the
\* pictures of the entry are, up to one whose type it does not know.
Call(w) ==
  /\ At(w, "call") /\ job[w].req.uri \in bound /\ ~Gone(job[w])
  /\ \E left \in SUBSET job[w].files :
       /\ job[w].req.uri = Upload \/ left = job[w].files
       /\ \A i \in job[w].files \ left, k \in left : i < k
       /\ Becomes(w, [job[w] EXCEPT !.pc = "called", !.ran = TRUE, !.files = left])
  /\ UNCHANGED <<loading, config, file, cache, crashed>>

\* The uri of a request that is gone is empty: no handler, and no page.
CallDefault(w) ==
  /\ At(w, "call") /\ (job[w].req.uri \notin bound \/ Gone(job[w]))
  /\ Becomes(w, [job[w] EXCEPT !.pc = IF Gone(job[w]) THEN "called" ELSE "page"])
  /\ UNCHANGED <<loading, config, file, cache, crashed>>
-----------------------------------------------------------------------------
(* deal_default and try_page_cache                                         *)

Found(w) == cacheOn /\ job[w].req.uri \in Pages
Body(from, version) == [from |-> from, version |-> version]
Answer(w, body) ==
  Becomes(w, [job[w] EXCEPT !.pc = "called",
                            !.body = IF Answerable(job[w]) THEN body ELSE NoBody])

FromCache(w) ==
  /\ At(w, "page") /\ Found(w) /\ cache[job[w].req.uri] # None
  /\ Answer(w, Body("cache", cache[job[w].req.uri]))
  /\ UNCHANGED <<loading, config, file, cache, crashed>>

\* No cached page: the result is a reference to a string that is gone.  It is empty, and
\* the file or 404 is the answer, or it is whatever the stack holds by then.
NotCached(w) ==
  /\ At(w, "page") /\ ~(Found(w) /\ cache[job[w].req.uri] # None)
  /\ \E from \in {IF job[w].req.uri \in Pages THEN "file" ELSE "404", "garbage"} :
       Answer(w, Body(from, 0))
  /\ UNCHANGED <<loading, config, file, cache, crashed>>

ReadPage(w) ==
  /\ At(w, "page") /\ Found(w) /\ cache[job[w].req.uri] = None
  /\ Becomes(w, [job[w] EXCEPT !.pc = "insert", !.body = Body("read", file[job[w].req.uri])])
  /\ UNCHANGED <<loading, config, file, cache, crashed>>

Replace(old, new) == new                       \* seeded fault: the later reader's page
\* map::insert keeps what is there.
Insert(old, new) == IF old = None THEN new ELSE old
InsertPage(w) ==
  /\ At(w, "insert")
  /\ LET p == job[w].req.uri IN
     /\ cache' = [cache EXCEPT ![p] = Insert(cache[p], job[w].body.version)]
     /\ Answer(w, Body("cache", cache'[p]))
  /\ crashed' \in {FALSE, \E v \in Workers \ {w} : job[v].pc \in {"page", "insert"}}
  /\ UNCHANGED <<loading, config, file>>

FileChanges(p) ==
  /\ file[p] < MaxVersion /\ file' = [file EXCEPT ![p] = @ + 1]
  /\ UNCHANGED <<loading, config, cache, job, crashed>>
-----------------------------------------------------------------------------
(* The filters after, the answer, and the server's end                     *)

CallDone(w) ==
  /\ At(w, "called") /\ Becomes(w, Enter(job[w], after, "after", "answer"))
  /\ UNCHANGED <<loading, config, file, cache, crashed>>

Free(slot) == IF slot = "none" THEN "none" ELSE "freed"
AllFiles(j, found) == j.files                  \* seeded fault: the cache files stay
\* unparser removes the files that the form names, if it finds the form.
FilesLeft(j, found) == IF found /\ j.ext["form"] = "live" THEN {} ELSE j.files
\* http_parser_after looks up the maps and the form in this order.  It deletes the maps it
\* finds where they are, and takes the form off.
AfterOrder == [uri |-> 1, cookie |-> 2, set_cookie |-> 3, form |-> 4]
Finds(j, slot, t) ==
  LET lost == t[AfterOrder[slot]] IN
  IF slot = "set_cookie" THEN lost < 2 ELSE ~GoneAt(j, lost)
ParserAfter(j, t) ==
  Pass([j EXCEPT !.ext = [s \in Slots |-> IF ~Finds(j, s, t) THEN j.ext[s]
                                          ELSE IF s = "form" THEN "none" ELSE Free(j.ext[s])],
                 !.files = FilesLeft(j, Finds(j, "form", t)),
                 !.misused = j.misused \/ \E s \in Slots : Finds(j, s, t) /\ j.ext[s] = "freed",
                 !.lost = t[4]])

RunAfter(w) ==
  /\ At(w, "after")
  /\ \/ /\ Head(job[w].todo) = "parser"
        /\ \E t \in Moments(job[w], 4) : Becomes(w, ParserAfter(job[w], t))
     \/ Head(job[w].todo) = "np" /\ Becomes(w, Pass(job[w]))
  /\ UNCHANGED <<loading, config, file, cache, crashed>>

\* send_response has deleted the request.  It sends the answer, or without memory for that
\* calls http_handler a second time.
Answered(w) ==
  /\ At(w, "answer") /\ Becomes(w, Idle)
  /\ UNCHANGED <<loading, config, file, cache, crashed>>
Again(w) ==
  /\ At(w, "answer") /\ ~job[w].again
  /\ \E lost \in Left(job[w]) :
       Begin(w, [Idle EXCEPT !.again = TRUE, !.timed = job[w].timed, !.lost = lost,
                             !.early = job[w].early, !.misused = job[w].misused,
                             !.ext["set_cookie"] = job[w].ext["set_cookie"]])
  /\ UNCHANGED <<loading, config, file, cache, crashed>>

Restart ==
  /\ crashed /\ crashed' = FALSE
  /\ loaded' = 0 /\ dlls' = [d \in Dlls |-> "unknown"]
  /\ before' = <<>> /\ after' = <<>> /\ bound' = {}
  /\ cache' = [p \in Pages |-> None] /\ job' = [w \in Workers |-> Idle]
  /\ UNCHANGED <<config, file>>

\* MultipartFormParser::parser goes round one of its loops, until its request is gone.
Loop(w) ==
  /\ At(w, "stuck")
  /\ Becomes(w, IF Gone(job[w]) THEN Refuse([job[w] EXCEPT !.result = "lost"], "parser")
                ELSE job[w])
  /\ UNCHANGED <<loading, config, file, cache, crashed>>

Work(w) ==
  \/ RunBefore(w) \/ Call(w) \/ CallDefault(w)
  \/ FromCache(w) \/ NotCached(w) \/ ReadPage(w) \/ InsertPage(w)
  \/ CallDone(w) \/ RunAfter(w) \/ Answered(w) \/ Again(w)
  \/ Loop(w) \/ CloseLink(w)

Next ==
  \/ LoadNext \/ Restart
  \/ \E w \in Workers : Work(w) \/ \E r \in Requests : TakeRequest(w, r)
  \/ \E p \in Pages : FileChanges(p)

Spec == Init /\ [][Next]_wvars
-----------------------------------------------------------------------------
WebTypeOK ==
  /\ loaded \in 0..Len(Handlers) /\ dlls \in [Dlls -> {"unknown", "loaded", "missing"}]
  /\ before \in Seq(Dlls) /\ after \in Seq(Dlls) /\ bound \subseteq Uris \cup {None}
  /\ cacheOn \in BOOLEAN /\ window \in Windows
  /\ file \in [Pages -> 0..MaxVersion] /\ cache \in [Pages -> 0..MaxVersion \cup {None}]
  /\ crashed \in BOOLEAN
  /\ \A w \in Workers :
       /\ job[w].pc \in Points /\ job[w].req \in Requests \cup {NoRequest}
       /\ job[w].todo \in Seq(Dlls) /\ job[w].ext \in [Slots -> {"none", "live", "freed"}]
       /\ job[w].files \subseteq DOMAIN job[w].parts /\ job[w].lost \in 0..2

Over(j) == j.pc = "answer" /\ ~j.again /\ ~j.early

\* A request that no filter refused, taken once all handlers are loaded, leaves behind only
\* what http_parser_after could not find: the maps, the form and its cache files that no
\* handler moved away if close_link has deleted the request, and the map of cookies to set
\* if it has deleted the response too.
MapsReleased ==
  \A w \in Workers : Over(job[w]) /\ job[w].refusedBy = None =>
    /\ job[w].lost = 0 => /\ \A s \in Slots : job[w].ext[s] # "live"
                          /\ job[w].files = {}
    /\ job[w].lost = 1 => job[w].ext["set_cookie"] # "live"

\* Nothing that a filter of http_parser has deleted is used or deleted again, although its
\* pointers stay where they were and http_handler may be called a second time.
NoMisuse == \A w \in Workers : ~job[w].misused

Entitled(r) == r.uri \notin Protected \/ (r.user /\ dlls["parser"] = "loaded")
\* Once all is loaded, a handler runs for those that permission.json lets through, and
\* np_before turns nobody else away: it finds the cookies that http_parser_before has
\* parsed.
Checked ==
  \A w \in Workers : Over(job[w]) =>
    /\ job[w].ran => Entitled(job[w].req)
    /\ job[w].refusedBy = "np" => ~Entitled(job[w].req) \/ job[w].req.uri = Index

\* A form that MultipartFormParser::parser accepts ends with its boundary and, when no
\* window ends within one, is read part by part as it was sent.  It refuses forms that do
\* not end, or whose file it cannot write, and stays in a loop only over a form that does
\* not end or whose boundary a window cuts.
FormRead ==
  \A w \in Workers :
    LET j == job[w]
        cut == MarkCut(j.req.form, window)
    IN  /\ j.result = "over" => /\ Complete(j.req.form)
                                /\ cut \/ SentAs(j.parts, j.req.form)
        /\ j.result = "error" => ~Complete(j.req.form) \/ FilePart(j.req.form)
        /\ j.result = "endless" => ~Complete(j.req.form) \/ cut

\* Whoever is served a page from the cache is served the same one, until the server is
\* started again: try_page_cache reads the page before it inserts it, insert keeps the
\* first, and all give what the map has.
PagesAgree ==
  \A w \in Workers :
    job[w].body.from = "cache" => job[w].body.version = cache[job[w].req.uri]
=============================================================================
