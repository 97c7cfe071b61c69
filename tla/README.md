# NetService in TLA+

A verification project for NetService, a multi-threaded HTTP server written in
C++ on boost::asio, and for the news-publishing application that runs on it as
a plug-in. The modules model the program's control (threads, critical sections,
callbacks, SQL statements, error paths), TLC checks them on small instances, and
TLAPS proves the main invariants for every value of the constants. All paths are relative to
the repository root, which the project calls `src/`.

## 1. The system

| Part | State it keeps | Operations |
|---|---|---|
| TCP layer, `TCPService/` | `servers_`, `links_`, `link_server_`, each map under its own mutex; pending socket operations and timers; 16 worker threads of one `io_context` | `start_server`, `start_client`, `async_recv`, `async_send`, `close_link`, `close_server`, `get_links_handle`, `get_server_handle`, and the completion handlers of accept, read, write and timers |
| HTTP layer, `HttpService/` | `req_map_`, `res_map_` (link handle to request or response; no lock), mime and reason tables; in each `HttpObject` the parser state, the header, the body or its cache file | `accept_handler`, `recv_request_handler`, `deal_a_requset`, `send_response`, `send_response_handler`, `close_link`, `close_server`; `HttpObject::parser`, `get_content`, `set_body*` |
| Web server, `WebService/` | `func_map_`, the before and after filters, `page_cache_map_`, loaded DLLs | `http_handler` (filters, dispatch on the URI, default file handler), `load_handler`, `try_page_cache` |
| Request parser plug-in, `plug/http_parser/` | the URI, cookie and form maps attached to a request | `http_parser_before`, `http_parser_after`, the multipart form parser |
| News application plug-in, `plug/NewPublish/` | SQLite tables of users, sessions, news, comments; permission table | session and permission filters; login, register, logout; create, save, upload, like, comment, remove; user administration |
| Program, `NetService/` | configuration, `handler.json`, `permission.json` | `main`: start the server, then load the handlers |
| Support, `include/` | log, ini, JSON (cJSON), SQLite | not modelled |
| Front end, `NetService/web_root/` | in the page of an entry: its copy of the user's vote and of the counters; in the page that edits one: its status, its text, and whether that is unsaved | load, type, click, leave, the callbacks of `$.post`; the other pages show one answer each |

How they interact. A worker thread runs a completion handler of asio. It calls
up, on one stack, through the callback given to the TCP layer, the HTTP
handlers, the web server's filters and the plug-in's handler; and the handler
calls down again (`response_set_*`, `async_send`, `close_link`). Nothing is
queued between the layers: a callback is a nested call, and some are made with
a mutex held. The layers share link handles only, small integers that every
layer looks up in its own map.

What is hard about it:

- time-outs race completions: `timer->cancel()` does not stop a handler that is
  queued, and the two callbacks run on two threads;
- completion handlers hold a raw `this` to a link another thread may destroy;
- the maps that must agree (`links_`, `link_server_`, `req_map_`, `res_map_`)
  are changed one after the other, under different locks or none;
- the accept callback runs with `lock_link_server_` held;
- `close_server` works on a snapshot of the links while connections are accepted;
- a request arrives in pieces and a response leaves in pieces, cut anywhere;
- allocation failures and short writes have code paths of their own;
- the web server's tables are filled while requests are served, and have no lock;
- the handlers read and write the database one statement at a time, without a
  transaction: what a statement read may be stale when the next one writes;
- the browser keeps copies of what the server has and updates them by itself.

What makes each part correct:

- TCP: the maps agree once no call is in progress; no registered link is left
  without a pending operation or a thread that works on it; every operation is
  answered; a lock is given back on every path; no accept slot is lost but to an accept that
  fails.
- HTTP: a link is served by one handler at a time; a request that is served can
  be looked up; nothing stays in `req_map_` or `res_map_` for a link that is
  gone; the bytes on the wire are the response's head and body, in order, once.
- Parser: the result does not depend on how the bytes were cut; what is reported
  complete is complete.
- Accounts: there is always an administrator; a request acts for the user its
  session belongs to, or for nobody; a closed session stays closed; the sessions
  of an account that goes are closed with it.
- Web server and plug-ins: what a before filter allocates is released once;
  a refused request reaches no handler; all who read a cached page read the same;
  a form is read as it was sent or refused.
- News: the counters of an entry are the numbers of its votes and of its published
  comments; what is published has a title and an author.
- The pages: the page of an entry shows the vote and the counters that the server
  has; the page that edits one knows its status and whether its text is saved, and
  deletes only what never was.

## 2. The modules

| Module | What it is | Composed with |
|---|---|---|
| `TcpService` | the TCP layer: threads, locks, handlers, socket operations, timers | - |
| `HttpService` | the HTTP handlers, the request and response maps | extends `TcpService`; each call of an HTTP handler into the TCP layer is an action of `TcpService` conjoined with the HTTP part |
| `ByteStream` | abstract: what a client may see of one response | - |
| `ResponseStream` | how a response becomes bytes, window by window and write by write | implements `ByteStream` |
| `RequestParser` | the incremental parser, one call per receive | - |
| `Accounts` | users and sessions of the news application: filters and account handlers, one SQL statement a step | - |
| `MultipartForm` | the form parser as a function of the body and the window | - |
| `WebServer` | filters, dispatch, page cache, the maps attached to a request | extends `MultipartForm`: the filter before runs the parser |
| `News` | entries, votes and comments: one SQL statement a step | - |
| `Browser` | what the pages share: connections, and who serves which | extends `News`, whose statements serve the requests |
| `NewPage` | the page of an entry in a browser | extends `Browser`: the votes of the page |
| `EditPage` | the page that edits an entry | extends `Browser`: saves, publications, removals and deletions |
| `Pages` | a browser at one of the two pages | extends `NewPage` and `EditPage` |
| `MC...` | instances for TLC: threads as model values, symmetry, value sets | each extends its module |
| `..._proofs` | theorems and their TLAPS proofs | each extends its module |

Definitions marked "seeded fault" are plausible bugs of the code, one for each
property; putting such a definition in the place of the one that follows it
breaks that property, which shows that the property says something.

### TcpService

`server`, `links`, `rel` are `servers_`, `links_` and `link_server_`. A critical
section that makes no call is one step. `lock_link_server_` is the only mutex
held across a call (`TcpServiceImpl::accept` runs the accept callback under it),
so its holder is the variable `mutex`. `frame[t]` is the call a thread is in:
the point (`pc`), the link and the server, whether the callback it runs reports
an error, and the snapshot of `close_server`. `ops` are the receives and sends:
a socket operation and a timer, each of which completes, is queued, and is taken
by any worker. The client of the layer is every client that answers a callback as
`HttpService` does; that `HttpService` is such a client is a theorem.

| Code | Actions |
|---|---|
| `TcpServer::TcpServer`, `start_server` | `StartServer`, `RegisterServer` |
| handler of `async_accept`, `start_link`, `TcpServiceImpl::accept` | `AcceptOk`, `AcceptError`, `Relate`, `Return` |
| `async_recv`, `async_send` | `ClientIo`, `Arm`, `ArmFails` |
| `close_client` | `ClientClose` or `AppCloseLink`, `EraseLink`, `Unrelate` |
| `read_handler`, `write_handler`, `time_out_handler` | `RunIo`, `RunPartial`, `RunTimer`, after `IoCompletes`, `TimerExpires` |
| `start_client` | `StartClient` |
| `close_server` | `StopServer`, `SnapshotLinks`, `EraseServerLinks`, `UnrelateServerLinks`, `DropServer` |

Two points where C++ leaves the outcome open are constants. `StaleReads`: the
completion handlers capture a raw `this`; when `~TcpLink` ran before them,
`handle_` is read from freed memory and is still intact, is garbage (a handle no
link has), or is the handle of a link allocated in the same place. The rest of a
short write goes through the same pointer (`RunPartial`): it is sent on the link
whose handle and socket stand in that memory by then, so an operation remembers the
link it was begun for as `own` and the one it works on as `h`. That a freed socket is
no socket any more and the process crashes is not modelled. `Relock`: a
callback that closes its link while `lock_link_server_` is held locks a
`std::mutex` its own thread owns. With `{"grant"}` the lock is granted, as the
Visual C++ runtime of the project's build may do; with `{}` the thread hangs, and
an accept callback that finds no memory hangs the server. The runs use
`{"grant"}`, the proofs hold for both.

### HttpService

`reqs` and `ress` are the key sets of `req_map_` and `res_map_`; the maps have no
lock, and an insertion or erasure is one step. `hpc[t]` is where the thread is in
the HTTP code: `accept` is `accept_handler`, `received` is
`recv_request_handler`, `deal` and `serving` are `deal_a_requset` before and in
the server handler, `respond`, `read`, `refused` and `send` are `send_response`,
`failed`, `closing` and `forget` are `close_link`. `closing` is the loop of
`close_server`, which calls `close_link` with the handle of the server as often
as the server has links. A null request bound to a receive (`nullReq`) ends the
process when bytes arrive: after the step to `crash` nothing is promised.
`BoundRequests` says where that can happen: on a link that was served and is kept
alive, never at the first bytes of a new one.

### ResponseStream and ByteStream

A byte is named by its origin: an offset of the head or of the body, and which
contents of the file it was read from. `GetContent` is the arithmetic of
`get_content` and `get_body`, including that a window that reaches from the head
into the body answers with the length of the body's part alone and is cut short
by that. `ReadWindow` is a call of `send_response`, `WriteSome` a completion of
`async_write_some`, `FileChanges` another process that rewrites or removes the
file between two windows. `ByteStream` says what a response should be: positions
1 to `total`, in order, and finished only when all are there; after an abort, when
the promise of the head no longer holds, only in order. The refinement maps
a byte to its position in the message and `total` to the head and the announced
Content-Length.

### RequestParser

A byte is its position on the connection. All the parser learns from the head is
chosen at the start: where the blank line ends, whether the head is well formed,
and the Content-Length, which may be absent, negative or not a number. `Receive`
is one call of `recv_request_handler` with any number of bytes. `left` is compared
as an unsigned number of `PosValues` values, as the code compares it with a
`size_t`. `ReferenceStatus` and `ReferenceBody` say what a single call with all the
bytes would give; `ChunkIndependent` compares.

### Accounts

`users` and `sessions` are the two tables, as functions from their keys. No
transaction spans two statements, so a statement is one step, and `job[w]` is the
request worker `w` serves: the next statement (`pc`), the code its cookie carries,
whom the filter admitted, whom the handler found, and what the handler keeps in
its locals. What a request carries is chosen where the code first uses it, and
`BadRequest` is every early return before the first writing statement. A statement
that writes may fail (`DbErrors`) and a handler then goes on or answers as its
code says: `deal_login` ignores the failing `logout`, `deal_remove_user` ends.

| Code | Actions |
|---|---|
| `filter_session` | `Arrive`, `CheckSession`, `ActiveSession` |
| `filter_permission` | `FilterUser`, `FilterPermission` |
| `deal_login` | `LogoutOwn`, `CheckPassword`, `LoginRights`, `InsertSession` |
| `deal_register` | `NameTaken`, `Creator`, `CreatorRights`, `CreatorPassword`, `CreateUser` |
| `deal_logout` | `Logout`, `LogoutOther` |
| `deal_remove_user`, `deal_delete_user` | `ReadStatus`, `ToggleUser`, `DeleteUser`, `CloseSessions` |
| `deal_reset_password`, `deal_reset_user_permission` | `Whoami`, `ResetRights`, `OldPassword`, `Finish`, `SetPermission` |
| `deal_detele_sessions` | `Snapshot`, `LogoutExpired`, `Purge` |
| the clock; the end and start of the process | `Expire`, `Restart` |

A password is right or wrong, and only an enabled account's can be right. The
time since a session was used is the flag `fresh`. `filter_permission` looks a
session up whatever its status, and so does the model: a closed or expired session
still names its user. `outlived` is a history variable. It names the sessions that
stay open without an account, and by which of three windows: a login that checked
the password before the account went and inserted its session after, a failed
second statement, a restart between the two (or one that deletes the guests'
accounts). `ClosedWithAccount` says that there is no fourth.

### MultipartForm and WebServer

The parser of forms takes its body in windows of `buff_size_` bytes and looks for
three marks. A character of the model is a piece of text that it looks for or
skips: the boundary, an end of line, the two dashes of the end, part headers with
and without a file name, data. `BeginStep`, `ParamStep` and `DataStep` are one turn
of its loops, with the two lengths that the code calls `read_len`; `ParseUntil` is
the state after enough turns when the request is deleted once so much of the body is
read, and `ParseForm` when it stays. Either has ended or repeats itself for ever.
`Encode` is what a browser sends, `Arrives` what is there of it when the connection
breaks, and `SentAs` says that some parts were sent as a body.

| Code | Actions |
|---|---|
| `load_handler`, `set_before_filter`, `set_after_filter`, `get_func` | `LoadNext` |
| `http_handler` | `TakeRequest`, `RunBefore`, `Call` or `CallDefault`, `CallDone`, `RunAfter` |
| `http_parser_before`, `http_parser_after`, `parser`, `unparser` | `ParserBefore`, `WithForm`, `ParserAfter` in these actions |
| `before_filter` of the news plug-in | `NpBefore` |
| `deal_default`, `try_page_cache` | `FromCache`, `ReadPage`, `InsertPage`, `NotCached` |
| the time-out of a receive, `close_link` on another worker | `CloseLink`; `Moments` within a filter |
| `send_response` without a buffer, which calls `http_handler` again | `Again`, else `Answered` |
| an unlocked container that another worker changes | `crashed`, then `Restart` |

`job[w].ext` says of each map that a filter attached whether it is live or deleted,
and `misused` whether a deleted one was touched. `early` marks a request taken
before `load_handler` was through: it passes without the filters that are not there
yet, and the properties about filters are about the others.

The request may go while the filters are at it. The timer of the receive that brought
it may have expired before `cancel` (`timed`); its handler then runs on another worker
and `close_link` deletes the link, the request and the response, in this order.
`job[w].lost` counts the last two. The filters and handlers hold a handle only and look
the objects up each time: `CloseLink` is such a deletion between two steps of the
pipeline, and `Moments` are the deletions between the look-ups of one filter, a step
of the model. `http_parser_before` deletes a map it cannot attach, and leaves the
response a pointer to the deleted `set_cookie_map` if the request went between the two.
A handler is not found for a request that is gone (its URI is empty), and `np_before`
lets it pass. `http_parser_after` finds none of what was attached: the maps, the
form and the cache files stay for good. `MapsReleased` says that nothing else leaves
them behind, and that the `set_cookie_map`, which hangs on the response, stays only
when this is deleted too. The form parser reads nothing of a request that is gone: it
ends in an error, with the cache file of the part it was in left open on the disk
(`LostStep`, `Unfinished`), and also leaves a loop that would have had no end.

A worker whose form never ends stays in `stuck`, where `Loop` is its endless turn
until the request is gone. `NotCached` answers
with `"garbage"` where `web_server.cpp:249` returns a reference to a temporary
string. Which plug-ins can be loaded is open; the order is that of `handler.json`.

### News

`news` and `votes` are the two tables and `created` the number of codes issued. As
in `Accounts` a statement is a step, `job[w]` holds the next one and what the
handler keeps in its locals, and writing statements may fail. A comment is an entry
with a parent.

| Code | Actions |
|---|---|
| `create`, `save_info`, `save_content` | `CreateNew`, `SaveInfo`, `SaveContent` |
| `reset_status` | `CheckPublish`, `Publish`, or `ResetStatus` for a status below 3 |
| `like` | `Like`, `ReadTally`, `WriteVote` or `VoteFails`, `WriteTally` or `TallyFails` |
| `comment` | `CreateComment`, `CheckComment`, `PostComment`, `ReadParent`, `CountComment` |
| `remove` | `Remove`, `ReadComments`, `DropComment`, `Hide` |
| `delete_it` | `DeleteComments`, `DeleteLikes`, `DeleteRow` |
| the end of the process, with or without `~NewsMgr`, and its start | `Restart` |

The counters do lose updates: `like` and `comment` compute them from copies. Three
history variables name the entries to which that may have happened, each by an
event a reader can recognise. `torn`: two votes overlapped, one came while the entry
was removed, or one was cut short by a failure, a restart or a deletion.
`uncounted`: two counts from the same copy, a comment or removal cut short, a
removed parent, a comment removed twice or changed through another handler.
`unchecked`: a save between the check of a publication and its write. The properties
say that there is no other way for the counters and the names to be wrong. Each
fault of the code that the mutants stand for would give another one.

### Browser, NewPage, EditPage and Pages

`page` is what the script of `new.html` keeps, `click[k]` the request in flight on a
connection and `serving[w]` the connection whose vote a worker serves. The server's
side are the statements of `News`; `Elsewhere` is everybody else. Answers are
delivered in any order, a connection that fails runs no callback (`$.post` is given
none for errors), the page may be left and opened again, and the server restarts.
`Toggled` is the callback: it computes vote and counters from the page's own copies
and not from the answer. `stored` orders the votes that are stored and not yet
delivered. `estranged` marks what the page cannot know: the answer of a stored vote
was lost or overtaken, or the vote or the counters were changed by somebody else.
`PageAgrees` says that in every other case, whatever failed, the page shows what
the server has. Of these, `serving` and `stored` are in `Browser`.

`editor` is what the script of `edit.html` keeps: the status it believes in, the
text in the fields and `is_edit`, the mark of an unsaved text. `post[k]` is the
request in flight on a connection, with the text it was sent with. A text is known
by when it was typed, its two parts apart because `save_info` and `save_content` are
two statements; `kept` is what the tables have, and `carries[w]` the content a worker
has still to write.

| Code | Actions |
|---|---|
| `get_new.action` and `init` | `AskEditor`, `LoadEditor` |
| the fields' `onblur`, the editor's `afterBlur` | `TypeText` |
| save, publish, remove and back buttons | `ClickSave`, `ClickPublish`, `ClickRemove`, `ClickBack`; `LeaveEditor` |
| the server's handlers | `ServePost`, `RefusePost`, `ServeEdit`: the statements of `News` |
| the callbacks of `$.post`; an error, which has none | `DeliverAnswer` (a publication goes on with its second request); `PostFails` |
| others, and requests nobody waits for; the end of the process | `ElsewhereEdit`; `RestartEdit` |

`strayed` names what the page cannot know. The status and the text stray when an
answer is lost or overtaken, when two requests are at the server at once, when a
save is stored by half, when the second request of a publication fails, or when the
entry changes elsewhere (by a request of the page before a reload, or the restart,
which removes drafts). The text strays also when the user types while a save is in
flight: the answer clears the mark all the same. `EditorAgrees` says that there is no
other way; `DraftsOnly` that the back button deletes no saved entry, unless a save
was in flight when the user left.

## 3. The runs

| Run | Question | Bounds |
|---|---|---|
| `tcp_safety` | do the maps, the mutex and the links stay consistent? which accept slots are lost, which operations work on another link? | 2 workers, 1 application thread, 1 server with 2 accept slots, 2 links, 2 operations; every outcome of freed-memory reads, allocations and accepts |
| `tcp_live` | is every receive and send answered? | 1 link, 2 operations, so that a short write starts the second |
| `tcp_stale_handle` (violated) | does a callback close only its own link? | 2 links, freed memory may be reused |
| `http_keep_alive` | are the objects there when they are looked up, on a link that is used again, and gone with it? which receives get a null request? is every step a TCP step? | 1 link, 4 operations (two exchanges), allocations fail, garbage handles |
| `http_close` | one exchange per link at a time, and nothing left in the maps, while a server is closed | 1 server, 2 links, 2 operations, allocations fail |
| `stream` | is every byte in place, does every response implement `ByteStream`, does it end? | heads of 1 to 5, bodies of 0 to 4 bytes, buffer of 3, every range, two changes of the file |
| `parser` | is the outcome independent of how the request was cut? | 9 bytes, heads of 1, 2 and 4, Content-Length -1 to 4, cache above 2, the cache directory may be missing |
| `accounts` | who acts for whom, and which sessions are open, when two requests interleave? | 2 workers, the administrator and one user, 2 sessions, levels 0 and 3, failing statements, expiry, restarts |
| `news_votes` | are votes counted, and is what is published named? | 2 workers, 2 users, 1 entry, failing statements, restarts |
| `news_comments` | are comments counted? | 2 workers, 1 user, 3 entries or comments, failing statements, restarts |
| `pages` | do the two pages agree with the server, and is what was saved safe from the back button? | 1 user, 2 connections, 2 workers, 1 entry, 1 further text after one without a title, failing connections and statements, restarts |
| `web` | are the filters' maps released, the permissions respected, forms read, pages shared? | 2 workers, 5 entries of `handler.json`, 7 requests, two of them with a time-out in the queue, a window of 9, 1 change of the page |

Why the bounds are enough. The hazards of the TCP and HTTP layers are races
between two threads about one link, or about one link and the server it belongs
to: two workers and an application thread, two links (the second is the bystander,
or the one allocated in freed memory) and the operations of one exchange (receive,
send, receive again) contain them, and the theorems below lift most of it to any
number. The lengths of the stream and the parser are such that windows fall
short of, on and beyond every boundary, bodies span several windows, and the
blank line and the body are cut everywhere; two theorems lift these as well. In `accounts` the hazards are between two requests
about one account: one worker holds what it read of the account or its session
while the other changes it, and a second session shows whose is closed. The
theorems hold for any number. The same goes for the runs of `News`: two workers
about one entry, of one user or of two; an entry and two comments show a comment of
a comment and two comments of one parent. `Further` is FALSE in them: once an entry
is torn or uncounted, the property says nothing more of it, and no further vote
is cast on it. Two connections are the least on which answers overtake each other;
with one worker a click may find the other one's vote half written. One text after
the first tells saved from unsaved, the texts of two saves, and a nameless entry from
a named one.
In `web` the window of 9 holds a broken form as a whole, takes two forms in two
windows and cuts a third between an end of line and the mark behind it. One of the two
is whole and one is broken off in a file, where the parser stays in a loop; these two
have the time-out: they may go before the first window, between the two, behind the
second and in the loop. One such request at once (`MaxTimed`) is enough: requests
share only the filters, the table of handlers and the cache, and no request reads what
another carries. `MaxVersion = 1` gives the two readers of a page two versions.

Fairness. `tcp_live` assumes that a thread inside a call goes on, that timers
expire, that a destroyed socket reports its operations as aborted, and that a
worker takes each queued handler: `io_context::run` does the last for 16 workers, and
the others are asio's and the kernel's contract. A socket need not ever become
ready: the timer has to answer then. The operations of a handler that waits for a
time-out callback that never returns are outside (`Relock = {}`).
`stream` assumes that a worker takes the callback and that a write ends
by its success, its failure or its time-out, which is what `tcp_live` shows.

Deadlock is checked but in the runs of `News` and `Pages`, where the system may
stop: the last code is issued and nobody may act on a torn entry.

What the violated run shows is listed in `PROJECT.json` under `findings`: a
completion handler that runs after its link was destroyed may close the link of
another connection. Two more departures are part of the models, as the code has
them, and of the properties' wording: the end of a range is announced but not
respected (`Broken` in `ResponseStream`), and a request whose cache file cannot be
made is served as complete with an empty body (`GivenUp` in `RequestParser`).

## 4. The proofs

| Theorem | Statement | Argument |
|---|---|---|
| `TypeCorrect` | `TypeOK` | inductive, one lemma per action |
| `StaleRelationsCleaned`, `QuietRegistry` | `NoStaleRelation`; no stale relation while no call is in progress | strengthened by what a thread at `relate` and at `unrelate` knows of its link (`RelateOK`) |
| `MutexDisciplined` | `MutexDiscipline` | inductive with the types |
| `NoLinkForgotten` | `NoOrphanLink` | with `OpsFresh`: operations beyond `nops` are unused, so a new one forgets nothing |
| `SlotsLost`, `SlotsBounded` | `SlotsLostToErrorsOnly`; at most `AcceptNum` slots whatever accepts end in | `SlotsOK`: a thread between an accept and the next `accept()` is an acceptor of a server (`LifeOK`), so arming moves one of `Acceptors(s)` back to `armed[s]`, which cardinalities follow |
| `OnlyOrphansStrayed` | `OnlyOrphansStray` | handles are not used again, so the link of an operation that is closed stays closed; while it is there, what its handlers read is its own handle (`HandlesSeen`), also when they start the rest of a short write |
| `HttpRefinesTcp`, `TcpSafeUnderHttp` | `HttpSpec => Spec` and, by it, the TCP invariants | every action of `HttpService` is a TCP step or leaves the TCP variables alone |
| `HttpTyped` | `HttpTypeOK` | with the TCP types, by the refinement, and `ClosingOK`: only a server that is being closed has links left to close; operations are only added, so a null request keeps its receive |
| `OneExchangePerLink` | `SerialService`, without reused handles | `SerialOK`: a link has one thread or one unanswered operation at work on it (`PointsOK`, `CountOK`), and a callback counts against the operation it answers |
| `RequestsAtHand` | `RequestAtHand`, without reused handles and with one server to close | `RequestOK`: the objects an exchange put in the maps are its own until it deletes them; `ErasedOK`: who deletes them has erased the link before |
| `RequestsBound` | `BoundRequests`, under the same conditions | `BoundOK`: from the server handler to the next receive the application has the link, between `delete_req` and `new_req` the map has no request of it (by `SerialOK` nobody else puts one there), and a thread hands both facts to the operation it starts; with `RequestOK` |
| `NothingLeaks` | `NoHttpLeak`, with `HandleIntact` | `LeakOK`: objects of a link that is gone are `Cared` for: a thread on its way to `delete_req` holds the handle or an unanswered operation brings one there |
| `StreamTyped`, `ResponseInOrder` | `StreamTypeOK`; `InOrder` | `Buffered`: the wire is in place up to its length, the buffer continues it, and `pos` is where the next window starts, also after a window that was cut short |
| `ResponseStreamed` | `Spec => Stream!Spec`; the stream counts as aborted from where the file has changed or the range ends before it | `Promise`: Content-Length is what the body has, so an empty window means that all of it is on the wire |
| `ParserTyped`, `CutAnywhere` | `ParserTypeOK`; `ChunkIndependent` | `Collected`: before the blank line the cache is all that arrived; after it, the body is what followed it and `left` what is missing; the unsigned comparison never mistakes a negative length for a complete one |
| `AccountsTyped` | `AccountsTypeOK` | inductive with what each point of a handler knows (`GoodJob`) |
| `AdminStays` | `AdminKept` | only a name other than the administrator's reaches a statement that changes a row |
| `ForGood` | `ClosedForGood` | `OnlyAge`: a step changes a session towards closed, and a new code was never used |
| `OneUser` | `ActsAsSelf` | `Admitted`: once the filter has looked, the cookie's session names the admitted user or is gone, because codes are not used again |
| `SessionsGoToo` | `ClosedWithAccount` | who disables an account goes on to its sessions (`DisabledBy`), and ends with them closed, deleted or outliving it (`CleanedBy`) |
| `NewsTyped` | `NewsTypeOK` | inductive with what each point of a handler knows (`GoodJob`), in four parts so that a statement disturbs few of them |
| `PublishedIsNamed` | `PublishedNamed` | `Vouched`: a worker about to publish has found the entry named, and a save since then is in `unchecked`; codes are issued once, so it is the same entry |
| `VotesAreCounted` | `VotesCounted` | `CountedFor`: an entry that is not torn has one voter at a time, whose copies are what the tables hold; between its two writes its counters are those of the votes (`OneVote`: one user's vote moves a cardinality by what `Counted` computes); a code that is not issued has no votes (`FreshInv`) |
| `CommentsAreCounted` | `CommentsCounted` | `AccountInv`: the counter is the number of published comments but for those a worker still has in hand (published and not yet added, or counted off and not yet hidden), one worker at a time between reading the counter and writing it; `FamilyInv`: the parent a worker holds is the one of its comment, which has no other worker |
| `PageTypeCorrect`, `EditTypeCorrect` | `PageTypeOK`; `EditTypeOK` | with the types of `News`: every step of a page is a step of the server or none; nothing is in flight but from an open page (`PageOK`, `EditOK`) |
| `PageFollows` | `PageAgrees` | `ChainInv`: the votes stored and not delivered are a chain, each the toggle of the one before, that leads from what the page shows to what the table has; deliveries take it off from its start, and out of order the vote is `estranged`; `CountersInv`: the page's counters are the votes of the others and its own, over what `VotesAreCounted` rests on |
| `EditorFollows` | `EditorAgrees` | `StatusInv`: as long as nothing strays, a worker that serves the page is the only one at the entry (`Alone`), and unless a deletion or a removal is under way the entry exists and its status is what the last stored answer will tell, or what the page has if none is to come (`Decided`); `TextInv`: a text that is taken for saved, or will be by an answer under way, is in the tables, or a save of an older text is behind it (`Spoils`); `Fresh`: what is typed is later than all that is sent |
| `OnlyDraftsAreDeleted` | `DraftsOnly` | `DraftInv`: a deletion that is sent is the only request, for an entry that was never saved, by `EditorFollows` at the moment the user leaves |
| `PagesFollow` | the four invariants of the pages, for `PagesSpec` | the page the browser is not at has no request in flight |
| `WebTyped` | `WebTypeOK` | inductive for the jobs of one form at a time (`Jobs(parts)`), with what a point knows: a filter to run is there, a page to insert is a page (`Guarded`) |
| `CachedPagesAgree` | `PagesAgree` | `Cached`: what the cache has of a page stays until the restart, because an insert keeps the first, so it is what every answer from the cache was made of |
| `FiltersDoNotMisuse`, `FiltersRelease`, `FiltersCheck` | `NoMisuse`, `MapsReleased`, `Checked`, under the assumption `Shipped` | `LoadInv`: each library is tried once, at its first entry in `handler.json`, so a filter before is there if and only if the filter after is; `Flows`: at every point of the pipeline, maps are attached only if the filter that deletes them is still to run, a request that comes a second time is stopped by the first filter, and what that filter misses is what `close_link` had deleted by the time of the look-up (`MomentsAre`: deletions are not undone, so what is found by the last look-up is found by all before it) |
| `FormsAreRead` | `FormRead`, if the forms of the requests come from browsers | see below |
| `OnlyWholeFormsAreTaken` | a body without the mark of an end is accepted from nobody, in no window | the loop over data is left with a form only where the mark is found (`Stepped`) |
| `PartsAreAsSent` | an accepted form of a browser, no mark cut, has exactly the parts that were sent, in order, with their data | `FormsAreRead`, and no two forms have one text (`SentOnce`) |

The forms. What `ParseForm` computes is proved for every body, window and form. It
and `Encode` are recursive functions in a `LET`; in place of an induction over the
turns stands the least turn after which a statement fails (`LeastNat`, from the
well-foundedness of the numbers), and each turn is shown to keep it (`Turned`). What is kept:
`Reading`, the cache is the end of what was read, which is a number of windows or
all of the body; `Unrefused`, while no part has a file the parser has always
found a mark where it looks for one, or has body left to read; `AsSent`, the parts so far are the
text of the body up to the boundary before the current place (`Told`), the data so far is the body
behind the headers, and neither holds a boundary. The last one needs
that no window cuts a mark, the condition `MarkCut` of the property: the end of
line before a mark is counted off from the cache, where it is no more once a window
has ended there. Each turn moves the place or reads a window (`Moves`), so the turns
that `ParseForm` counts are enough. `Shaped` is what all this asks of a body,
and `BrowserShaped` that what a browser sends, or the beginning of it, is such a body.
`FormsKept` ties the result that a job carries through the filters to the parser's. That
the forms of the requests come from browsers is a hypothesis on a constant; TLC
evaluates it for the instance it checks (`FormsAreSent`). Other bodies are
covered by `OnlyWholeFormsAreTaken` and `PartsAreAsSent`, which have no hypothesis.

They hold for every number of threads, servers, links, operations, users, sessions,
entries, workers, pages and every length, under the assumptions stated with the
constants. `Shipped` says that the handlers are those of `handler.json`; TLC evaluates
it for the instance it checks (`ShippedHandlersAreShipped`). `StreamAssumption` and
`ParserAssumption` keep the lengths small against the size of `size_t`;
`Heads`, `Bodies` and `Lengths` may be infinite otherwise.

Some theorems hold under a condition in their statement, because the code does not
keep the promise without it:

- `OneExchangePerLink`, `RequestsAtHand` and `RequestsBound` have
  `"reused" \notin StaleReads`. What happens otherwise is the finding of
  `tcp_stale_handle`: a completion reports, and the client closes, the link of
  another connection.
- `RequestsAtHand` and `RequestsBound` have `OneServer`. `close_server` takes any handle: that of a second
  server may be one of a link not yet accepted, whose objects it then deletes. A
  program of this repository has one server and closes it once.
- `NothingLeaks` has `HandleIntact`: either the application does not close servers, or a
  completion still reads its own handle. With both, entries are left in the maps (see
  the hazards). Both disjuncts are checked, by `http_keep_alive` and `http_close`.

`OnlyDraftsAreDeleted` is about `EditSpec`: while the user is at the page of an entry,
other requests delete entries whatever their status.

Only model-checked: `OperationsAnswered` and `ResponseEnds`, which are liveness
properties and out of the prover's reach.

## 5. What is not modelled

- Data races inside the `std::map` operations of the layers without locks: their
  outcome is undefined; the models show what the program promises without them.
- `TcpServiceImpl::stop`, run at process exit; exceptions that leave `run()`.
- Closing servers together with garbage handles: entries of `res_map_` are then
  left behind (see the hazards).
- The text of heads, logging, configuration, JSON and the log and ini libraries:
  formatting and pure input and output.
- Vendored code: cJSON, the SQLite header, jQuery and the editor KindEditor. The
  last two are nearly all of the repository's JavaScript, but no part of its own
  logic; of jQuery, `NewPage` and `EditPage` have the delivery of
  an answer, of KindEditor `TypeText` has the event of leaving the field.
- The other pages (lists, users, settings, login): they show one answer each. Of
  the page that edits, the uploads and another user who edits the same entry; of the
  page of an entry, the list of its comments.
- The passwords, the addresses and the listings of the account handlers, the
  listings, texts and uploaded pictures of the news handlers, and two threads
  inside one prepared statement (see the hazards).
- `~WebServer`, which never runs before the end of the process; the tables of mime
  types and reasons; errors of reading the body of a form whose request is there; the
  single headers of a part.
- The steps within one handler of the news plug-in when `close_link` deletes its
  request in between: `Call` finds the request or does not. A handler without a
  request reads empty parameters and answers nobody.

## 6. Plan

1. The entries of `res_map` that `close_server` leaves behind: which of them, exactly.
2. Two pages about one entry, of one user and of two, over the same server.
