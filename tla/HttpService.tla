---------------------------- MODULE HttpService ----------------------------
(***************************************************************************)
(* The HTTP layer (HttpService/src/http_service_impl.cpp) on top of the TCP *)
(* layer: its handlers run on the stack of TCP callbacks, and keep one      *)
(* request and one response object per link in req_map_ and res_map_.  The  *)
(* maps have no lock: an insertion or erasure is one step here.             *)
(*                                                                          *)
(* hpc[t] is where thread t is in the HTTP code.  A call into the TCP layer *)
(* is an action of TcpService conjoined with what the HTTP code does about  *)
(* it; between two such calls the TCP layer's variables do not change.      *)
(***************************************************************************)
EXTENDS TcpService

CONSTANT CloseServers    \* TRUE: the application closes its servers

ASSUME HttpAssumption ==
  /\ CloseServers \in BOOLEAN
  /\ MaxServers <= MaxLinks   \* a server's handle is a possible link handle

VARIABLES
  reqs,      \* the keys of req_map_ (a garbage handle is None)
  ress,      \* the keys of res_map_
  nullReq,   \* receives whose callback was bound to a null request
  given,     \* the handles server_handler was called with: those the application has
  hpc,       \* [Threads -> HttpPoint]
  closing    \* [Apps -> server being closed and calls of close_link left]

httpVars == <<reqs, ress, nullReq, given, hpc, closing>>
hvars == <<vars, httpVars>>

\* Points at which a thread handles the one exchange of its link.
Serving == {"accept", "received", "deal", "serving", "respond", "read", "refused",
            "await", "await_null", "send"}
HttpPoint == Serving \cup {"none", "failed", "closing", "forget", "crash"}
Closing == [s : Servers \cup {None}, left : 0..MaxLinks]
NotClosing == [s |-> None, left |-> 0]

HttpTypeOK ==
  /\ reqs \subseteq Handles \cup {None}
  /\ ress \subseteq Handles \cup {None}
  /\ nullReq \subseteq 1..nops
  /\ given \subseteq Handles \cup {None}
  /\ hpc \in [Threads -> HttpPoint]
  /\ closing \in [Apps -> Closing]

HttpInit ==
  /\ Init
  /\ reqs = {} /\ ress = {} /\ nullReq = {} /\ given = {}
  /\ hpc = [t \in Threads |-> "none"]
  /\ closing = [t \in Apps |-> NotClosing]
-----------------------------------------------------------------------------
In(t, pc) == hpc[t] = pc
Continue(t, pc) == hpc' = [hpc EXCEPT ![t] = pc]
Link(t) == frame[t].h
\* HTTP code that calls nothing of the TCP layer.
Aside(t, pc) == At(t, "client") /\ In(t, pc) /\ UNCHANGED <<vars, nullReq, closing>>

\* The TCP layer calls accept_handler.
CallAccept(t) ==
  /\ Relate(t) /\ Continue(t, "accept")
  /\ UNCHANGED <<reqs, ress, nullReq, given, closing>>

\* It calls recv_request_handler or send_response_handler.  The request is a pointer
\* bound to the callback: parser() of a null one ends the process.
CallIo(t, o) ==
  /\ RunIo(t, o)
  /\ Continue(t, IF ops[o].io = "err" THEN "failed"
                 ELSE IF ops[o].kind = "send" THEN "respond"
                 ELSE IF o \in nullReq THEN "crash" ELSE "received")
  /\ UNCHANGED <<reqs, ress, nullReq, given, closing>>

CallTimeOut(t, o) ==
  /\ RunTimer(t, o) /\ Continue(t, "failed")
  /\ UNCHANGED <<reqs, ress, nullReq, given, closing>>

AcceptReturns(t) ==                            \* seeded fault: close_link is left out
  /\ At(t, "client") /\ In(t, "accept")
  /\ \/ Continue(t, "await") /\ reqs' = reqs \cup {Link(t)} /\ UNCHANGED vars
     \/ OutOfMemory /\ Goto(t, "back") /\ Continue(t, "none")
        /\ UNCHANGED <<serverVars, linkVars, mutex, opVars, reqs>>
  /\ UNCHANGED <<ress, nullReq, given, closing>>
AcceptUnchecked(t) ==                          \* seeded fault: new_req is not checked
  /\ Aside(t, "accept")
  /\ \/ Continue(t, "await") /\ reqs' = reqs \cup {Link(t)}
     \/ OutOfMemory /\ Continue(t, "await_null") /\ UNCHANGED reqs
  /\ UNCHANGED <<ress, given>>
\* accept_handler: new_req, then async_recv; without memory, close_link.
AcceptHandler(t) ==
  /\ Aside(t, "accept")
  /\ \/ Continue(t, "await") /\ reqs' = reqs \cup {Link(t)}
     \/ OutOfMemory /\ Continue(t, "failed") /\ UNCHANGED reqs
  /\ UNCHANGED <<ress, given>>

\* recv_request_handler: the request is incomplete, malformed or complete.
ParseRequest(t) ==
  /\ Aside(t, "received")
  /\ \E pc \in {"await", "failed", "deal"} : Continue(t, pc)
  /\ UNCHANGED <<reqs, ress, given>>

\* deal_a_requset: new_res, then server_handler.
DealRequest(t) ==
  /\ Aside(t, "deal")
  /\ \/ /\ Continue(t, "serving")
        /\ ress' = ress \cup {Link(t)} /\ given' = given \cup {Link(t)}
     \/ OutOfMemory /\ Continue(t, "failed") /\ UNCHANGED <<ress, given>>
  /\ UNCHANGED reqs

\* server_handler returns; also the one send_response calls when it has no buffer.
ServerHandler(t) ==
  /\ \/ Aside(t, "serving") /\ Continue(t, "respond")
     \/ Aside(t, "refused") /\ Continue(t, "failed")
  /\ UNCHANGED <<reqs, ress, given>>

\* send_response: delete_req.
DropRequest(t) ==
  /\ Aside(t, "respond")
  /\ reqs' = reqs \ {Link(t)} /\ Continue(t, "read")
  /\ UNCHANGED <<ress, given>>

\* send_response: the buffer and get_content.  At the end of the response the link is
\* closed or, kept alive, gets a new request; new_req may return a null pointer.
ReadContent(t) ==
  /\ Aside(t, "read")
  /\ \/ \E pc \in {"send", "failed"} : Continue(t, pc) /\ UNCHANGED reqs
     \/ OutOfMemory /\ Continue(t, "refused") /\ UNCHANGED reqs
     \/ Continue(t, "await") /\ reqs' = reqs \cup {Link(t)}
     \/ OutOfMemory /\ Continue(t, "await_null") /\ UNCHANGED reqs
  /\ UNCHANGED <<ress, given>>

\* tcp::async_recv or async_send; for a link that is gone its callback runs at once.
CallTcp(t) ==
  /\ \/ In(t, "send") /\ ClientIo(t, "send")
     \/ hpc[t] \in {"await", "await_null"} /\ ClientIo(t, "recv")
  /\ Continue(t, IF Link(t) \in links THEN hpc[t] ELSE "failed")
  /\ UNCHANGED <<reqs, ress, nullReq, given, closing>>

OperationStarted(t) ==
  /\ Arm(t) /\ Continue(t, "none")
  /\ nullReq' = nullReq \cup {o \in {nops + 1} : In(t, "await_null")}
  /\ UNCHANGED <<reqs, ress, given, closing>>

OperationRefused(t) ==
  /\ ArmFails(t) /\ Continue(t, "failed")
  /\ UNCHANGED <<reqs, ress, nullReq, given, closing>>
-----------------------------------------------------------------------------
(* close_link: tcp::close_link, delete_req, delete_res.                    *)

ForgetFirst(t) ==                              \* seeded fault
  /\ In(t, "failed") /\ ClientClose(t) /\ Continue(t, "closing")
  /\ reqs' = reqs \ {Link(t)}
  /\ UNCHANGED <<ress, nullReq, given, closing>>
CloseLink(t) ==
  /\ In(t, "failed") /\ ClientClose(t) /\ Continue(t, "closing")
  /\ UNCHANGED <<reqs, ress, nullReq, given, closing>>

DeleteReq(t) ==
  /\ At(t, "back") /\ In(t, "closing")
  /\ reqs' = reqs \ {Link(t)} /\ Continue(t, "forget")
  /\ UNCHANGED <<vars, ress, nullReq, given, closing>>

KeepResponse(t) ==                             \* seeded fault
  /\ At(t, "back") /\ In(t, "forget") /\ Continue(t, "none")
  /\ UNCHANGED <<vars, reqs, ress, nullReq, given, closing>>
DeleteRes(t) ==
  /\ At(t, "back") /\ In(t, "forget")
  /\ ress' = ress \ {Link(t)} /\ Continue(t, "none")
  /\ UNCHANGED <<vars, reqs, nullReq, given, closing>>

HandlerReturns(t) ==
  /\ In(t, "none") /\ Return(t)
  /\ UNCHANGED httpVars
-----------------------------------------------------------------------------
(* Calls of the application.                                               *)

NotInClose(t) == closing[t] = NotClosing

HttpCloseLink(t, h) ==
  /\ h \in given /\ NotInClose(t) /\ AppCloseLink(t, h) /\ Continue(t, "closing")
  /\ UNCHANGED <<reqs, ress, nullReq, given, closing>>

\* close_server: for each link of the server it calls close_link with the handle of
\* the server, then tcp::close_server.
CloseServer(t, s) ==
  /\ CloseServers /\ IsIdle(t) /\ NotInClose(t) /\ CanLock(t)
  /\ server[s] = "registered"
  /\ closing' = [closing EXCEPT ![t] =
                   [s |-> s, left |-> Cardinality({h \in Handles : rel[h] = s})]]
  /\ UNCHANGED <<vars, reqs, ress, nullReq, given, hpc>>

OneTooMany(t) ==                               \* seeded fault
  LET c == closing[t] IN
  /\ c.s # None /\ AppCloseLink(t, c.s) /\ Continue(t, "closing")
  /\ closing' = [closing EXCEPT ![t].left = @ - 1]
  /\ UNCHANGED <<reqs, ress, nullReq, given>>
CloseNextLink(t) ==
  LET c == closing[t] IN
  /\ c.left > 0 /\ AppCloseLink(t, c.s) /\ Continue(t, "closing")
  /\ closing' = [closing EXCEPT ![t].left = @ - 1]
  /\ UNCHANGED <<reqs, ress, nullReq, given>>

StopClosedServer(t) ==
  LET c == closing[t] IN
  /\ c.s # None /\ c.left = 0 /\ StopServer(t, c.s)
  /\ closing' = [closing EXCEPT ![t] = NotClosing]
  /\ UNCHANGED <<reqs, ress, nullReq, given, hpc>>
-----------------------------------------------------------------------------
HttpHandler(t) ==
  \/ CallAccept(t) \/ AcceptHandler(t) \/ ParseRequest(t) \/ DealRequest(t)
  \/ ServerHandler(t) \/ DropRequest(t) \/ ReadContent(t) \/ CallTcp(t)
  \/ OperationStarted(t) \/ OperationRefused(t)
  \/ CloseLink(t) \/ DeleteReq(t) \/ DeleteRes(t) \/ HandlerReturns(t)
  \/ \E o \in Ops : t \in Workers /\ (CallIo(t, o) \/ CallTimeOut(t, o))

HttpApp(t) ==
  \/ \E h \in Handles : HttpCloseLink(t, h)
  \/ \E s \in Servers : CloseServer(t, s)
  \/ CloseNextLink(t) \/ StopClosedServer(t)

\* Steps in which no HTTP code runs.
TcpOnly ==
  /\ \/ \E t \in Threads : \/ RegisterServer(t) \/ EraseLink(t) \/ Unrelate(t)
                           \/ SnapshotLinks(t) \/ EraseServerLinks(t)
                           \/ UnrelateServerLinks(t) \/ DropServer(t)
     \/ \E t \in Workers : \/ \E s \in Servers : AcceptOk(t, s) \/ AcceptError(t, s)
                           \/ \E o \in Ops : RunPartial(t, o)
     \/ \E t \in Apps, s \in Servers : NotInClose(t) /\ StartServer(t, s)
     \/ Environment
  /\ UNCHANGED httpVars

HttpFinished ==
  \/ Finished /\ \A t \in Apps : NotInClose(t)
  \/ \E t \in Threads : In(t, "crash")

HttpNext ==
  \/ \E t \in Threads : HttpHandler(t)
  \/ \E t \in Apps : HttpApp(t)
  \/ TcpOnly
  \/ HttpFinished /\ UNCHANGED hvars

HttpSpec == HttpInit /\ [][HttpNext]_hvars
-----------------------------------------------------------------------------
(* Properties.                                                             *)

\* The HTTP layer uses the TCP layer as TcpService assumes of a client: one receive,
\* send or close per successful callback, a close per failed one, and only then does a
\* callback return.  What is proved of TcpService therefore holds under HttpService.
TcpRespected == Spec

\* A link's objects are not locked: they are safe because one callback chain or one
\* pending operation, never two, carries a registered link's exchange, whatever
\* time-outs, closes and refused operations do on other threads.
SerialService ==
  \A h \in links :
    Cardinality({t \in Threads : Link(t) = h /\ hpc[t] \in Serving})
      + Cardinality({o \in Ops : ops[o].h = h
                                 /\ ops[o].io \in {"pending", "ok", "partial", "err"}}) <= 1

\* server_handler looks its request and response up by the link's handle.  While the
\* link is registered both are there, although other threads delete them in between.
RequestAtHand ==
  \A t \in Threads :
    In(t, "serving") /\ Link(t) \in links => Link(t) \in reqs \cap ress

\* The callback of a receive keeps the pointer new_req returned, and req_map_ is what the
\* server handler looks the same link up in.  On a registered link they agree: a receive
\* has its request in the map unless it was bound to a null one, and that happens only to
\* a link that was served and is kept alive, whose last request is deleted by then.  The
\* first bytes of a new link never meet a null request.
BoundRequests ==
  \A o \in Ops :
    /\ ops[o].kind = "recv" /\ ops[o].h \in links
    /\ ops[o].io \in {"pending", "ok", "partial", "err"}
    => IF o \in nullReq THEN ops[o].h \in given \ reqs ELSE ops[o].h \in reqs

\* close_link deletes a link's objects after the link: whatever an exchange puts in the
\* maps for a link another thread has closed meanwhile, somebody will delete.
Carried(h, points) ==
  \/ \E t \in Threads : Link(t) = h /\ ~At(t, "idle") /\ hpc[t] \in points
  \/ \E o \in Ops : ops[o].h = h /\ ops[o].io \in {"pending", "ok", "partial", "err"}
NoHttpLeak ==
  /\ \A h \in reqs : Carried(h, Serving \cup {"failed", "closing", "crash"})
  /\ \A h \in ress : Carried(h, Serving \cup {"failed", "closing", "forget", "crash"})
=============================================================================
