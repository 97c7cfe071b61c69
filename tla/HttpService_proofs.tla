------------------------- MODULE HttpService_proofs -------------------------
(***************************************************************************)
(* The HTTP layer is a client of the TCP layer as TcpService models one,   *)
(* so what TcpService_proofs shows of the TCP layer holds under it, for    *)
(* every number of threads, servers, links and operations.                 *)
(***************************************************************************)
EXTENDS HttpService, TcpService_proofs, FiniteSetTheorems

\* A set of links is finite and no larger than the number of links.
LEMMA LinkCount ==
  ASSUME NEW S \in SUBSET Handles
  PROVE  Cardinality(S) \in 0..MaxLinks
<1>1. MaxLinks \in Nat
  BY Constants
<1>2. IsFiniteSet(Handles) /\ Cardinality(Handles) = MaxLinks
  BY <1>1, FS_Interval DEF Handles
<1>3. IsFiniteSet(S) /\ Cardinality(S) <= Cardinality(Handles)
  BY <1>2, FS_Subset
<1>4. Cardinality(S) \in Nat
  BY <1>3, FS_CardinalityType
<1> QED
  BY <1>1, <1>2, <1>3, <1>4

\* Only a server being closed has links left to close.
ClosingOK ==
  /\ closing \in [Apps -> Closing]
  /\ \A t \in Apps : closing[t].left > 0 => closing[t].s \in Servers

LEMMA NotClosingType == NotClosing \in Closing /\ NotClosing.left = 0
BY Constants DEF NotClosing, Closing

LEMMA ClosingInit == HttpInit => ClosingOK
BY NotClosingType DEF HttpInit, ClosingOK

LEMMA ClosingNext == ClosingOK /\ [HttpNext]_hvars => ClosingOK'
<1> SUFFICES ASSUME ClosingOK, [HttpNext]_hvars PROVE ClosingOK'
  OBVIOUS
<1>1. CASE UNCHANGED closing
  BY <1>1 DEF ClosingOK
<1>2. ASSUME NEW t \in Apps, NEW s \in Servers, CloseServer(t, s) PROVE ClosingOK'
  <2> DEFINE c == [s |-> s, left |-> Cardinality({h \in Handles : rel[h] = s})]
  <2>1. {h \in Handles : rel[h] = s} \in SUBSET Handles
    OBVIOUS
  <2>2. c \in Closing
    BY <2>1, LinkCount DEF Closing
  <2>3. closing' = [closing EXCEPT ![t] = c]
    BY <1>2 DEF CloseServer
  <2> QED
    BY <2>2, <2>3 DEF ClosingOK
<1>3. ASSUME NEW t \in Apps, CloseNextLink(t) PROVE ClosingOK'
  <2> DEFINE c == [closing[t] EXCEPT !.left = @ - 1]
  <2>1. closing[t] \in Closing /\ closing[t].left > 0 /\ closing' = [closing EXCEPT ![t] = c]
    BY <1>3 DEF CloseNextLink, ClosingOK
  <2>2. c \in Closing /\ c.s = closing[t].s /\ c.s \in Servers
    BY <2>1, Constants DEF Closing, ClosingOK
  <2> QED
    BY <2>1, <2>2 DEF ClosingOK
<1>4. ASSUME NEW t \in Apps, StopClosedServer(t) PROVE ClosingOK'
  <2>1. closing' = [closing EXCEPT ![t] = NotClosing]
    BY <1>4 DEF StopClosedServer
  <2> QED
    BY <2>1, NotClosingType DEF ClosingOK
<1>5. ASSUME NEW t \in Threads, HttpHandler(t) PROVE UNCHANGED closing
  BY <1>5 DEF HttpHandler, CallAccept, CallIo, CallTimeOut, AcceptHandler, ParseRequest,
       DealRequest, ServerHandler, DropRequest, ReadContent, CallTcp, OperationStarted,
       OperationRefused, CloseLink, DeleteReq, DeleteRes, HandlerReturns, Aside, httpVars
<1>6. ASSUME NEW t \in Apps, NEW h \in Handles, HttpCloseLink(t, h) PROVE UNCHANGED closing
  BY <1>6 DEF HttpCloseLink
<1>7. TcpOnly \/ UNCHANGED hvars => UNCHANGED closing
  BY DEF TcpOnly, httpVars, hvars
<1> QED
  BY <1>1, <1>2, <1>3, <1>4, <1>5, <1>6, <1>7 DEF HttpNext, HttpApp
-----------------------------------------------------------------------------
(* Each step is a step of the TCP layer or leaves it alone.                *)

LEMMA HandlerStep ==
  ASSUME NEW t \in Threads, HttpHandler(t)
  PROVE  [Next]_vars
<1>1. CASE \E o \in Ops : t \in Workers /\ (CallIo(t, o) \/ CallTimeOut(t, o))
  BY <1>1 DEF CallIo, CallTimeOut, Next, Dispatch
<1>2. CASE AcceptHandler(t) \/ ParseRequest(t) \/ DealRequest(t) \/ ServerHandler(t)
             \/ DropRequest(t) \/ ReadContent(t) \/ DeleteReq(t) \/ DeleteRes(t)
  BY <1>2 DEF AcceptHandler, ParseRequest, DealRequest, ServerHandler, DropRequest,
       ReadContent, DeleteReq, DeleteRes, Aside
<1>3. CASE CallAccept(t) \/ CallTcp(t) \/ OperationStarted(t) \/ OperationRefused(t)
             \/ CloseLink(t) \/ HandlerReturns(t)
  <2>1. CallStep(t)
    BY <1>3 DEF CallAccept, CallTcp, OperationStarted, OperationRefused, CloseLink,
         HandlerReturns, CallStep
  <2> QED
    BY <2>1 DEF Next
<1> QED
  BY <1>1, <1>2, <1>3 DEF HttpHandler

LEMMA AppStep ==
  ASSUME ClosingOK, NEW t \in Apps, HttpApp(t)
  PROVE  [Next]_vars
<1>1. Servers \subseteq Handles
  BY HttpAssumption, Constants DEF Servers, Handles
<1>2. ASSUME NEW h \in Handles, AppCloseLink(t, h) PROVE Next
  BY <1>2 DEF Next, AppCall
<1>3. ASSUME NEW h \in Handles, HttpCloseLink(t, h) PROVE Next
  BY <1>2, <1>3 DEF HttpCloseLink
<1>4. ASSUME NEW s \in Servers, CloseServer(t, s) PROVE UNCHANGED vars
  BY <1>4 DEF CloseServer
<1>5. CASE CloseNextLink(t)
  <2>1. closing[t].s \in Servers /\ AppCloseLink(t, closing[t].s)
    BY <1>5 DEF CloseNextLink, ClosingOK
  <2> QED
    BY <1>1, <1>2, <2>1
<1>6. CASE StopClosedServer(t)
  <2>1. closing[t].s \in Servers /\ StopServer(t, closing[t].s)
    BY <1>6 DEF StopClosedServer, ClosingOK, Closing
  <2> QED
    BY <2>1 DEF Next, AppCall
<1> QED
  BY <1>3, <1>4, <1>5, <1>6 DEF HttpApp

LEMMA TcpOnlyStep == TcpOnly => Next
<1> SUFFICES ASSUME TcpOnly PROVE Next
  OBVIOUS
<1>1. ASSUME NEW t \in Threads,
             \/ RegisterServer(t) \/ EraseLink(t) \/ Unrelate(t)
             \/ SnapshotLinks(t) \/ EraseServerLinks(t)
             \/ UnrelateServerLinks(t) \/ DropServer(t)
      PROVE  Next
  BY <1>1 DEF Next, CallStep
<1>2. ASSUME NEW t \in Workers,
             \/ \E s \in Servers : AcceptOk(t, s) \/ AcceptError(t, s)
             \/ \E o \in Ops : RunPartial(t, o)
      PROVE  Next
  BY <1>2 DEF Next, Dispatch
<1>3. ASSUME NEW t \in Apps, NEW s \in Servers, StartServer(t, s) PROVE Next
  BY <1>3 DEF Next, AppCall
<1>4. Environment => Next
  BY DEF Next
<1> QED
  BY <1>1, <1>2, <1>3, <1>4 DEF TcpOnly

LEMMA HttpStep == ClosingOK /\ [HttpNext]_hvars => [Next]_vars
<1> SUFFICES ASSUME ClosingOK, [HttpNext]_hvars PROVE [Next]_vars
  OBVIOUS
<1>1. UNCHANGED hvars => UNCHANGED vars
  BY DEF hvars
<1> QED
  BY <1>1, HandlerStep, AppStep, TcpOnlyStep DEF HttpNext

\* The HTTP layer uses the TCP layer as TcpService assumes: on every path through its
\* handlers, also without memory, it starts at most one operation in a callback that
\* succeeded and closes the link in one that failed (http_service_impl.cpp).
THEOREM HttpRefinesTcp == HttpSpec => TcpRespected
<1>1. HttpInit => Init
  BY DEF HttpInit
<1> QED
  BY <1>1, HttpStep, ClosingInit, ClosingNext, PTL DEF HttpSpec, TcpRespected, Spec

\* The TCP layer keeps its promises under the HTTP layer.
THEOREM TcpSafeUnderHttp ==
  HttpSpec => [](TypeOK /\ NoStaleRelation /\ NoOrphanLink /\ MutexDiscipline)
BY HttpRefinesTcp, TypeCorrect, StaleRelationsCleaned, NoLinkForgotten, MutexDisciplined,
   PTL DEF TcpRespected
-----------------------------------------------------------------------------
(* Types.                                                                  *)

LEMMA OperationsOnlyAdded == TypeOK /\ [Next]_vars => nops' \in {nops, nops + 1}
<1> SUFFICES ASSUME TypeOK, [Next]_vars PROVE nops' \in {nops, nops + 1}
  OBVIOUS
<1>1. ASSUME NEW t \in Threads, CallStep(t) PROVE nops' \in {nops, nops + 1}
  BY <1>1 DEF CallStep, RegisterServer, Relate, ClientIo, Arm, ArmFails, ClientClose,
     EraseLink, Unrelate, Return, SnapshotLinks, EraseServerLinks, UnrelateServerLinks,
     DropServer, opVars
<1>2. ASSUME NEW t \in Workers, Dispatch(t) PROVE nops' \in {nops, nops + 1}
  BY <1>2 DEF Dispatch, AcceptOk, AcceptError, RunIo, RunPartial, RunTimer, opVars
<1>3. ASSUME NEW t \in Apps, AppCall(t) PROVE nops' = nops
  BY <1>3 DEF AppCall, StartServer, StopServer, StartClient, AppCloseLink, opVars
<1>4. Environment \/ UNCHANGED vars => nops' = nops
  BY DEF Environment, IoCompletes, TimerExpires, vars, opVars
<1> QED
  BY <1>1, <1>2, <1>3, <1>4 DEF Next

\* The variables that the handlers of one thread set.
LEMMA HttpTypeHandler ==
  ASSUME TypeOK, HttpTypeOK, NEW t \in Threads, HttpHandler(t)
  PROVE  /\ reqs' \subseteq Handles \cup {None} /\ ress' \subseteq Handles \cup {None}
         /\ given' \subseteq Handles \cup {None}
         /\ nullReq' \subseteq nullReq \cup {o \in {nops + 1} : nops' = nops + 1}
         /\ hpc' \in [Threads -> HttpPoint]
<1>1. Link(t) \in Handles \cup {None}
  BY DEF TypeOK, Frame, Link
<1>2. ASSUME NEW pc \in HttpPoint, Continue(t, pc) PROVE hpc' \in [Threads -> HttpPoint]
  BY <1>2 DEF Continue, HttpTypeOK
<1>3. hpc[t] \in HttpPoint
  BY DEF HttpTypeOK
<1>4. {"accept", "received", "deal", "serving", "respond", "read", "refused", "await",
        "await_null", "send", "none", "failed", "closing", "forget", "crash"} \subseteq HttpPoint
  BY DEF HttpPoint, Serving
<1>5. hpc' \in [Threads -> HttpPoint]
  <2>1. CASE AcceptHandler(t) \/ ParseRequest(t) \/ DealRequest(t) \/ ServerHandler(t)
               \/ DropRequest(t) \/ ReadContent(t)
    BY <1>2, <1>4, <2>1 DEF AcceptHandler, ParseRequest, DealRequest, ServerHandler,
       DropRequest, ReadContent
  <2>2. CASE CallAccept(t) \/ OperationStarted(t) \/ OperationRefused(t) \/ CloseLink(t)
               \/ DeleteReq(t) \/ DeleteRes(t)
    BY <1>2, <1>4, <2>2 DEF CallAccept, OperationStarted, OperationRefused, CloseLink,
       DeleteReq, DeleteRes
  <2>3. CASE CallTcp(t)
    BY <1>2, <1>3, <1>4, <2>3 DEF CallTcp
  <2>4. ASSUME NEW o \in Ops, CallIo(t, o) \/ CallTimeOut(t, o)
        PROVE  hpc' \in [Threads -> HttpPoint]
    BY <1>2, <1>4, <2>4 DEF CallIo, CallTimeOut
  <2>5. CASE HandlerReturns(t)
    BY <2>5 DEF HandlerReturns, httpVars, HttpTypeOK
  <2> QED
    BY <2>1, <2>2, <2>3, <2>4, <2>5 DEF HttpHandler
<1>6. CASE OperationStarted(t)
  <2>1. UNCHANGED <<reqs, ress, given>> /\ nops' = nops + 1
    BY <1>6 DEF OperationStarted, Arm
  <2>2. nullReq' \subseteq nullReq \cup {nops + 1}
    BY <1>6 DEF OperationStarted
  <2> QED
    BY <1>5, <2>1, <2>2 DEF HttpTypeOK
<1>7. CASE ~OperationStarted(t)
  <2>1. UNCHANGED nullReq
    BY <1>7 DEF HttpHandler, CallAccept, CallIo, CallTimeOut, AcceptHandler, ParseRequest,
       DealRequest, ServerHandler, DropRequest, ReadContent, CallTcp, OperationRefused,
       CloseLink, DeleteReq, DeleteRes, HandlerReturns, Aside, httpVars
  <2>2. /\ reqs' \subseteq reqs \cup {Link(t)} /\ ress' \subseteq ress \cup {Link(t)}
        /\ given' \subseteq given \cup {Link(t)}
    BY <1>7 DEF HttpHandler, CallAccept, CallIo, CallTimeOut, AcceptHandler, ParseRequest,
       DealRequest, ServerHandler, DropRequest, ReadContent, CallTcp, OperationRefused,
       CloseLink, DeleteReq, DeleteRes, HandlerReturns, httpVars
  <2> QED
    BY <1>1, <1>5, <2>1, <2>2 DEF HttpTypeOK
<1> QED
  BY <1>6, <1>7

LEMMA HttpTypeApp ==
  ASSUME HttpTypeOK, NEW t \in Apps, HttpApp(t)
  PROVE  UNCHANGED <<reqs, ress, nullReq, given>> /\ hpc' \in [Threads -> HttpPoint]
<1>1. t \in Threads /\ "closing" \in HttpPoint
  BY DEF Threads, HttpPoint
<1>2. ASSUME Continue(t, "closing") \/ UNCHANGED hpc PROVE hpc' \in [Threads -> HttpPoint]
  BY <1>1, <1>2 DEF Continue, HttpTypeOK
<1> QED
  BY <1>2 DEF HttpApp, HttpCloseLink, CloseServer, CloseNextLink, StopClosedServer

\* The maps hold handles of links, or the garbage one; a null request belongs to a
\* receive that was started; close_server counts down to 0 (http_service_impl.cpp).
THEOREM HttpTyped == HttpSpec => []HttpTypeOK
<1>1. HttpInit => HttpTypeOK
  BY NotClosingType DEF HttpInit, Init, HttpTypeOK, HttpPoint
<1>2. TypeOK /\ TypeOK' /\ HttpTypeOK /\ ClosingOK' /\ [Next]_vars /\ [HttpNext]_hvars
        => HttpTypeOK'
  <2> SUFFICES ASSUME TypeOK, TypeOK', HttpTypeOK, ClosingOK', [Next]_vars, [HttpNext]_hvars
               PROVE  HttpTypeOK'
    OBVIOUS
  <2>1. nops \in Nat /\ nops' \in {nops, nops + 1}
    BY OperationsOnlyAdded, Constants DEF TypeOK
  <2>2. closing' \in [Apps -> Closing]
    BY DEF ClosingOK
  <2>3. 1..nops \subseteq 1..nops'
    BY <2>1
  <2>4. ASSUME NEW t \in Threads, HttpHandler(t) PROVE HttpTypeOK'
    <3>1. {o \in {nops + 1} : nops' = nops + 1} \subseteq 1..nops'
      BY <2>1
    <3>2. nullReq' \subseteq 1..nops'
      BY <2>3, <2>4, <3>1, HttpTypeHandler DEF HttpTypeOK
    <3> QED
      BY <2>2, <2>4, <3>2, HttpTypeHandler DEF HttpTypeOK
  <2>5. ASSUME NEW t \in Apps, HttpApp(t) PROVE HttpTypeOK'
    BY <2>2, <2>3, <2>5, HttpTypeApp DEF HttpTypeOK
  <2>6. CASE TcpOnly \/ UNCHANGED hvars
    BY <2>2, <2>3, <2>6 DEF TcpOnly, hvars, httpVars, HttpTypeOK
  <2> QED
    BY <2>4, <2>5, <2>6 DEF HttpNext
<1> QED
  BY <1>1, <1>2, ClosingInit, ClosingNext, HttpRefinesTcp, TypeCorrect, PTL
     DEF HttpSpec, TcpRespected, Spec
-----------------------------------------------------------------------------
(* Where the threads are.                                                  *)

Bystanders(t) ==
  \A u \in Threads : u # t => frame'[u] = frame[u] /\ hpc'[u] = hpc[u]

\* The point in the TCP layer and the one in the HTTP code fit together.
Fits(f, point) ==
  \/ f.pc = "client" /\ point \in Serving \cup {"failed", "crash"}
  \/ f.pc = "arm" /\ point = "send" /\ f.kind = "send"
  \/ f.pc = "arm" /\ point \in {"await", "await_null"} /\ f.kind = "recv"
  \/ f.pc \in {"erase", "unrelate", "back"} /\ point = "closing"
  \/ f.pc = "back" /\ point \in {"forget", "none"}
  \/ f.pc \in {"idle", "register", "relate", "snapshot", "srv_erase", "srv_unrelate",
               "srv_drop"} /\ point = "none"
PointsOK == \A t \in Threads : Fits(frame[t], hpc[t])

\* Only close_server stops a server.
ServersStay ==
  ~CloseServers => /\ \A t \in Apps : closing[t].s = None /\ closing[t].left = 0
                   /\ \A t \in Threads :
                        frame[t].pc \notin {"snapshot", "srv_erase", "srv_unrelate", "srv_drop"}

\* What the steps do to the threads.
LEMMA ContinueOnly ==
  ASSUME HttpTypeOK, NEW t \in Threads, NEW pc, Continue(t, pc)
  PROVE  hpc'[t] = pc /\ \A u \in Threads : u # t => hpc'[u] = hpc[u]
BY DEF Continue, HttpTypeOK

LEMMA GotoEffect ==
  ASSUME TypeOK, NEW t \in Threads, NEW pc, Goto(t, pc)
  PROVE  /\ frame'[t].pc = pc /\ frame'[t].h = frame[t].h /\ frame'[t].kind = frame[t].kind
         /\ \A u \in Threads : u # t => frame'[u] = frame[u]
BY DEF Goto, TypeOK, Frame

LEMMA IdleFits ==
  ASSUME PointsOK, NEW t \in Threads, IsIdle(t)
  PROVE  frame[t].pc = "idle" /\ frame[t].h = None /\ hpc[t] = "none"
BY NewFrame DEF PointsOK, Fits, IsIdle

LEMMA CallAcceptEffect ==
  ASSUME TypeOK, HttpTypeOK, NEW t \in Threads, CallAccept(t)
  PROVE  /\ Bystanders(t) /\ frame'[t].h = frame[t].h
         /\ frame[t].pc = "relate" /\ frame'[t].pc = "client" /\ hpc'[t] = "accept"
         /\ UNCHANGED <<links, nlinks, ops, nops, reqs, ress, nullReq, given, closing>>
<1>1. Goto(t, "client") /\ Continue(t, "accept")
  BY DEF CallAccept, Relate
<1> QED
  BY <1>1, GotoEffect, ContinueOnly DEF CallAccept, Relate, At, Bystanders, opVars

Inside(t) ==
  \/ AcceptHandler(t) \/ ParseRequest(t) \/ DealRequest(t) \/ ServerHandler(t)
  \/ DropRequest(t) \/ ReadContent(t)
LEMMA InsideEffect ==
  ASSUME HttpTypeOK, NEW t \in Threads, Inside(t)
  PROVE  /\ Bystanders(t) /\ UNCHANGED <<vars, nullReq, closing>>
         /\ frame[t].pc = "client" /\ hpc[t] \in Serving /\ hpc'[t] \in Serving \cup {"failed"}
<1>1. UNCHANGED <<vars, nullReq, closing>> /\ frame[t].pc = "client" /\ hpc[t] \in Serving
  BY DEF Inside, AcceptHandler, ParseRequest, DealRequest, ServerHandler, DropRequest,
     ReadContent, Aside, At, In, Serving
<1>2. \E pc \in Serving \cup {"failed"} : Continue(t, pc)
  BY DEF Inside, AcceptHandler, ParseRequest, DealRequest, ServerHandler, DropRequest,
     ReadContent, Serving
<1> QED
  BY <1>1, <1>2, ContinueOnly DEF Bystanders, vars

LEMMA CallTcpEffect ==
  ASSUME TypeOK, HttpTypeOK, NEW t \in Threads, CallTcp(t)
  PROVE  /\ Bystanders(t) /\ frame'[t].h = frame[t].h /\ frame[t].pc = "client"
         /\ hpc[t] \in {"send", "await", "await_null"}
         /\ Link(t) \in links => /\ frame'[t].pc = "arm" /\ hpc'[t] = hpc[t]
                                 /\ frame'[t].kind = IF hpc[t] = "send" THEN "send" ELSE "recv"
         /\ Link(t) \notin links => frame'[t].pc = "client" /\ hpc'[t] = "failed"
         /\ UNCHANGED <<links, nlinks, ops, nops, reqs, ress, nullReq, given, closing>>
<1>0. frame[t] \in Frame
  BY DEF TypeOK
<1>1. PICK kind \in {"recv", "send"} : ClientIo(t, kind) /\ (kind = "send" <=> hpc[t] = "send")
  BY DEF CallTcp, In
<1>2. Continue(t, IF Link(t) \in links THEN hpc[t] ELSE "failed")
  BY DEF CallTcp
<1>3. /\ frame[t].pc = "client" /\ hpc[t] \in {"send", "await", "await_null"}
      /\ UNCHANGED <<links, nlinks, ops, nops, reqs, ress, nullReq, given, closing>>
  BY <1>1 DEF CallTcp, In, ClientIo, At, linkVars, opVars
<1>4. CASE Link(t) \in links
  <2>1. Become(t, [frame[t] EXCEPT !.pc = "arm", !.kind = kind])
    BY <1>1, <1>4 DEF ClientIo, Link
  <2>2. /\ [frame[t] EXCEPT !.pc = "arm", !.kind = kind].pc = "arm"
        /\ [frame[t] EXCEPT !.pc = "arm", !.kind = kind].kind = kind
        /\ [frame[t] EXCEPT !.pc = "arm", !.kind = kind].h = frame[t].h
    BY <1>0 DEF Frame
  <2>3. /\ frame'[t].pc = "arm" /\ frame'[t].kind = kind /\ frame'[t].h = frame[t].h
        /\ \A u \in Threads : u # t => frame'[u] = frame[u]
    BY <2>1, <2>2, BecomeOnly
  <2>4. hpc'[t] = hpc[t] /\ \A u \in Threads : u # t => hpc'[u] = hpc[u]
    BY <1>2, <1>4, ContinueOnly
  <2>5. kind = IF hpc[t] = "send" THEN "send" ELSE "recv"
    BY <1>1
  <2> QED
    BY <1>3, <1>4, <2>3, <2>4, <2>5 DEF Bystanders
<1>5. CASE Link(t) \notin links
  <2>1. Become(t, [frame[t] EXCEPT !.err = TRUE])
    BY <1>1, <1>5 DEF ClientIo, Link
  <2>2. /\ frame'[t] = [frame[t] EXCEPT !.err = TRUE]
        /\ \A u \in Threads : u # t => frame'[u] = frame[u]
    BY <2>1, BecomeOnly
  <2>3. frame'[t].pc = frame[t].pc /\ frame'[t].h = frame[t].h
    BY <1>0, <2>2 DEF Frame
  <2>4. hpc'[t] = "failed" /\ \A u \in Threads : u # t => hpc'[u] = hpc[u]
    BY <1>2, <1>5, ContinueOnly
  <2> QED
    BY <1>3, <1>5, <2>2, <2>3, <2>4 DEF Bystanders
<1> QED
  BY <1>4, <1>5

LEMMA StartedEffect ==
  ASSUME TypeOK, HttpTypeOK, NEW t \in Threads, OperationStarted(t)
  PROVE  /\ Bystanders(t) /\ frame'[t].h = frame[t].h
         /\ frame[t].pc = "arm" /\ frame'[t].pc = "back" /\ hpc'[t] = "none"
         /\ nops + 1 \in Ops /\ nops' = nops + 1
         /\ ops'[nops + 1].h = frame[t].h /\ ops'[nops + 1].io = "pending"
         /\ ops'[nops + 1].kind = frame[t].kind
         /\ \A o \in Ops : o # nops + 1 => ops'[o] = ops[o]
         /\ nullReq' = nullReq \cup {o \in {nops + 1} : In(t, "await_null")}
         /\ UNCHANGED <<links, nlinks, reqs, ress, given, closing>>
<1>1. Goto(t, "back") /\ Continue(t, "none") /\ Arm(t)
  BY DEF OperationStarted, Arm
<1>2. nops + 1 \in Ops
  BY <1>1, Constants DEF Arm, TypeOK, Ops
<1>3. ops'[nops + 1] = Started(frame[t].h, frame[t].h, frame[t].kind)
      /\ \A o \in Ops : o # nops + 1 => ops'[o] = ops[o]
  BY <1>1, <1>2 DEF Arm, TypeOK
<1>4. \A h, own, kind : /\ Started(h, own, kind).h = h /\ Started(h, own, kind).kind = kind
                        /\ Started(h, own, kind).io = "pending"
  BY DEF Started
<1> QED
  BY <1>1, <1>2, <1>3, <1>4, GotoEffect, ContinueOnly DEF OperationStarted, Arm, At, Bystanders, linkVars

LEMMA RefusedEffect ==
  ASSUME TypeOK, HttpTypeOK, NEW t \in Threads, OperationRefused(t)
  PROVE  /\ Bystanders(t) /\ frame'[t].h = frame[t].h
         /\ frame[t].pc = "arm" /\ frame'[t].pc = "client" /\ hpc'[t] = "failed"
         /\ UNCHANGED <<links, nlinks, ops, nops, reqs, ress, nullReq, given, closing>>
<1>1. /\ Become(t, [frame[t] EXCEPT !.pc = "client", !.err = TRUE])
      /\ Continue(t, "failed") /\ ArmFails(t)
  BY DEF OperationRefused, ArmFails
<1> QED
  BY <1>1, ArmFailsFrame, BecomeOnly, ContinueOnly
     DEF OperationRefused, ArmFails, Bystanders, linkVars, opVars

LEMMA CloseLinkEffect ==
  ASSUME TypeOK, HttpTypeOK, NEW t \in Threads, CloseLink(t)
  PROVE  /\ Bystanders(t) /\ frame'[t].h = frame[t].h
         /\ frame[t].pc = "client" /\ frame'[t].pc = "erase"
         /\ hpc[t] = "failed" /\ hpc'[t] = "closing"
         /\ UNCHANGED <<links, nlinks, ops, nops, reqs, ress, nullReq, given, closing>>
<1>1. Goto(t, "erase") /\ Continue(t, "closing")
  BY DEF CloseLink, ClientClose
<1> QED
  BY <1>1, GotoEffect, ContinueOnly DEF CloseLink, ClientClose, At, In, Bystanders, linkVars, opVars

LEMMA DeleteEffect ==
  ASSUME HttpTypeOK, NEW t \in Threads, DeleteReq(t) \/ DeleteRes(t)
  PROVE  /\ Bystanders(t) /\ UNCHANGED <<vars, nullReq, given, closing>>
         /\ frame[t].pc = "back"
         /\ \/ /\ hpc[t] = "closing" /\ hpc'[t] = "forget"
               /\ reqs' = reqs \ {Link(t)} /\ ress' = ress
            \/ /\ hpc[t] = "forget" /\ hpc'[t] = "none"
               /\ reqs' = reqs /\ ress' = ress \ {Link(t)}
BY ContinueOnly DEF DeleteReq, DeleteRes, At, In, Bystanders, vars

LEMMA ReturnsEffect ==
  ASSUME TypeOK, HttpTypeOK, NEW t \in Threads, HandlerReturns(t)
  PROVE  /\ Bystanders(t) /\ frame[t].pc = "back" /\ frame'[t] = Idle /\ hpc[t] = "none"
         /\ UNCHANGED <<links, nlinks, ops, nops, httpVars>>
<1>1. Become(t, Idle) /\ frame[t].pc = "back"
  BY DEF HandlerReturns, Return, At
<1> QED
  BY <1>1, BecomeOnly DEF HandlerReturns, Return, In, Bystanders, httpVars, linkVars, opVars

LEMMA CallIoEffect ==
  ASSUME TypeOK, HttpTypeOK, NEW t \in Threads, NEW o \in Ops, CallIo(t, o)
  PROVE  /\ Bystanders(t) /\ IsIdle(t)
         /\ frame'[t].pc = "client" /\ frame'[t].h \in HandlesSeen(o)
         /\ ops[o].io \in {"ok", "err"}
         /\ ops'[o].h = ops[o].h /\ ops'[o].kind = ops[o].kind /\ ops'[o].io = "done"
         /\ \A p \in Ops : p # o => ops'[p] = ops[p]
         /\ ops[o].io = "err" => hpc'[t] = "failed"
         /\ ops[o].io = "ok" /\ ops[o].kind = "send" => hpc'[t] = "respond"
         /\ ops[o].io = "ok" /\ ops[o].kind = "recv" =>
              hpc'[t] = IF o \in nullReq THEN "crash" ELSE "received"
         /\ UNCHANGED <<links, nlinks, nops, reqs, ress, nullReq, given, closing>>
<1>1. RunIo(t, o)
  BY DEF CallIo
<1>2. PICK h \in HandlesSeen(o) : Become(t, Callback(h, ops[o].io = "err", o))
  BY <1>1 DEF RunIo
<1>3. /\ Callback(h, ops[o].io = "err", o).pc = "client"
      /\ Callback(h, ops[o].io = "err", o).h = h
  BY DEF Callback, Idle
<1>4. frame'[t].pc = "client" /\ frame'[t].h = h /\ \A u \in Threads : u # t => frame'[u] = frame[u]
  BY <1>2, <1>3, BecomeOnly
<1>5. ops[o] \in Operation /\ ops \in [Ops -> Operation]
  BY DEF TypeOK
<1>6. /\ ops'[o].h = ops[o].h /\ ops'[o].kind = ops[o].kind /\ ops'[o].io = "done"
      /\ \A p \in Ops : p # o => ops'[p] = ops[p]
  BY <1>1, <1>5 DEF RunIo, Operation
<1>7. Continue(t, IF ops[o].io = "err" THEN "failed"
                  ELSE IF ops[o].kind = "send" THEN "respond"
                  ELSE IF o \in nullReq THEN "crash" ELSE "received")
  BY DEF CallIo
<1> QED
  BY <1>1, <1>4, <1>6, <1>7, ContinueOnly DEF CallIo, RunIo, Bystanders, linkVars

LEMMA CallTimeOutEffect ==
  ASSUME TypeOK, HttpTypeOK, NEW t \in Threads, NEW o \in Ops, CallTimeOut(t, o)
  PROVE  /\ Bystanders(t) /\ IsIdle(t)
         /\ frame'[t].pc = "client" /\ frame'[t].h = ops[o].h /\ hpc'[t] = "failed"
         /\ \A p \in Ops : /\ ops'[p].h = ops[p].h /\ ops'[p].io = ops[p].io
                           /\ ops'[p].kind = ops[p].kind
         /\ UNCHANGED <<links, nlinks, nops, reqs, ress, nullReq, given, closing>>
<1>1. Become(t, Callback(ops[o].h, TRUE, o)) /\ Continue(t, "failed") /\ RunTimer(t, o)
  BY DEF CallTimeOut, RunTimer
<1>2. Callback(ops[o].h, TRUE, o).pc = "client" /\ Callback(ops[o].h, TRUE, o).h = ops[o].h
  BY DEF Callback, Idle
<1>3. \A p \in Ops : /\ ops'[p].h = ops[p].h /\ ops'[p].io = ops[p].io
                     /\ ops'[p].kind = ops[p].kind
  BY <1>1 DEF RunTimer, TypeOK, Operation
<1>4. IsIdle(t) /\ UNCHANGED <<links, nlinks, nops, reqs, ress, nullReq, given, closing>>
  BY DEF CallTimeOut, RunTimer, linkVars
<1>5. Bystanders(t) /\ frame'[t].pc = "client" /\ frame'[t].h = ops[o].h /\ hpc'[t] = "failed"
  BY <1>1, <1>2, BecomeOnly, ContinueOnly DEF Bystanders
<1> QED
  BY <1>3, <1>4, <1>5

LEMMA AppCloseEffect ==
  ASSUME TypeOK, HttpTypeOK, NEW t \in Apps, NEW h, AppCloseLink(t, h), Continue(t, "closing")
  PROVE  /\ Bystanders(t) /\ IsIdle(t)
         /\ frame'[t].pc = "erase" /\ frame'[t].h = h /\ hpc'[t] = "closing"
         /\ UNCHANGED <<links, nlinks, ops, nops>>
<1>1. t \in Threads /\ Become(t, Enter("erase", h, None))
  BY DEF AppCloseLink, Threads
<1> QED
  BY <1>1, NewFrame, BecomeOnly, ContinueOnly DEF AppCloseLink, Bystanders, linkVars, opVars

LEMMA StopEffect ==
  ASSUME TypeOK, HttpTypeOK, NEW t \in Apps, StopClosedServer(t)
  PROVE  /\ Bystanders(t) /\ IsIdle(t) /\ closing[t].s # None
         /\ frame'[t].pc = "snapshot" /\ frame'[t].h = None
         /\ closing' = [closing EXCEPT ![t] = NotClosing]
         /\ UNCHANGED <<links, nlinks, ops, nops, reqs, ress, nullReq, given, hpc>>
<1>1. t \in Threads /\ Become(t, Enter("snapshot", None, closing[t].s))
  BY DEF StopClosedServer, StopServer, Threads
<1> QED
  BY <1>1, NewFrame, BecomeOnly DEF StopClosedServer, StopServer, Bystanders, linkVars, opVars

\* The steps in which no HTTP code runs: a thread that is inside close_client or
\* close_server, one that starts something, and the operations.
LEMMA EraseEffect ==
  ASSUME TypeOK, NEW t \in Threads, EraseLink(t)
  PROVE  /\ frame[t].pc = "erase" /\ frame'[t].pc = "unrelate" /\ frame'[t].h = frame[t].h
         /\ \A u \in Threads : u # t => frame'[u] = frame[u]
         /\ links' = links \ {frame[t].h} /\ UNCHANGED <<nlinks, ops, nops>>
BY GotoEffect DEF EraseLink, At, opVars

LEMMA AcceptOkEffect ==
  ASSUME TypeOK, NEW t \in Threads, NEW s \in Servers, AcceptOk(t, s)
  PROVE  /\ IsIdle(t) /\ frame'[t].pc = "relate" /\ frame'[t].h = nlinks + 1
         /\ \A u \in Threads : u # t => frame'[u] = frame[u]
         /\ links' = links \cup {nlinks + 1} /\ nlinks' = nlinks + 1 /\ UNCHANGED <<ops, nops>>
<1>1. Become(t, Enter("relate", NewHandle, s))
  BY DEF AcceptOk
<1> QED
  BY <1>1, NewFrame, BecomeOnly DEF AcceptOk, NewHandle, opVars

LEMMA PartialEffect ==
  ASSUME TypeOK, OpsFresh, NEW t \in Threads, NEW o \in Ops, RunPartial(t, o)
  PROVE  /\ UNCHANGED <<frame, links, nlinks>>
         /\ nops + 1 \in Ops /\ nops' = nops + 1 /\ ops[o].io = "partial" /\ o # nops + 1
         /\ ops'[o].h = ops[o].h /\ ops'[o].io = "done"
         /\ ops'[nops + 1].h \in HandlesSeen(o) /\ ops'[nops + 1].io = "pending"
         /\ ops'[nops + 1].kind = "send"
         /\ \A p \in Ops : p # o /\ p # nops + 1 => ops'[p] = ops[p]
<1>1. nops + 1 \in Ops
  BY Constants DEF RunPartial, TypeOK, Ops
<1>2. o # nops + 1 /\ ops[o].io = "partial"
  BY DEF RunPartial, OpsFresh, TypeOK, Ops
<1>3. PICK h \in HandlesSeen(o) :
        ops' = [ops EXCEPT ![o].io = "done", ![o].timer = Stopped(ops[o].timer),
                           ![nops + 1] = Started(h, ops[o].own, "send")]
  BY DEF RunPartial
<1>4. ops \in [Ops -> Operation] /\ ops[o] \in Operation
  BY DEF TypeOK
<1>5. /\ ops'[nops + 1].h = h /\ ops'[nops + 1].io = "pending"
      /\ ops'[nops + 1].kind = "send"
  BY <1>1, <1>3, <1>4 DEF Started
<1>6. ops'[o].h = ops[o].h /\ ops'[o].io = "done"
  BY <1>1, <1>2, <1>3, <1>4 DEF Operation
<1>7. \A p \in Ops : p # o /\ p # nops + 1 => ops'[p] = ops[p]
  BY <1>3, <1>4
<1> QED
  BY <1>1, <1>2, <1>5, <1>6, <1>7 DEF RunPartial, linkVars

LEMMA EnvironmentEffect ==
  ASSUME TypeOK, Environment
  PROVE  /\ UNCHANGED <<frame, links, nlinks, nops>>
         /\ \A p \in Ops : /\ ops'[p].h = ops[p].h /\ ops'[p].kind = ops[p].kind
                           /\ ops'[p].io \in Active <=> ops[p].io \in Active
<1>1. ops \in [Ops -> Operation]
  BY DEF TypeOK
<1>2. PICK o \in Ops : IoCompletes(o) \/ TimerExpires(o)
  BY DEF Environment
<1>3. \A p \in Ops : /\ ops'[p].h = ops[p].h /\ ops'[p].kind = ops[p].kind
                     /\ ops'[p].io \in Active <=> ops[p].io \in Active
  <2>1. CASE IoCompletes(o)
    BY <1>1, <2>1 DEF IoCompletes, Operation, Active
  <2>2. CASE TimerExpires(o)
    BY <1>1, <2>2 DEF TimerExpires, Operation, Active
  <2> QED
    BY <1>2, <2>1, <2>2
<1> QED
  BY <1>2, <1>3 DEF IoCompletes, TimerExpires, linkVars

CallOnly(t) ==
  \/ RegisterServer(t) \/ Unrelate(t) \/ SnapshotLinks(t) \/ EraseServerLinks(t)
  \/ UnrelateServerLinks(t) \/ DropServer(t)
LEMMA CallOnlyEffect ==
  ASSUME TypeOK, NEW t \in Threads, CallOnly(t)
  PROVE  /\ \A u \in Threads : u # t => frame'[u] = frame[u]
         /\ UNCHANGED <<nlinks, ops, nops>>
         /\ links' \subseteq links /\ (frame[t].pc # "srv_erase" => links' = links)
         /\ \/ frame[t].pc = "unrelate" /\ frame'[t].pc = "back" /\ frame'[t].h = frame[t].h
            \/ frame[t].pc \in {"register", "srv_drop"} /\ frame'[t] = Idle
            \/ /\ frame[t].pc \in {"snapshot", "srv_erase", "srv_unrelate"}
               /\ frame'[t].pc \in {"srv_erase", "srv_unrelate", "srv_drop"}
               /\ frame'[t].h = frame[t].h
<1>1. CASE RegisterServer(t) \/ DropServer(t)
  BY <1>1, BecomeOnly DEF RegisterServer, DropServer, At, linkVars, opVars
<1>2. CASE SnapshotLinks(t)
  <2>1. /\ frame[t].pc = "snapshot" /\ frame'[t].pc = "srv_erase" /\ frame'[t].h = frame[t].h
        /\ \A u \in Threads : u # t => frame'[u] = frame[u]
    BY <1>2 DEF SnapshotLinks, Become, TypeOK, Frame, At
  <2> QED
    BY <1>2, <2>1 DEF SnapshotLinks, linkVars, opVars
<1>3. CASE Unrelate(t) \/ EraseServerLinks(t) \/ UnrelateServerLinks(t)
  BY <1>3, GotoEffect DEF Unrelate, EraseServerLinks, UnrelateServerLinks, At, opVars
<1> QED
  BY <1>1, <1>2, <1>3 DEF CallOnly

LEMMA StartServerEffect ==
  ASSUME TypeOK, NEW t \in Apps, NEW s \in Servers, StartServer(t, s)
  PROVE  /\ IsIdle(t) /\ UNCHANGED <<links, nlinks, ops, nops>>
         /\ \A u \in Threads : u # t => frame'[u] = frame[u]
         /\ \/ frame'[t] = frame[t]
            \/ frame'[t].pc = "register" /\ frame'[t].h = None
<1>1. t \in Threads
  BY DEF Threads
<1> QED
  BY <1>1, BecomeOnly, NewFrame DEF StartServer, linkVars, opVars

\* The cases of TcpOnly.
LEMMA TcpOnlyCases ==
  ASSUME TcpOnly
  PROVE  /\ UNCHANGED httpVars
         /\ \/ \E t \in Threads : CallOnly(t) \/ EraseLink(t)
            \/ \E t \in Threads, s \in Servers : AcceptOk(t, s) \/ AcceptError(t, s)
            \/ \E t \in Threads, o \in Ops : RunPartial(t, o)
            \/ \E t \in Apps, s \in Servers : StartServer(t, s)
            \/ Environment
BY DEF TcpOnly, CallOnly, Threads

\* The cases of HttpHandler and HttpApp.
Handles1(t) ==
  \/ CallAccept(t) \/ Inside(t) \/ CallTcp(t) \/ OperationStarted(t) \/ OperationRefused(t)
  \/ CloseLink(t) \/ DeleteReq(t) \/ DeleteRes(t) \/ HandlerReturns(t)
  \/ \E o \in Ops : CallIo(t, o) \/ CallTimeOut(t, o)
LEMMA HandlerCases ==
  ASSUME NEW t \in Threads, HttpHandler(t)
  PROVE  Handles1(t)
BY DEF HttpHandler, Handles1, Inside

LEMMA AppCases ==
  ASSUME ClosingOK, NEW t \in Apps, HttpApp(t)
  PROVE  /\ t \in Threads /\ UNCHANGED <<reqs, ress, nullReq, given>>
         /\ \/ UNCHANGED <<vars, hpc>> /\ CloseServers
            \/ StopClosedServer(t)
            \/ \E h \in Handles : /\ AppCloseLink(t, h) /\ Continue(t, "closing")
                                  /\ \/ h \in given
                                     \/ closing[t].left > 0 /\ h = closing[t].s
                                  /\ closing[t].left > 0 \/ closing' = closing
<1>1. t \in Threads /\ Servers \subseteq Handles
  BY HttpAssumption, Constants DEF Threads, Servers, Handles
<1>2. ASSUME NEW s \in Servers, CloseServer(t, s) PROVE UNCHANGED <<vars, hpc>> /\ CloseServers
  BY <1>2 DEF CloseServer
<1>3. CASE CloseNextLink(t)
  <2>1. closing[t].s \in Handles /\ closing[t].left > 0
    BY <1>1, <1>3 DEF CloseNextLink, ClosingOK
  <2>2. /\ AppCloseLink(t, closing[t].s) /\ Continue(t, "closing")
        /\ UNCHANGED <<reqs, ress, nullReq, given>>
    BY <1>3 DEF CloseNextLink
  <2> QED
    BY <1>1, <2>1, <2>2
<1>4. ASSUME NEW h \in Handles, HttpCloseLink(t, h)
      PROVE  AppCloseLink(t, h) /\ Continue(t, "closing") /\ h \in given /\ closing' = closing
  BY <1>4 DEF HttpCloseLink
<1> QED
  BY <1>1, <1>2, <1>3, <1>4 DEF HttpApp, HttpCloseLink, CloseServer, StopClosedServer

LEMMA PointsKept ==
  ASSUME PointsOK, NEW t \in Threads, Bystanders(t), Fits(frame'[t], hpc'[t])
  PROVE  PointsOK'
BY DEF PointsOK, Bystanders

LEMMA PointsHandler ==
  ASSUME TypeOK, HttpTypeOK, PointsOK, NEW t \in Threads, HttpHandler(t)
  PROVE  PointsOK'
<1>0. Fits(frame[t], hpc[t])
  BY DEF PointsOK
<1> SUFFICES Bystanders(t) /\ Fits(frame'[t], hpc'[t])
  BY PointsKept
<1>1. CASE CallAccept(t)
  BY <1>1, CallAcceptEffect DEF Fits, Serving
<1>2. CASE Inside(t)
  <2>1. frame' = frame
    BY <1>2, InsideEffect DEF vars
  <2> QED
    BY <1>2, <2>1, InsideEffect DEF Fits
<1>3. CASE CallTcp(t)
  <2>1. hpc[t] \in Serving
    BY <1>3, CallTcpEffect DEF Serving
  <2> QED
    BY <1>3, <2>1, CallTcpEffect DEF Fits
<1>4. CASE OperationStarted(t)
  BY <1>4, StartedEffect DEF Fits
<1>5. CASE OperationRefused(t) \/ CloseLink(t)
  BY <1>5, RefusedEffect, CloseLinkEffect DEF Fits
<1>6. CASE DeleteReq(t) \/ DeleteRes(t)
  <2>1. frame' = frame
    BY <1>6, DeleteEffect DEF vars
  <2> QED
    BY <1>6, <2>1, DeleteEffect DEF Fits
<1>7. CASE HandlerReturns(t)
  BY <1>7, ReturnsEffect, NewFrame DEF Fits, httpVars
<1>8. ASSUME NEW o \in Ops, CallIo(t, o) \/ CallTimeOut(t, o)
      PROVE  Bystanders(t) /\ Fits(frame'[t], hpc'[t])
  <2>1. CASE CallIo(t, o)
    <3>1. ops[o].kind \in {"recv", "send"}
      BY DEF TypeOK, Operation
    <3>2. hpc'[t] \in {"failed", "respond", "crash", "received"}
      BY <2>1, <3>1, CallIoEffect
    <3> QED
      BY <2>1, <3>2, CallIoEffect DEF Fits, Serving
  <2>2. CASE CallTimeOut(t, o)
    BY <2>2, CallTimeOutEffect DEF Fits
  <2> QED
    BY <1>8, <2>1, <2>2
<1> QED
  BY <1>1, <1>2, <1>3, <1>4, <1>5, <1>6, <1>7, <1>8, HandlerCases DEF Handles1

LEMMA PointsApp ==
  ASSUME TypeOK, HttpTypeOK, ClosingOK, PointsOK, NEW t \in Apps, HttpApp(t)
  PROVE  PointsOK'
<1>1. CASE UNCHANGED <<vars, hpc>>
  BY <1>1 DEF PointsOK, vars
<1>2. CASE StopClosedServer(t)
  BY <1>2, AppCases, StopEffect, IdleFits, PointsKept DEF Fits
<1>3. ASSUME NEW h \in Handles, AppCloseLink(t, h), Continue(t, "closing") PROVE PointsOK'
  BY <1>3, AppCases, AppCloseEffect, PointsKept DEF Fits
<1> QED
  BY <1>1, <1>2, <1>3, AppCases

LEMMA PointsTcpOnly ==
  ASSUME TypeOK, OpsFresh, PointsOK, TcpOnly
  PROVE  PointsOK'
<1>0. UNCHANGED hpc
  BY TcpOnlyCases DEF httpVars
<1>1. ASSUME NEW t \in Threads, CallOnly(t) \/ EraseLink(t) PROVE PointsOK'
  <2>0. Fits(frame[t], hpc[t])
    BY DEF PointsOK
  <2>1. \A u \in Threads : u # t => frame'[u] = frame[u]
    BY <1>1, CallOnlyEffect, EraseEffect
  <2>2. Fits(frame'[t], hpc[t])
    BY <1>1, <2>0, CallOnlyEffect, EraseEffect, NewFrame DEF Fits
  <2> QED
    BY <1>0, <2>1, <2>2, PointsKept DEF Bystanders
<1>2. ASSUME NEW t \in Threads, NEW s \in Servers, AcceptOk(t, s) PROVE PointsOK'
  BY <1>0, <1>2, AcceptOkEffect, IdleFits, PointsKept DEF Fits, Bystanders
<1>3. ASSUME NEW t \in Apps, NEW s \in Servers, StartServer(t, s) PROVE PointsOK'
  <2>1. t \in Threads
    BY DEF Threads
  <2> QED
    BY <1>0, <1>3, <2>1, StartServerEffect, IdleFits, PointsKept DEF Fits, Bystanders
<1>4. ASSUME frame' = frame PROVE PointsOK'
  BY <1>0, <1>4 DEF PointsOK
<1>5. ASSUME NEW t \in Threads, NEW s \in Servers, AcceptError(t, s) PROVE frame' = frame
  BY <1>5 DEF AcceptError
<1>6. ASSUME NEW t \in Threads, NEW o \in Ops, RunPartial(t, o) PROVE frame' = frame
  BY <1>6, PartialEffect
<1>7. Environment => frame' = frame
  BY EnvironmentEffect
<1> QED
  BY <1>1, <1>2, <1>3, <1>4, <1>5, <1>6, <1>7, TcpOnlyCases

\* What the proofs below know of every state.
Sound == TypeOK /\ HttpTypeOK /\ ClosingOK /\ OpsFresh /\ PointsOK

LEMMA SoundCorrect == HttpSpec => []Sound
<1>1. HttpInit => PointsOK
  BY NewFrame DEF HttpInit, Init, PointsOK, Fits
<1>2. TypeOK /\ HttpTypeOK /\ ClosingOK /\ OpsFresh /\ PointsOK /\ [HttpNext]_hvars => PointsOK'
  <2>1. UNCHANGED hvars /\ PointsOK => PointsOK'
    BY DEF hvars, vars, httpVars, PointsOK
  <2> QED
    BY <2>1, PointsHandler, PointsApp, PointsTcpOnly DEF HttpNext
<1>3. HttpSpec => [](TypeOK /\ OpsFresh)
  BY HttpRefinesTcp, TypeCorrect, OpsFreshCorrect, PTL DEF TcpRespected
<1> QED
  BY <1>1, <1>2, <1>3, HttpTyped, ClosingInit, ClosingNext, PTL DEF HttpSpec, Sound

\* A step of an HTTP handler changes no link and no other thread.
LEMMA HandlerEffect ==
  ASSUME Sound, NEW t \in Threads, HttpHandler(t)
  PROVE  /\ Bystanders(t) /\ UNCHANGED <<links, nlinks, closing>>
         /\ frame'[t].pc \in {"idle", "client", "arm", "back", "erase"}
<1> TypeOK /\ HttpTypeOK
  BY DEF Sound
<1>1. CASE CallAccept(t) \/ OperationStarted(t) \/ OperationRefused(t) \/ CloseLink(t)
  BY <1>1, CallAcceptEffect, StartedEffect, RefusedEffect, CloseLinkEffect
<1>2. CASE Inside(t) \/ DeleteReq(t) \/ DeleteRes(t)
  BY <1>2, InsideEffect, DeleteEffect DEF vars, linkVars
<1>3. CASE CallTcp(t)
  BY <1>3, CallTcpEffect
<1>4. CASE HandlerReturns(t)
  BY <1>4, ReturnsEffect, NewFrame DEF httpVars
<1>5. ASSUME NEW o \in Ops, CallIo(t, o) \/ CallTimeOut(t, o)
      PROVE  /\ Bystanders(t) /\ UNCHANGED <<links, nlinks, closing>>
             /\ frame'[t].pc = "client"
  BY <1>5, CallIoEffect, CallTimeOutEffect
<1> QED
  BY <1>1, <1>2, <1>3, <1>4, <1>5, HandlerCases DEF Handles1

LEMMA ServersStayCorrect == HttpSpec => []ServersStay
<1> DEFINE Stopping == {"snapshot", "srv_erase", "srv_unrelate", "srv_drop"}
<1>1. HttpInit => ServersStay
  BY NewFrame DEF HttpInit, Init, ServersStay, NotClosing
<1>2. Sound /\ ServersStay /\ [HttpNext]_hvars => ServersStay'
  <2> SUFFICES ASSUME Sound, ServersStay, ~CloseServers, [HttpNext]_hvars
               PROVE  /\ UNCHANGED closing
                      /\ \A t \in Threads : frame'[t].pc \notin Stopping
    BY DEF ServersStay
  <2>0. TypeOK /\ HttpTypeOK /\ ClosingOK /\ OpsFresh
    BY DEF Sound
  <2>1. ASSUME NEW t \in Threads, HttpHandler(t)
        PROVE  UNCHANGED closing /\ \A u \in Threads : frame'[u].pc \notin Stopping
    BY <2>1, HandlerEffect DEF ServersStay, Bystanders
  <2>2. ASSUME NEW t \in Apps, HttpApp(t)
        PROVE  UNCHANGED closing /\ \A u \in Threads : frame'[u].pc \notin Stopping
    <3>1. t \in Threads /\ ~StopClosedServer(t) /\ ~(closing[t].left > 0)
      BY <2>0, StopEffect DEF ServersStay, Threads
    <3>2. PICK h \in Handles : AppCloseLink(t, h) /\ Continue(t, "closing") /\ closing' = closing
      BY <2>0, <2>2, <3>1, AppCases
    <3> QED
      BY <2>0, <3>1, <3>2, AppCloseEffect DEF ServersStay, Bystanders
  <2>3. CASE TcpOnly
    <3>1. UNCHANGED closing
      BY <2>3, TcpOnlyCases DEF httpVars
    <3>2. ASSUME NEW t \in Threads, CallOnly(t) \/ EraseLink(t)
          PROVE  \A u \in Threads : frame'[u].pc \notin Stopping
      BY <2>0, <3>2, CallOnlyEffect, EraseEffect, NewFrame DEF ServersStay
    <3>3. ASSUME NEW t \in Threads, NEW s \in Servers, AcceptOk(t, s)
          PROVE  \A u \in Threads : frame'[u].pc \notin Stopping
      BY <2>0, <3>3, AcceptOkEffect DEF ServersStay
    <3>4. ASSUME NEW t \in Apps, NEW s \in Servers, StartServer(t, s)
          PROVE  \A u \in Threads : frame'[u].pc \notin Stopping
      BY <2>0, <3>4, StartServerEffect DEF ServersStay, Threads
    <3>5. ASSUME frame' = frame PROVE \A u \in Threads : frame'[u].pc \notin Stopping
      BY <3>5 DEF ServersStay
    <3>6. ASSUME NEW t \in Threads, \/ \E s \in Servers : AcceptError(t, s)
                                    \/ \E o \in Ops : RunPartial(t, o)
          PROVE  frame' = frame
      BY <3>6 DEF AcceptError, RunPartial
    <3>7. Environment => frame' = frame
      BY DEF Environment, IoCompletes, TimerExpires
    <3> QED
      BY <2>3, <3>1, <3>2, <3>3, <3>4, <3>5, <3>6, <3>7, TcpOnlyCases
  <2>4. CASE UNCHANGED hvars
    BY <2>4 DEF hvars, vars, httpVars, ServersStay
  <2> QED
    BY <2>1, <2>2, <2>3, <2>4 DEF HttpNext
<1> QED
  BY <1>1, <1>2, SoundCorrect, PTL DEF HttpSpec
-----------------------------------------------------------------------------
(* One exchange per link.                                                  *)

\* Thread t carries the exchange of link h; an operation does if it is active (ByOp).
Carries(t, h) == frame[t].h = h /\ (hpc[t] \in Serving \/ At(t, "relate"))

\* The links that anybody works on were accepted; close_server alone makes up handles,
\* the numbers of servers, and the first server's is that of a link.
KnownOK ==
  /\ \A t \in Threads :
       \/ frame[t].h <= nlinks
       \/ /\ CloseServers /\ MaxServers > 1
          /\ hpc[t] \in {"closing", "forget", "none"} /\ ~At(t, "relate")
  /\ \A o \in Ops : ops[o].h <= nlinks
  /\ \A h \in given : h <= nlinks

CountOK ==
  /\ \A h \in Handles : rel[h] # None => h <= nlinks
  /\ \A t \in Apps : closing[t].left > 0 => 0 < nlinks

LEMMA LinksKnown ==
  ASSUME TypeOK
  PROVE  /\ nlinks \in Nat /\ nlinks <= MaxLinks
         /\ \A h \in links : h \in Nat /\ h <= nlinks /\ h # None
         /\ \A t \in Threads : frame[t].h \in Nat
         /\ \A o \in Ops : ops[o].h \in Nat
<1>1. Handles \cup {None} \subseteq Nat
  BY Constants DEF Handles, None
<1> QED
  BY <1>1, Constants DEF TypeOK, Frame, Operation, None

LEMMA SeenKnown ==
  ASSUME TypeOK, KnownOK, NEW o \in Ops, NEW h \in HandlesSeen(o)
  PROVE  h <= nlinks
<1>1. h \in links \cup {ops[o].h, None}
  BY DEF HandlesSeen
<1> QED
  BY <1>1, LinksKnown DEF KnownOK, None

\* Thread t has a link that was accepted, or one close_server made up.
Knows(t) ==
  \/ frame[t].h <= nlinks
  \/ /\ CloseServers /\ MaxServers > 1
     /\ hpc[t] \in {"closing", "forget", "none"} /\ ~At(t, "relate")

LEMMA KnownHandler ==
  ASSUME Sound, KnownOK, NEW t \in Threads, HttpHandler(t)
  PROVE  KnownOK'
<1> TypeOK /\ HttpTypeOK /\ PointsOK
  BY DEF Sound
<1>0. /\ Bystanders(t) /\ UNCHANGED nlinks /\ Fits(frame[t], hpc[t])
      /\ frame[t].h \in Nat /\ nlinks \in Nat
  BY HandlerEffect, LinksKnown DEF PointsOK
<1> SUFFICES Knows(t)' /\ (\A o \in Ops : ops'[o].h <= nlinks)
             /\ \A h \in given' : h <= nlinks
  BY <1>0 DEF KnownOK, Knows, Bystanders, At
<1>1. CASE CallAccept(t) \/ OperationRefused(t) \/ CloseLink(t)
  BY <1>0, <1>1, CallAcceptEffect, RefusedEffect, CloseLinkEffect
     DEF KnownOK, Knows, Fits, At, Serving
<1>2. CASE Inside(t)
  <2>1. hpc[t] \in Serving /\ UNCHANGED <<frame, ops>>
    BY <1>2, InsideEffect DEF vars, opVars
  <2>2. frame[t].h <= nlinks
    BY <2>1 DEF KnownOK, Serving
  <2>3. given' \subseteq given \cup {frame[t].h}
    BY <1>2 DEF Inside, AcceptHandler, ParseRequest, DealRequest, ServerHandler, DropRequest,
       ReadContent, Link
  <2> QED
    BY <1>0, <2>1, <2>2, <2>3 DEF KnownOK, Knows
<1>3. CASE CallTcp(t)
  <2>1. frame[t].h <= nlinks /\ frame'[t].h = frame[t].h /\ UNCHANGED <<ops, given>>
    BY <1>3, CallTcpEffect DEF KnownOK
  <2> QED
    BY <1>0, <2>1 DEF KnownOK, Knows
<1>4. CASE OperationStarted(t)
  <2>1. frame[t].h <= nlinks
    BY <1>0, <1>4, StartedEffect DEF KnownOK, Fits
  <2> QED
    BY <1>0, <1>4, <2>1, StartedEffect DEF KnownOK, Knows
<1>5. CASE DeleteReq(t) \/ DeleteRes(t)
  <2>1. UNCHANGED <<frame, ops, given>>
    BY <1>5, DeleteEffect DEF vars, opVars
  <2> QED
    BY <1>0, <1>5, <2>1, DeleteEffect DEF KnownOK, Knows, At
<1>6. CASE HandlerReturns(t)
  <2>1. frame'[t].h = None /\ UNCHANGED <<ops, given>>
    BY <1>6, ReturnsEffect, NewFrame DEF httpVars
  <2> QED
    BY <1>0, <2>1 DEF KnownOK, Knows, None
<1>7. ASSUME NEW o \in Ops, CallIo(t, o) \/ CallTimeOut(t, o)
      PROVE  Knows(t)' /\ (\A p \in Ops : ops'[p].h <= nlinks) /\ given' = given
  <2>1. \A p \in Ops : ops'[p].h = ops[p].h
    BY <1>7, CallIoEffect, CallTimeOutEffect
  <2>2. frame'[t].h <= nlinks
    BY <1>7, CallIoEffect, CallTimeOutEffect, SeenKnown DEF KnownOK
  <2> QED
    BY <1>0, <1>7, <2>1, <2>2, CallIoEffect, CallTimeOutEffect DEF KnownOK, Knows
<1> QED
  BY <1>1, <1>2, <1>3, <1>4, <1>5, <1>6, <1>7, HandlerCases DEF Handles1, KnownOK

LEMMA KnownApp ==
  ASSUME Sound, ServersStay, KnownOK, CountOK, NEW t \in Apps, HttpApp(t)
  PROVE  KnownOK'
<1> TypeOK /\ HttpTypeOK /\ ClosingOK /\ PointsOK
  BY DEF Sound
<1>0. t \in Threads /\ UNCHANGED given
  BY AppCases
<1>1. CASE UNCHANGED <<vars, hpc>>
  BY <1>0, <1>1 DEF KnownOK, At, vars, linkVars, opVars
<1>2. CASE StopClosedServer(t)
  BY <1>0, <1>2, StopEffect, LinksKnown DEF KnownOK, Bystanders, At, None
<1>3. ASSUME NEW h \in Handles, AppCloseLink(t, h), Continue(t, "closing"),
             h \in given \/ (closing[t].left > 0 /\ h = closing[t].s)
      PROVE  KnownOK'
  <2>1. CASE h \in given
    BY <1>0, <1>3, <2>1, AppCloseEffect DEF KnownOK, Bystanders, At
  <2>2. CASE closing[t].left > 0 /\ h = closing[t].s
    <3>1. CloseServers /\ h \in 1..MaxServers /\ nlinks \in Nat /\ 0 < nlinks
      BY <2>2, LinksKnown DEF ServersStay, ClosingOK, CountOK, Servers
    <3>2. h <= nlinks \/ (CloseServers /\ MaxServers > 1)
      BY <3>1, Constants
    <3> QED
      BY <1>0, <1>3, <3>2, AppCloseEffect DEF KnownOK, Bystanders, At
  <2> QED
    BY <1>3, <2>1, <2>2
<1> QED
  BY <1>1, <1>2, <1>3, AppCases

LEMMA KnownTcpOnly ==
  ASSUME Sound, KnownOK, TcpOnly
  PROVE  KnownOK'
<1> TypeOK /\ HttpTypeOK /\ ClosingOK /\ PointsOK /\ OpsFresh
  BY DEF Sound
<1>0. UNCHANGED <<hpc, given>> /\ nlinks \in Nat
  BY TcpOnlyCases, LinksKnown DEF httpVars
<1>1. ASSUME NEW t \in Threads, CallOnly(t) \/ EraseLink(t) PROVE KnownOK'
  <2>1. /\ \A u \in Threads : u # t => frame'[u] = frame[u]
        /\ UNCHANGED <<nlinks, ops>> /\ frame'[t].pc # "relate"
        /\ frame'[t].h \in {frame[t].h, None}
    BY <1>1, CallOnlyEffect, EraseEffect, NewFrame
  <2> QED
    BY <1>0, <2>1 DEF KnownOK, At, None
<1>2. ASSUME NEW t \in Threads, NEW s \in Servers, AcceptOk(t, s) PROVE KnownOK'
  <2>1. \A u \in Threads : u # t => frame'[u] = frame[u]
    BY <1>2, AcceptOkEffect
  <2>2. nlinks' = nlinks + 1 /\ frame'[t].h = nlinks + 1 /\ UNCHANGED ops
    BY <1>2, AcceptOkEffect
  <2>3. /\ \A u \in Threads : frame[u].h \in Nat
        /\ \A o \in Ops : ops[o].h \in Nat
        /\ \A h \in given : h \in Nat
    BY LinksKnown, Constants DEF HttpTypeOK, Handles, None
  <2>4. ASSUME NEW u \in Threads PROVE Knows(u)'
    <3>1. CASE u = t
      BY <1>0, <2>2, <3>1 DEF Knows
    <3>2. CASE u # t
      BY <1>0, <2>1, <2>2, <2>3, <3>2 DEF KnownOK, Knows, At
    <3> QED
      BY <3>1, <3>2
  <2> QED
    BY <1>0, <2>2, <2>3, <2>4 DEF KnownOK, Knows
<1>3. ASSUME NEW t \in Apps, NEW s \in Servers, StartServer(t, s) PROVE KnownOK'
  <2>1. t \in Threads
    BY DEF Threads
  <2>2. /\ \A u \in Threads : u # t => frame'[u] = frame[u]
        /\ UNCHANGED <<nlinks, ops>>
        /\ frame'[t] = frame[t] \/ (frame'[t].h = None /\ frame'[t].pc = "register")
    BY <1>3, <2>1, StartServerEffect
  <2> QED
    BY <1>0, <2>1, <2>2 DEF KnownOK, At, None
<1>4. ASSUME UNCHANGED <<frame, nlinks>>, \A o \in Ops : ops'[o].h <= nlinks PROVE KnownOK'
  BY <1>0, <1>4 DEF KnownOK, At
<1>5. ASSUME NEW t \in Threads, NEW s \in Servers, AcceptError(t, s) PROVE KnownOK'
  BY <1>4, <1>5 DEF AcceptError, KnownOK, linkVars, opVars
<1>6. ASSUME NEW t \in Threads, NEW o \in Ops, RunPartial(t, o) PROVE KnownOK'
  <2>1. ASSUME NEW p \in Ops PROVE ops'[p].h <= nlinks
    <3>1. ops'[nops + 1].h <= nlinks
      BY <1>6, PartialEffect, SeenKnown
    <3>2. p # nops + 1 => ops'[p].h = ops[p].h
      BY <1>6, PartialEffect
    <3> QED
      BY <3>1, <3>2 DEF KnownOK
  <2> QED
    BY <1>4, <1>6, <2>1, PartialEffect
<1>7. Environment => KnownOK'
  BY <1>4, EnvironmentEffect DEF KnownOK
<1> QED
  BY <1>1, <1>2, <1>3, <1>5, <1>6, <1>7, TcpOnlyCases

LEMMA RelationsKnown ==
  ASSUME TypeOK, [Next]_vars
  PROVE  /\ nlinks' \in {nlinks, nlinks + 1}
         /\ \A h \in Handles : rel'[h] # None =>
              rel[h] # None \/ \E t \in Threads : At(t, "relate") /\ frame[t].h = h
<1> DEFINE P == /\ nlinks' \in {nlinks, nlinks + 1}
                /\ \A h \in Handles : rel'[h] # None =>
                     rel[h] # None \/ \E t \in Threads : At(t, "relate") /\ frame[t].h = h
<1>1. ASSUME NEW t \in Threads, Relate(t) PROVE P
  BY <1>1 DEF Relate, TypeOK, At
<1>2. ASSUME NEW t \in Threads, Unrelate(t) \/ UnrelateServerLinks(t) PROVE P
  BY <1>2 DEF Unrelate, UnrelateServerLinks
<1>3. ASSUME NEW t \in Threads, CallStep(t) PROVE P
  <2>1. CASE RegisterServer(t) \/ (\E kind \in {"recv", "send"} : ClientIo(t, kind))
               \/ Arm(t) \/ ArmFails(t) \/ ClientClose(t) \/ EraseLink(t)
    BY <2>1 DEF RegisterServer, ClientIo, Arm, ArmFails, ClientClose, EraseLink, linkVars
  <2>2. CASE Return(t) \/ SnapshotLinks(t) \/ EraseServerLinks(t) \/ DropServer(t)
    BY <2>2 DEF Return, SnapshotLinks, EraseServerLinks, DropServer, linkVars
  <2> QED
    BY <1>1, <1>2, <1>3, <2>1, <2>2 DEF CallStep
<1>4. ASSUME NEW t \in Workers, Dispatch(t) PROVE P
  BY <1>4 DEF Dispatch, AcceptOk, AcceptError, RunIo, RunPartial, RunTimer, linkVars
<1>5. ASSUME NEW t \in Apps, AppCall(t) PROVE P
  BY <1>5 DEF AppCall, StartServer, StopServer, StartClient, AppCloseLink, linkVars
<1>6. Environment \/ UNCHANGED vars => P
  BY DEF Environment, IoCompletes, TimerExpires, vars, linkVars
<1> QED
  BY <1>3, <1>4, <1>5, <1>6 DEF Next

LEMMA CountNext ==
  ASSUME Sound, KnownOK, CountOK, [HttpNext]_hvars
  PROVE  CountOK'
<1> TypeOK /\ HttpTypeOK /\ ClosingOK /\ PointsOK
  BY DEF Sound
<1>1. nlinks \in Nat /\ nlinks' \in {nlinks, nlinks + 1} /\ Handles \subseteq Int
  BY HttpStep, RelationsKnown, LinksKnown DEF Handles
<1>2. \A h \in Handles : rel'[h] # None => h <= nlinks
  BY HttpStep, RelationsKnown DEF CountOK, KnownOK
<1> SUFFICES \A t \in Apps : closing'[t].left > 0 => 0 < nlinks
  BY <1>1, <1>2 DEF CountOK
<1>3. CASE UNCHANGED closing
  BY <1>3 DEF CountOK
<1>4. ASSUME NEW t \in Apps, HttpApp(t)
      PROVE  \A u \in Apps : closing'[u].left > 0 => 0 < nlinks
  <2>1. ASSUME NEW s \in Servers, CloseServer(t, s)
        PROVE  \A u \in Apps : closing'[u].left > 0 => 0 < nlinks
    <3> DEFINE S == {h \in Handles : rel[h] = s}
    <3>1. closing' = [closing EXCEPT ![t] = [s |-> s, left |-> Cardinality(S)]]
      BY <2>1 DEF CloseServer
    <3>2. CASE S = {}
      <4>1. Cardinality(S) = 0
        BY <3>2, FS_EmptySet
      <4>2. \A u \in Apps : closing'[u].left > 0 => closing[u].left > 0
        BY <3>1, <4>1 DEF ClosingOK
      <4> QED
        BY <4>2 DEF CountOK
    <3>3. CASE S # {}
      <4>1. PICK h \in Handles : rel[h] = s
        BY <3>3
      <4>2. rel[h] # None /\ h >= 1
        BY <4>1, Constants DEF Handles
      <4> QED
        BY <1>1, <4>2 DEF CountOK
    <3> QED
      BY <3>2, <3>3
  <2>2. CASE CloseNextLink(t)
    <3>1. closing[t].left > 0
      BY <2>2 DEF CloseNextLink
    <3> QED
      BY <3>1 DEF CountOK
  <2>3. CASE StopClosedServer(t)
    BY <2>3, StopEffect, NotClosingType DEF CountOK, ClosingOK
  <2> QED
    BY <1>3, <1>4, <2>1, <2>2, <2>3 DEF HttpApp, HttpCloseLink
<1> QED
  BY <1>3, <1>4, HandlerEffect, TcpOnlyCases DEF HttpNext, httpVars, hvars

LEMMA KnownCorrect == HttpSpec => []KnownOK
<1>1. HttpInit => KnownOK /\ CountOK
  BY NewFrame DEF HttpInit, Init, KnownOK, CountOK, NoOp, None, NotClosing
<1>2. Sound /\ ServersStay /\ KnownOK /\ CountOK /\ [HttpNext]_hvars => KnownOK'
  <2>1. UNCHANGED hvars /\ KnownOK => KnownOK'
    BY DEF hvars, vars, httpVars, linkVars, opVars, KnownOK, At
  <2> QED
    BY <2>1, KnownHandler, KnownApp, KnownTcpOnly DEF HttpNext
<1> QED
  BY <1>1, <1>2, CountNext, SoundCorrect, ServersStayCorrect, PTL DEF HttpSpec

SerialOK ==
  \A h \in links :
    /\ \A t, u \in Threads : Carries(t, h) /\ Carries(u, h) => t = u
    /\ \A o, p \in Ops : ByOp(o, h) /\ ByOp(p, h) => o = p
    /\ \A t \in Threads, o \in Ops : ~(Carries(t, h) /\ ByOp(o, h))

LEMMA SerialKept ==
  ASSUME SerialOK, links' \subseteq links,
         \A h \in links', u \in Threads : Carries(u, h)' => Carries(u, h),
         \A h \in links', o \in Ops : ByOp(o, h)' => ByOp(o, h)
  PROVE  SerialOK'
BY DEF SerialOK

\* The exchange passes from a thread to the operation it starts.
LEMMA SerialStarted ==
  ASSUME Sound, SerialOK, NEW t \in Threads, OperationStarted(t)
  PROVE  SerialOK'
<1> TypeOK /\ HttpTypeOK /\ PointsOK
  BY DEF Sound
<1>0. Fits(frame[t], hpc[t])
  BY DEF PointsOK
<1> SUFFICES ASSUME NEW h \in links
             PROVE  /\ \A u, v \in Threads : Carries(u, h)' /\ Carries(v, h)' => u = v
                    /\ \A o, p \in Ops : ByOp(o, h)' /\ ByOp(p, h)' => o = p
                    /\ \A u \in Threads, o \in Ops : ~(Carries(u, h)' /\ ByOp(o, h)')
  BY StartedEffect DEF SerialOK
<1>1. \A u \in Threads : Carries(u, h)' => u # t /\ Carries(u, h)
  BY StartedEffect DEF Carries, At, Bystanders, Serving
<1>2. \A o \in Ops : o # nops + 1 => (ByOp(o, h)' => ByOp(o, h))
  BY StartedEffect DEF ByOp
<1>3. CASE h = frame[t].h
  <2>1. Carries(t, h)
    BY <1>0, <1>3, StartedEffect DEF Carries, Fits, Serving
  <2>2. (\A u \in Threads : Carries(u, h) => u = t) /\ \A o \in Ops : ~ByOp(o, h)
    BY <2>1 DEF SerialOK
  <2> QED
    BY <1>1, <1>2, <2>2
<1>4. CASE h # frame[t].h
  <2>1. \A o \in Ops : ByOp(o, h)' => ByOp(o, h)
    BY <1>2, <1>4, StartedEffect DEF ByOp
  <2> QED
    BY <1>1, <2>1 DEF SerialOK
<1> QED
  BY <1>3, <1>4

\* A handler of a link that exists reads the handle of that link.
LEMMA SeesOwn ==
  ASSUME TypeOK, "reused" \notin StaleReads, NEW o \in Ops, NEW h \in HandlesSeen(o), h \in links
  PROVE  h = ops[o].h
<1>1. h # None
  BY LinksKnown
<1> QED
  BY <1>1 DEF HandlesSeen

\* It passes from an operation to the thread that runs its handler.
LEMMA SerialAnswered ==
  ASSUME Sound, SerialOK, "reused" \notin StaleReads, NEW t \in Threads, NEW o \in Ops, CallIo(t, o)
  PROVE  SerialOK'
<1> TypeOK /\ HttpTypeOK /\ PointsOK
  BY DEF Sound
<1> SUFFICES ASSUME NEW h \in links
             PROVE  /\ \A u, v \in Threads : Carries(u, h)' /\ Carries(v, h)' => u = v
                    /\ \A p, q \in Ops : ByOp(p, h)' /\ ByOp(q, h)' => p = q
                    /\ \A u \in Threads, p \in Ops : ~(Carries(u, h)' /\ ByOp(p, h)')
  BY CallIoEffect DEF SerialOK
<1>1. \A u \in Threads : u # t => (Carries(u, h)' => Carries(u, h))
  BY CallIoEffect DEF Carries, At, Bystanders
<1>2. \A p \in Ops : ByOp(p, h)' => p # o /\ ByOp(p, h)
  BY CallIoEffect DEF ByOp, Active
<1>3. CASE Carries(t, h)'
  <2>1. frame'[t].h = h
    BY <1>3 DEF Carries
  <2>2. h = ops[o].h
    BY <2>1, SeesOwn, CallIoEffect
  <2>3. ByOp(o, h)
    BY <2>2, CallIoEffect DEF ByOp, Active
  <2>4. (\A u \in Threads : ~Carries(u, h)) /\ \A p \in Ops : ByOp(p, h) => p = o
    BY <2>3 DEF SerialOK
  <2> QED
    BY <1>1, <1>2, <2>4
<1>4. CASE ~Carries(t, h)'
  BY <1>1, <1>2, <1>4 DEF SerialOK
<1> QED
  BY <1>3, <1>4

LEMMA SerialHandler ==
  ASSUME Sound, SerialOK, "reused" \notin StaleReads, NEW t \in Threads, HttpHandler(t)
  PROVE  SerialOK'
<1> TypeOK /\ HttpTypeOK /\ PointsOK
  BY DEF Sound
<1>0. Bystanders(t) /\ UNCHANGED links /\ \A h \in links : h # None
  BY HandlerEffect, LinksKnown
<1>1. ASSUME \A h \in links : Carries(t, h)' => Carries(t, h),
             \A o \in Ops, h \in links : ByOp(o, h)' => ByOp(o, h)
      PROVE  SerialOK'
  BY <1>0, <1>1, SerialKept DEF Bystanders, Carries, At
<1>2. CASE CallAccept(t) \/ OperationRefused(t) \/ CloseLink(t)
  <2>1. UNCHANGED ops /\ frame'[t].h = frame[t].h
    BY <1>2, CallAcceptEffect, RefusedEffect, CloseLinkEffect
  <2>2. hpc'[t] \in Serving \/ frame'[t].pc = "relate" => frame[t].pc = "relate"
    BY <1>2, CallAcceptEffect, RefusedEffect, CloseLinkEffect DEF Serving
  <2> QED
    BY <1>1, <2>1, <2>2 DEF Carries, At, ByOp
<1>3. CASE Inside(t) \/ CallTcp(t)
  <2>1. UNCHANGED ops /\ frame'[t].h = frame[t].h /\ hpc[t] \in Serving
    BY <1>3, InsideEffect, CallTcpEffect DEF vars, opVars, Serving
  <2> QED
    BY <1>1, <2>1 DEF Carries, At, ByOp
<1>4. CASE DeleteReq(t) \/ DeleteRes(t) \/ HandlerReturns(t)
  <2>1. UNCHANGED ops /\ hpc'[t] \notin Serving /\ frame'[t].pc # "relate"
    BY <1>4, DeleteEffect, ReturnsEffect, NewFrame DEF vars, opVars, httpVars, Serving
  <2> QED
    BY <1>1, <2>1 DEF Carries, At, ByOp
<1>5. ASSUME NEW o \in Ops, CallTimeOut(t, o) PROVE SerialOK'
  <2>1. hpc'[t] \notin Serving /\ frame'[t].pc # "relate"
    BY <1>5, CallTimeOutEffect DEF Serving
  <2>2. \A p \in Ops : ops'[p].h = ops[p].h /\ ops'[p].io = ops[p].io
    BY <1>5, CallTimeOutEffect
  <2> QED
    BY <1>1, <2>1, <2>2 DEF Carries, At, ByOp
<1> QED
  BY <1>2, <1>3, <1>4, <1>5, SerialStarted, SerialAnswered, HandlerCases DEF Handles1

LEMMA SerialApp ==
  ASSUME Sound, SerialOK, NEW t \in Apps, HttpApp(t)
  PROVE  SerialOK'
<1> TypeOK /\ HttpTypeOK /\ ClosingOK /\ PointsOK
  BY DEF Sound
<1>0. t \in Threads
  BY AppCases
<1>1. ASSUME Bystanders(t), UNCHANGED <<links, ops>>, hpc'[t] \notin Serving,
             frame'[t].pc # "relate"
      PROVE  SerialOK'
  BY <1>1, SerialKept DEF Bystanders, Carries, At, ByOp
<1>2. CASE UNCHANGED <<vars, hpc>>
  BY <1>2, SerialKept DEF vars, linkVars, opVars, Carries, At, ByOp
<1>3. CASE StopClosedServer(t)
  BY <1>0, <1>1, <1>3, StopEffect, IdleFits DEF Serving
<1>4. ASSUME NEW h \in Handles, AppCloseLink(t, h), Continue(t, "closing") PROVE SerialOK'
  BY <1>0, <1>1, <1>4, AppCloseEffect DEF Serving
<1> QED
  BY <1>2, <1>3, <1>4, AppCases

LEMMA SerialAccepted ==
  ASSUME Sound, KnownOK, SerialOK, UNCHANGED httpVars,
         NEW t \in Threads, NEW s \in Servers, AcceptOk(t, s)
  PROVE  SerialOK'
<1> TypeOK /\ PointsOK
  BY DEF Sound
<1>0. hpc[t] = "none" /\ UNCHANGED <<hpc, ops>> /\ links' = links \cup {nlinks + 1}
  BY AcceptOkEffect, IdleFits DEF httpVars
<1> SUFFICES ASSUME NEW h \in links'
             PROVE  /\ \A u, v \in Threads : Carries(u, h)' /\ Carries(v, h)' => u = v
                    /\ \A o, p \in Ops : ByOp(o, h)' /\ ByOp(p, h)' => o = p
                    /\ \A u \in Threads, o \in Ops : ~(Carries(u, h)' /\ ByOp(o, h)')
  BY DEF SerialOK
<1>1. \A u \in Threads : u # t => (Carries(u, h)' => Carries(u, h))
  BY <1>0, AcceptOkEffect DEF Carries, At
<1>2. \A o \in Ops : ByOp(o, h)' => ByOp(o, h)
  BY <1>0 DEF ByOp
<1>3. CASE h = nlinks + 1
  <2>1. nlinks \in Nat /\ ~(h <= nlinks)
    BY <1>3, LinksKnown
  <2>2. \A u \in Threads : ~Carries(u, h)
    BY <2>1 DEF KnownOK, Carries, Serving
  <2>3. \A o \in Ops : ~ByOp(o, h)
    BY <2>1 DEF KnownOK, ByOp
  <2> QED
    BY <1>1, <1>2, <2>2, <2>3
<1>4. CASE h # nlinks + 1
  <2>1. h \in links /\ ~Carries(t, h)'
    BY <1>0, <1>4, AcceptOkEffect DEF Carries, Serving
  <2> QED
    BY <1>1, <1>2, <2>1 DEF SerialOK
<1> QED
  BY <1>3, <1>4

\* The rest of a short write carries on the exchange.
LEMMA SerialPartial ==
  ASSUME Sound, SerialOK, "reused" \notin StaleReads, UNCHANGED httpVars, NEW t \in Threads, NEW o \in Ops, RunPartial(t, o)
  PROVE  SerialOK'
<1> TypeOK /\ OpsFresh
  BY DEF Sound
<1>0. UNCHANGED <<frame, links, hpc>>
  BY PartialEffect DEF httpVars
<1> SUFFICES ASSUME NEW h \in links
             PROVE  /\ \A u, v \in Threads : Carries(u, h)' /\ Carries(v, h)' => u = v
                    /\ \A p, q \in Ops : ByOp(p, h)' /\ ByOp(q, h)' => p = q
                    /\ \A u \in Threads, p \in Ops : ~(Carries(u, h)' /\ ByOp(p, h)')
  BY <1>0 DEF SerialOK
<1>1. \A u \in Threads : Carries(u, h)' => Carries(u, h)
  BY <1>0 DEF Carries, At
<1>2. \A p \in Ops : p # nops + 1 => (ByOp(p, h)' => p # o /\ ByOp(p, h))
  BY PartialEffect DEF ByOp, Active
<1>3. CASE h = ops[o].h
  <2>1. ByOp(o, h)
    BY <1>3, PartialEffect DEF ByOp, Active
  <2> QED
    BY <1>1, <1>2, <2>1 DEF SerialOK
<1>4. CASE h # ops[o].h
  <2>1. \A p \in Ops : ByOp(p, h)' => ByOp(p, h)
    BY <1>2, <1>4, PartialEffect, SeesOwn DEF ByOp
  <2> QED
    BY <1>1, <1>2, <2>1 DEF SerialOK
<1> QED
  BY <1>3, <1>4

LEMMA SerialTcpOnly ==
  ASSUME Sound, KnownOK, SerialOK, "reused" \notin StaleReads, TcpOnly
  PROVE  SerialOK'
<1> TypeOK /\ HttpTypeOK /\ PointsOK /\ OpsFresh
  BY DEF Sound
<1>0. UNCHANGED httpVars /\ UNCHANGED hpc /\ \A h \in links : h # None
  BY TcpOnlyCases, LinksKnown DEF httpVars
<1>1. ASSUME NEW t \in Threads, links' \subseteq links, UNCHANGED ops,
             \A u \in Threads : u # t => frame'[u] = frame[u],
             frame'[t].h \in {frame[t].h, None} /\ frame'[t].pc # "relate"
      PROVE  SerialOK'
  <2>1. \A h \in links', u \in Threads : Carries(u, h)' => Carries(u, h)
    BY <1>0, <1>1 DEF Carries, At
  <2> QED
    BY <1>1, <2>1, SerialKept DEF ByOp
<1>2. ASSUME NEW t \in Threads, CallOnly(t) \/ EraseLink(t) PROVE SerialOK'
  BY <1>1, <1>2, CallOnlyEffect, EraseEffect, NewFrame
<1>3. ASSUME UNCHANGED <<frame, links>>,
             \A p \in Ops : ops'[p].h = ops[p].h /\ (ops'[p].io \in Active => ops[p].io \in Active)
      PROVE  SerialOK'
  BY <1>0, <1>3, SerialKept DEF Carries, At, ByOp
<1>4. ASSUME NEW t \in Apps, NEW s \in Servers, StartServer(t, s) PROVE SerialOK'
  <2>1. t \in Threads
    BY DEF Threads
  <2>2. frame'[t].h \in {frame[t].h, None} /\ frame'[t].pc # "relate"
    BY <1>4, <2>1, StartServerEffect, IdleFits
  <2> QED
    BY <1>1, <1>4, <2>1, <2>2, StartServerEffect
<1>5. ASSUME NEW t \in Threads, NEW s \in Servers, AcceptError(t, s) PROVE SerialOK'
  BY <1>3, <1>5 DEF AcceptError, linkVars, opVars
<1>6. Environment => SerialOK'
  BY <1>3, EnvironmentEffect
<1> QED
  BY <1>0, <1>2, <1>4, <1>5, <1>6, SerialAccepted, SerialPartial, TcpOnlyCases

LEMMA SerialCorrect ==
  ASSUME "reused" \notin StaleReads
  PROVE  HttpSpec => []SerialOK
<1>1. HttpInit => SerialOK
  BY DEF HttpInit, Init, SerialOK
<1>2. Sound /\ KnownOK /\ SerialOK /\ [HttpNext]_hvars => SerialOK'
  <2>1. UNCHANGED hvars /\ SerialOK => SerialOK'
    BY DEF hvars, vars, httpVars, linkVars, opVars, SerialOK, Carries, ByOp, At
  <2> QED
    BY <2>1, SerialHandler, SerialApp, SerialTcpOnly DEF HttpNext
<1> QED
  BY <1>1, <1>2, SoundCorrect, KnownCorrect, PTL DEF HttpSpec

LEMMA AtMostOne ==
  ASSUME NEW S, \A x, y \in S : x = y
  PROVE  Cardinality(S) \in {0, 1} /\ (S = {} => Cardinality(S) = 0)
<1>1. CASE S = {}
  BY <1>1, FS_EmptySet
<1>2. CASE S # {}
  <2>1. PICK x \in S : TRUE
    BY <1>2
  <2>2. S = {x}
    BY <2>1
  <2> QED
    BY <1>2, <2>2, FS_Singleton
<1> QED
  BY <1>1, <1>2

\* The request and the response of a link have no lock (http_service_impl.cpp): one
\* handler or one pending operation at a time carries a registered link's exchange, as
\* long as no handler reads the handle of another link from a freed TcpLink
\* (tcp_link.cpp): with such a read two chains of callbacks meet on one link.
THEOREM OneExchangePerLink ==
  ASSUME "reused" \notin StaleReads
  PROVE  HttpSpec => []SerialService
<1>1. SerialOK => SerialService
  <2> SUFFICES ASSUME SerialOK, NEW h \in links
               PROVE  Cardinality({t \in Threads : Link(t) = h /\ hpc[t] \in Serving})
                        + Cardinality({o \in Ops : ops[o].h = h
                            /\ ops[o].io \in {"pending", "ok", "partial", "err"}}) <= 1
    BY DEF SerialService
  <2> DEFINE T == {t \in Threads : Link(t) = h /\ hpc[t] \in Serving}
             O == {o \in Ops : ops[o].h = h /\ ops[o].io \in {"pending", "ok", "partial", "err"}}
  <2>1. (\A t \in T : t \in Threads /\ Carries(t, h)) /\ \A o \in O : o \in Ops /\ ByOp(o, h)
    BY DEF Carries, ByOp, Link, Active
  <2>2. (\A t, u \in T : t = u) /\ (\A o, p \in O : o = p) /\ (T = {} \/ O = {})
    BY <2>1 DEF SerialOK
  <2> HIDE DEF T, O
  <2>3. Cardinality(T) \in {0, 1} /\ (T = {} => Cardinality(T) = 0)
    BY <2>2, AtMostOne
  <2>4. Cardinality(O) \in {0, 1} /\ (O = {} => Cardinality(O) = 0)
    BY <2>2, AtMostOne
  <2>5. Cardinality(T) + Cardinality(O) <= 1
    BY <2>2, <2>3, <2>4
  <2> QED
    BY <2>5 DEF T, O
<1> QED
  BY <1>1, SerialCorrect, PTL
-----------------------------------------------------------------------------
(* The request and the response of a link.                                 *)

\* A thread that deletes a link's objects has erased the link.
ErasedOK ==
  \A t \in Threads :
    hpc[t] \in {"closing", "forget"} /\ ~At(t, "erase") => Link(t) \notin links

\* Between new_req and delete_req a registered link has its request, in the hands of a
\* thread or of a receive, and while server_handler runs its response.
HasRequest == {"await", "received", "deal", "serving"}
RequestFor(t) ==
  frame[t].h \in links => /\ hpc[t] \in HasRequest => frame[t].h \in reqs
                          /\ hpc[t] = "serving" => frame[t].h \in ress
RequestOf(o) ==
  ops[o].h \in links /\ ops[o].io \in Active /\ ops[o].kind = "recv" /\ o \notin nullReq
    => ops[o].h \in reqs
RequestOK == (\A t \in Threads : RequestFor(t)) /\ \A o \in Ops : RequestOf(o)

\* A second server's handle may be that of a link not yet accepted, which close_server
\* then deletes the objects of.
OneServer == CloseServers => MaxServers <= 1

LEMMA AllKnown ==
  ASSUME OneServer, TypeOK, KnownOK
  PROVE  /\ \A t \in Threads : frame[t].h \in Nat /\ frame[t].h <= nlinks
         /\ \A o \in Ops : ops[o].h \in Nat /\ ops[o].h <= nlinks
         /\ nlinks \in Nat /\ nlinks + 1 \notin links
BY LinksKnown, Constants DEF OneServer, KnownOK

LEMMA ErasedKept ==
  ASSUME ErasedOK, NEW t \in Threads, links' \subseteq links,
         \A u \in Threads : u # t => frame'[u] = frame[u] /\ hpc'[u] = hpc[u],
         \/ hpc'[t] \notin {"closing", "forget"}
         \/ frame'[t].pc = "erase"
         \/ frame'[t].h \notin links'
         \/ hpc[t] \in {"closing", "forget"} /\ ~At(t, "erase") /\ frame'[t].h = frame[t].h
  PROVE  ErasedOK'
BY DEF ErasedOK, Link, At

LEMMA ErasedHandler ==
  ASSUME Sound, ErasedOK, NEW t \in Threads, HttpHandler(t)
  PROVE  ErasedOK'
<1> TypeOK /\ HttpTypeOK
  BY DEF Sound
<1>1. Bystanders(t) /\ links' = links
  BY HandlerEffect
<1>2. CASE DeleteReq(t) \/ DeleteRes(t)
  <2>1. frame' = frame
    BY <1>2, DeleteEffect DEF vars
  <2> QED
    BY <1>1, <1>2, <2>1, DeleteEffect, ErasedKept DEF Bystanders, At
<1>3. CASE CallAccept(t) \/ Inside(t) \/ CallTcp(t)
  <2>1. hpc'[t] \notin {"closing", "forget"}
    BY <1>3, CallAcceptEffect, InsideEffect, CallTcpEffect DEF Serving
  <2> QED
    BY <1>1, <2>1, ErasedKept DEF Bystanders
<1>4. CASE OperationStarted(t) \/ OperationRefused(t) \/ CloseLink(t) \/ HandlerReturns(t)
  <2>1. hpc'[t] \notin {"closing", "forget"} \/ frame'[t].pc = "erase"
    BY <1>4, StartedEffect, RefusedEffect, CloseLinkEffect, ReturnsEffect DEF httpVars
  <2> QED
    BY <1>1, <2>1, ErasedKept DEF Bystanders
<1>5. ASSUME NEW o \in Ops, CallIo(t, o) \/ CallTimeOut(t, o) PROVE ErasedOK'
  <2>1. CASE CallIo(t, o)
    <3>1. Continue(t, IF ops[o].io = "err" THEN "failed"
                      ELSE IF ops[o].kind = "send" THEN "respond"
                      ELSE IF o \in nullReq THEN "crash" ELSE "received")
      BY <2>1 DEF CallIo
    <3>2. hpc'[t] \notin {"closing", "forget"}
      BY <3>1, ContinueOnly
    <3> QED
      BY <1>1, <3>2, ErasedKept DEF Bystanders
  <2>2. CASE CallTimeOut(t, o)
    BY <1>1, <2>2, CallTimeOutEffect, ErasedKept DEF Bystanders
  <2> QED
    BY <1>5, <2>1, <2>2
<1> QED
  BY <1>2, <1>3, <1>4, <1>5, HandlerCases DEF Handles1

LEMMA ErasedApp ==
  ASSUME Sound, ErasedOK, NEW t \in Apps, HttpApp(t)
  PROVE  ErasedOK'
<1> TypeOK /\ HttpTypeOK /\ ClosingOK /\ PointsOK
  BY DEF Sound
<1>0. t \in Threads
  BY AppCases
<1>1. CASE UNCHANGED <<vars, hpc>>
  BY <1>1 DEF ErasedOK, Link, At, vars, linkVars
<1>2. CASE StopClosedServer(t)
  BY <1>0, <1>2, StopEffect, IdleFits, ErasedKept DEF Bystanders
<1>3. ASSUME NEW h \in Handles, AppCloseLink(t, h), Continue(t, "closing") PROVE ErasedOK'
  BY <1>0, <1>3, AppCloseEffect, ErasedKept DEF Bystanders
<1> QED
  BY <1>1, <1>2, <1>3, AppCases

LEMMA ErasedTcpOnly ==
  ASSUME OneServer, Sound, KnownOK, ErasedOK, TcpOnly
  PROVE  ErasedOK'
<1> TypeOK /\ HttpTypeOK /\ PointsOK /\ OpsFresh
  BY DEF Sound
<1>0. UNCHANGED hpc
  BY TcpOnlyCases DEF httpVars
<1>1. ASSUME NEW t \in Threads, CallOnly(t) PROVE ErasedOK'
  <2>1. /\ \A u \in Threads : u # t => frame'[u] = frame[u]
        /\ links' \subseteq links
    BY <1>1, CallOnlyEffect
  <2>2. Fits(frame[t], hpc[t])
    BY DEF PointsOK
  <2>3. CASE hpc[t] \in {"closing", "forget"}
    <3>1. frame[t].pc \in {"erase", "unrelate", "back"}
      BY <2>2, <2>3 DEF Fits, Serving
    <3>2. frame[t].pc = "unrelate" /\ frame'[t].h = frame[t].h
      BY <1>1, <3>1, CallOnlyEffect
    <3> QED
      BY <1>0, <2>1, <2>3, <3>2, ErasedKept DEF At
  <2>4. CASE hpc[t] \notin {"closing", "forget"}
    BY <1>0, <2>1, <2>4, ErasedKept
  <2> QED
    BY <2>3, <2>4
<1>2. ASSUME NEW t \in Threads, EraseLink(t) PROVE ErasedOK'
  <2>1. links' \subseteq links /\ frame'[t].h \notin links'
    BY <1>2, EraseEffect
  <2> QED
    BY <1>0, <1>2, <2>1, EraseEffect, ErasedKept
<1>3. ASSUME NEW t \in Threads, NEW s \in Servers, AcceptOk(t, s) PROVE ErasedOK'
  <2>1. /\ \A u \in Threads : u # t => frame'[u] = frame[u]
        /\ links' = links \cup {nlinks + 1} /\ hpc[t] = "none"
    BY <1>3, AcceptOkEffect, IdleFits
  <2>2. \A u \in Threads : frame[u].h # nlinks + 1
    BY AllKnown
  <2> QED
    BY <1>0, <2>1, <2>2 DEF ErasedOK, Link, At
<1>4. ASSUME NEW t \in Apps, NEW s \in Servers, StartServer(t, s) PROVE ErasedOK'
  <2>1. t \in Threads
    BY DEF Threads
  <2> QED
    BY <1>0, <1>4, <2>1, StartServerEffect, IdleFits, ErasedKept
<1>5. ASSUME UNCHANGED <<frame, links>> PROVE ErasedOK'
  BY <1>0, <1>5 DEF ErasedOK, Link, At
<1>6. ASSUME NEW t \in Threads, NEW s \in Servers, AcceptError(t, s) PROVE ErasedOK'
  BY <1>5, <1>6 DEF AcceptError, linkVars
<1>7. ASSUME NEW t \in Threads, NEW o \in Ops, RunPartial(t, o) PROVE ErasedOK'
  BY <1>5, <1>7, PartialEffect
<1>8. Environment => ErasedOK'
  BY <1>5, EnvironmentEffect
<1> QED
  BY <1>1, <1>2, <1>3, <1>4, <1>6, <1>7, <1>8, TcpOnlyCases

LEMMA ErasedCorrect ==
  ASSUME OneServer
  PROVE  HttpSpec => []ErasedOK
<1>1. HttpInit => ErasedOK
  BY DEF HttpInit, ErasedOK
<1>2. Sound /\ KnownOK /\ ErasedOK /\ [HttpNext]_hvars => ErasedOK'
  <2>1. UNCHANGED hvars /\ ErasedOK => ErasedOK'
    BY DEF hvars, vars, httpVars, linkVars, ErasedOK, Link, At
  <2> QED
    BY <2>1, ErasedHandler, ErasedApp, ErasedTcpOnly DEF HttpNext
<1> QED
  BY <1>1, <1>2, SoundCorrect, KnownCorrect, PTL DEF HttpSpec

\* What every step does that deletes no object of a registered link.
LEMMA RequestKept ==
  ASSUME RequestOK, NEW t \in Threads, UNCHANGED links,
         \A h \in links : (h \in reqs => h \in reqs') /\ (h \in ress => h \in ress'),
         Bystanders(t), RequestFor(t)', \A o \in Ops : RequestOf(o)'
  PROVE  RequestOK'
BY DEF RequestOK, RequestFor, Bystanders

LEMMA RequestOfKept ==
  ASSUME RequestOK, NEW o \in Ops, UNCHANGED links, nullReq \subseteq nullReq',
         \A h \in links : h \in reqs => h \in reqs',
         ops'[o].h = ops[o].h, ops'[o].kind = ops[o].kind,
         ops'[o].io \in Active => ops[o].io \in Active
  PROVE  RequestOf(o)'
BY DEF RequestOK, RequestOf

LEMMA RequestInside ==
  ASSUME Sound, SerialOK, RequestOK, NEW t \in Threads, Inside(t)
  PROVE  RequestOK'
<1> TypeOK /\ HttpTypeOK
  BY DEF Sound
<1>0. Bystanders(t) /\ UNCHANGED <<frame, ops, links, nullReq>> /\ RequestFor(t)
  BY InsideEffect DEF vars, linkVars, opVars, RequestOK
<1>1. ASSUME reqs \subseteq reqs', ress \subseteq ress', RequestFor(t)'
      PROVE  RequestOK'
  BY <1>0, <1>1, RequestKept, RequestOfKept
<1>2. CASE AcceptHandler(t)
  <2>1. /\ ress' = ress /\ reqs \subseteq reqs'
        /\ \/ hpc'[t] = "await" /\ frame[t].h \in reqs'
           \/ hpc'[t] = "failed"
    BY <1>2, ContinueOnly DEF AcceptHandler, Link
  <2> QED
    BY <1>0, <1>1, <2>1 DEF RequestFor, HasRequest
<1>3. CASE ParseRequest(t)
  <2>1. UNCHANGED <<reqs, ress>> /\ hpc[t] = "received" /\ hpc'[t] \in {"await", "failed", "deal"}
    BY <1>3, ContinueOnly DEF ParseRequest, Aside, In
  <2> QED
    BY <1>0, <1>1, <2>1 DEF RequestFor, HasRequest
<1>4. CASE DealRequest(t)
  <2>1. /\ reqs' = reqs /\ ress \subseteq ress' /\ hpc[t] = "deal"
        /\ \/ hpc'[t] = "serving" /\ frame[t].h \in ress'
           \/ hpc'[t] = "failed"
    BY <1>4, ContinueOnly DEF DealRequest, Aside, In, Link
  <2> QED
    BY <1>0, <1>1, <2>1 DEF RequestFor, HasRequest
<1>5. CASE ServerHandler(t)
  <2>1. UNCHANGED <<reqs, ress>> /\ hpc'[t] \in {"respond", "failed"}
    BY <1>5, ContinueOnly DEF ServerHandler
  <2> QED
    BY <1>0, <1>1, <2>1 DEF RequestFor, HasRequest
<1>6. CASE DropRequest(t)
  <2>1. /\ ress' = ress /\ reqs' = reqs \ {frame[t].h} /\ hpc[t] = "respond" /\ hpc'[t] = "read"
    BY <1>6, ContinueOnly DEF DropRequest, Aside, In, Link
  <2>2. frame[t].h \in links =>
          /\ \A u \in Threads : frame[u].h = frame[t].h /\ hpc[u] \in HasRequest => u = t
          /\ \A o \in Ops : ~ByOp(o, frame[t].h)
    <3> SUFFICES ASSUME frame[t].h \in links
                 PROVE  /\ \A u \in Threads : frame[u].h = frame[t].h /\ hpc[u] \in HasRequest => u = t
                        /\ \A o \in Ops : ~ByOp(o, frame[t].h)
      OBVIOUS
    <3>1. Carries(t, frame[t].h)
      BY <2>1 DEF Carries, Serving
    <3>2. \A u \in Threads : frame[u].h = frame[t].h /\ hpc[u] \in HasRequest
                            => Carries(u, frame[t].h)
      BY DEF Carries, Serving, HasRequest
    <3> QED
      BY <3>1, <3>2 DEF SerialOK
  <2>3. ASSUME NEW u \in Threads PROVE RequestFor(u)'
    <3>1. CASE u = t
      BY <1>0, <2>1, <3>1 DEF RequestFor, HasRequest
    <3>2. CASE u # t
      BY <1>0, <2>1, <2>2, <3>2 DEF RequestFor, RequestOK, Bystanders
    <3> QED
      BY <3>1, <3>2
  <2>4. ASSUME NEW o \in Ops PROVE RequestOf(o)'
    BY <1>0, <2>1, <2>2 DEF RequestOf, RequestOK, ByOp
  <2> QED
    BY <2>3, <2>4 DEF RequestOK
<1>7. CASE ReadContent(t)
  <2>1. /\ ress' = ress /\ reqs \subseteq reqs'
        /\ \/ hpc'[t] \in {"send", "failed", "refused", "await_null"}
           \/ hpc'[t] = "await" /\ frame[t].h \in reqs'
    BY <1>7, ContinueOnly DEF ReadContent, Link
  <2> QED
    BY <1>0, <1>1, <2>1 DEF RequestFor, HasRequest
<1> QED
  BY <1>2, <1>3, <1>4, <1>5, <1>6, <1>7 DEF Inside

LEMMA RequestHandler ==
  ASSUME Sound, SerialOK, ErasedOK, RequestOK, "reused" \notin StaleReads,
         NEW t \in Threads, HttpHandler(t)
  PROVE  RequestOK'
<1> TypeOK /\ HttpTypeOK /\ PointsOK
  BY DEF Sound
<1>0. Bystanders(t) /\ UNCHANGED links /\ RequestFor(t) /\ Fits(frame[t], hpc[t])
  BY HandlerEffect DEF PointsOK, RequestOK
<1>1. ASSUME UNCHANGED <<ops, reqs, ress, nullReq>>, hpc'[t] \notin HasRequest PROVE RequestOK'
  <2>1. RequestFor(t)'
    BY <1>1 DEF RequestFor, HasRequest
  <2> QED
    BY <1>0, <1>1, <2>1, RequestKept, RequestOfKept
<1>2. CASE CallAccept(t) \/ OperationRefused(t) \/ CloseLink(t) \/ HandlerReturns(t)
  <2>1. UNCHANGED <<ops, reqs, ress, nullReq>>
    BY <1>2, CallAcceptEffect, RefusedEffect, CloseLinkEffect, ReturnsEffect DEF httpVars
  <2>2. hpc'[t] \in {"accept", "failed", "closing", "none"}
    BY <1>2, CallAcceptEffect, RefusedEffect, CloseLinkEffect, ReturnsEffect DEF httpVars
  <2> QED
    BY <1>1, <2>1, <2>2 DEF HasRequest
<1>3. CASE CallTcp(t)
  <2>1. UNCHANGED <<ops, reqs, ress, nullReq>> /\ frame'[t].h = frame[t].h
    BY <1>3, CallTcpEffect
  <2>2. hpc'[t] \in {hpc[t], "failed"}
    BY <1>3, CallTcpEffect DEF Link
  <2>3. RequestFor(t)'
    BY <1>0, <2>1, <2>2 DEF RequestFor, HasRequest
  <2> QED
    BY <1>0, <2>1, <2>3, RequestKept, RequestOfKept
<1>4. CASE OperationStarted(t)
  <2>1. /\ UNCHANGED <<reqs, ress>> /\ hpc'[t] = "none" /\ nops + 1 \in Ops
        /\ nullReq' = nullReq \cup {o \in {nops + 1} : In(t, "await_null")}
    BY <1>4, StartedEffect
  <2>2. RequestFor(t)'
    BY <2>1 DEF RequestFor, HasRequest
  <2>3. ASSUME NEW o \in Ops, o # nops + 1 PROVE RequestOf(o)'
    BY <1>0, <1>4, <2>1, <2>3, StartedEffect, RequestOfKept
  <2>4. ASSUME NEW o \in Ops, o = nops + 1 PROVE RequestOf(o)'
    <3>1. ops'[o].h = frame[t].h /\ ops'[o].kind = frame[t].kind
      BY <1>4, <2>4, StartedEffect
    <3>2. frame[t].kind = "recv" => hpc[t] \in {"await", "await_null"}
      BY <1>0, <1>4, StartedEffect DEF Fits
    <3>3. hpc[t] = "await_null" => o \in nullReq'
      BY <2>1, <2>4 DEF In
    <3>4. hpc[t] = "await" /\ frame[t].h \in links => frame[t].h \in reqs
      BY <1>0 DEF RequestFor, HasRequest
    <3> QED
      BY <1>0, <2>1, <3>1, <3>2, <3>3, <3>4 DEF RequestOf
  <2> QED
    BY <1>0, <2>1, <2>2, <2>3, <2>4, RequestKept
<1>5. CASE DeleteReq(t) \/ DeleteRes(t)
  <2>1. /\ UNCHANGED <<frame, ops, nullReq>> /\ hpc[t] \in {"closing", "forget"}
        /\ hpc'[t] \in {"forget", "none"} /\ frame[t].pc = "back"
        /\ reqs \ {frame[t].h} \subseteq reqs' /\ ress \ {frame[t].h} \subseteq ress'
    BY <1>5, DeleteEffect DEF vars, opVars, Link
  <2>2. frame[t].h \notin links
    BY <2>1 DEF ErasedOK, At, Link
  <2>3. RequestFor(t)'
    BY <2>1 DEF RequestFor, HasRequest
  <2>4. \A h \in links : (h \in reqs => h \in reqs') /\ (h \in ress => h \in ress')
    BY <2>1, <2>2
  <2> QED
    BY <1>0, <2>1, <2>3, <2>4, RequestKept, RequestOfKept
<1>6. ASSUME NEW o \in Ops, CallIo(t, o) PROVE RequestOK'
  <2>1. UNCHANGED <<reqs, ress, nullReq>>
    BY <1>6, CallIoEffect
  <2>2. ASSUME NEW p \in Ops PROVE RequestOf(p)'
    <3>1. CASE p = o
      BY <1>6, <3>1, CallIoEffect DEF RequestOf, Active
    <3>2. CASE p # o
      BY <1>0, <1>6, <2>1, <3>2, CallIoEffect, RequestOfKept
    <3> QED
      BY <3>1, <3>2
  <2>3. RequestFor(t)'
    <3>1. CASE ops[o].io = "ok" /\ ops[o].kind = "recv" /\ o \notin nullReq /\ frame'[t].h \in links
      <4>1. frame'[t].h = ops[o].h /\ hpc'[t] = "received"
        BY <1>6, <3>1, CallIoEffect, SeesOwn
      <4>2. ops[o].h \in reqs
        BY <3>1, <4>1 DEF RequestOK, RequestOf, Active
      <4> QED
        BY <2>1, <4>1, <4>2 DEF RequestFor, HasRequest
    <3>2. CASE ~(ops[o].io = "ok" /\ ops[o].kind = "recv" /\ o \notin nullReq)
      <4>1. Continue(t, IF ops[o].io = "err" THEN "failed"
                        ELSE IF ops[o].kind = "send" THEN "respond"
                        ELSE IF o \in nullReq THEN "crash" ELSE "received")
        BY <1>6 DEF CallIo
      <4>2. ops[o].io \in {"ok", "err"} /\ ops[o].kind \in {"recv", "send"}
        BY <1>6, CallIoEffect DEF TypeOK, Operation
      <4>3. hpc'[t] \in {"failed", "respond", "crash"}
        BY <3>2, <4>1, <4>2, ContinueOnly
      <4> QED
        BY <4>3 DEF RequestFor, HasRequest
    <3>3. CASE frame'[t].h \notin links
      BY <1>0, <3>3 DEF RequestFor
    <3> QED
      BY <3>1, <3>2, <3>3
  <2> QED
    BY <1>0, <2>1, <2>2, <2>3, RequestKept
<1>7. ASSUME NEW o \in Ops, CallTimeOut(t, o) PROVE RequestOK'
  <2>1. UNCHANGED <<reqs, ress, nullReq>> /\ hpc'[t] = "failed"
    BY <1>7, CallTimeOutEffect
  <2>2. \A p \in Ops : RequestOf(p)'
    BY <1>0, <1>7, <2>1, CallTimeOutEffect, RequestOfKept
  <2>3. RequestFor(t)'
    BY <2>1 DEF RequestFor, HasRequest
  <2> QED
    BY <1>0, <2>1, <2>2, <2>3, RequestKept
<1> QED
  BY <1>2, <1>3, <1>4, <1>5, <1>6, <1>7, RequestInside, HandlerCases DEF Handles1

LEMMA RequestApp ==
  ASSUME Sound, RequestOK, NEW t \in Apps, HttpApp(t)
  PROVE  RequestOK'
<1> TypeOK /\ HttpTypeOK /\ ClosingOK /\ PointsOK
  BY DEF Sound
<1>0. t \in Threads /\ UNCHANGED <<reqs, ress, nullReq>>
  BY AppCases
<1>1. CASE UNCHANGED <<vars, hpc>>
  BY <1>0, <1>1 DEF RequestOK, RequestFor, RequestOf, vars, linkVars, opVars
<1>2. ASSUME Bystanders(t), UNCHANGED <<links, ops>>, hpc'[t] \notin HasRequest
      PROVE  RequestOK'
  <2>1. RequestFor(t)'
    BY <1>2 DEF RequestFor, HasRequest
  <2> QED
    BY <1>0, <1>2, <2>1, RequestKept, RequestOfKept
<1>3. CASE StopClosedServer(t)
  BY <1>0, <1>2, <1>3, StopEffect, IdleFits DEF HasRequest
<1>4. ASSUME NEW h \in Handles, AppCloseLink(t, h), Continue(t, "closing") PROVE RequestOK'
  BY <1>0, <1>2, <1>4, AppCloseEffect DEF HasRequest
<1> QED
  BY <1>1, <1>3, <1>4, AppCases

LEMMA RequestTcpOnly ==
  ASSUME OneServer, Sound, KnownOK, RequestOK, TcpOnly
  PROVE  RequestOK'
<1> TypeOK /\ HttpTypeOK /\ PointsOK /\ OpsFresh
  BY DEF Sound
<1>0. UNCHANGED <<hpc, reqs, ress, nullReq>> /\ \A h \in links : h # None
  BY TcpOnlyCases, LinksKnown DEF httpVars
<1>1. ASSUME NEW t \in Threads, links' \subseteq links, UNCHANGED ops,
             \A u \in Threads : u # t => frame'[u] = frame[u],
             frame'[t].h \in {frame[t].h, None}
      PROVE  RequestOK'
  <2>1. ASSUME NEW u \in Threads PROVE RequestFor(u)'
    BY <1>0, <1>1 DEF RequestOK, RequestFor
  <2>2. \A o \in Ops : RequestOf(o)'
    BY <1>0, <1>1 DEF RequestOK, RequestOf
  <2> QED
    BY <2>1, <2>2 DEF RequestOK
<1>2. ASSUME NEW t \in Threads, CallOnly(t) \/ EraseLink(t) PROVE RequestOK'
  BY <1>1, <1>2, CallOnlyEffect, EraseEffect, NewFrame
<1>3. ASSUME NEW t \in Threads, NEW s \in Servers, AcceptOk(t, s) PROVE RequestOK'
  <2>1. /\ \A u \in Threads : u # t => frame'[u] = frame[u]
        /\ links' = links \cup {nlinks + 1} /\ ops' = ops /\ hpc[t] = "none"
    BY <1>3, AcceptOkEffect, IdleFits
  <2>2. (\A u \in Threads : frame[u].h # nlinks + 1) /\ \A o \in Ops : ops[o].h # nlinks + 1
    BY AllKnown
  <2>3. ASSUME NEW u \in Threads PROVE RequestFor(u)'
    <3>1. CASE u = t
      BY <1>0, <2>1, <3>1 DEF RequestFor, HasRequest
    <3>2. CASE u # t
      BY <1>0, <2>1, <2>2, <3>2 DEF RequestOK, RequestFor
    <3> QED
      BY <3>1, <3>2
  <2>4. \A o \in Ops : RequestOf(o)'
    BY <1>0, <2>1, <2>2 DEF RequestOK, RequestOf
  <2> QED
    BY <2>3, <2>4 DEF RequestOK
<1>4. ASSUME NEW t \in Apps, NEW s \in Servers, StartServer(t, s) PROVE RequestOK'
  <2>1. t \in Threads
    BY DEF Threads
  <2>2. frame'[t].h \in {frame[t].h, None}
    BY <1>4, <2>1, StartServerEffect
  <2> QED
    BY <1>1, <1>4, <2>1, <2>2, StartServerEffect
<1>5. ASSUME UNCHANGED <<frame, links>>, \A o \in Ops : RequestOf(o)' PROVE RequestOK'
  BY <1>0, <1>5 DEF RequestOK, RequestFor
<1>6. ASSUME NEW t \in Threads, NEW s \in Servers, AcceptError(t, s) PROVE RequestOK'
  BY <1>0, <1>5, <1>6, RequestOfKept DEF AcceptError, linkVars, opVars
<1>7. ASSUME NEW t \in Threads, NEW o \in Ops, RunPartial(t, o) PROVE RequestOK'
  <2>1. ASSUME NEW p \in Ops PROVE RequestOf(p)'
    <3>1. CASE p = o
      BY <1>7, <3>1, PartialEffect DEF RequestOf, Active
    <3>2. CASE p = nops + 1
      BY <1>7, <3>2, PartialEffect DEF RequestOf
    <3>3. CASE p # o /\ p # nops + 1
      BY <1>0, <1>7, <3>3, PartialEffect, RequestOfKept
    <3> QED
      BY <3>1, <3>2, <3>3
  <2> QED
    BY <1>5, <1>7, <2>1, PartialEffect
<1>8. Environment => RequestOK'
  BY <1>0, <1>5, EnvironmentEffect, RequestOfKept
<1> QED
  BY <1>2, <1>3, <1>4, <1>6, <1>7, <1>8, TcpOnlyCases

LEMMA RequestCorrect ==
  ASSUME "reused" \notin StaleReads, OneServer
  PROVE  HttpSpec => []RequestOK
<1>1. HttpInit => RequestOK
  BY DEF HttpInit, Init, RequestOK, RequestFor, RequestOf
<1>2. Sound /\ KnownOK /\ SerialOK /\ ErasedOK /\ RequestOK /\ [HttpNext]_hvars => RequestOK'
  <2>1. UNCHANGED hvars /\ RequestOK => RequestOK'
    BY DEF hvars, vars, httpVars, linkVars, opVars, RequestOK, RequestFor, RequestOf
  <2> QED
    BY <2>1, RequestHandler, RequestApp, RequestTcpOnly DEF HttpNext
<1> QED
  BY <1>1, <1>2, SoundCorrect, KnownCorrect, SerialCorrect, ErasedCorrect, PTL DEF HttpSpec

\* server_handler looks up the request and the response of its link without a check
\* (http_service_impl.cpp): they are there while the link is registered, whatever other
\* threads close, as long as no handler reads another link's handle and close_server
\* makes up no handle of a link still to come.
THEOREM RequestsAtHand ==
  ASSUME "reused" \notin StaleReads, OneServer
  PROVE  HttpSpec => []RequestAtHand
<1>1. RequestOK => RequestAtHand
  BY DEF RequestOK, RequestFor, RequestAtHand, HasRequest, In, Link
<1> QED
  BY <1>1, RequestCorrect, PTL
-----------------------------------------------------------------------------
(* What a receive is bound to.                                             *)

\* From server_handler to the next receive the application has the link, and between
\* delete_req and new_req the link has no request; what a thread knows of its link passes
\* to the operation it starts.  Only a send completes in part, and goes on as one.
Answered == {"serving", "respond", "read", "await_null", "send"}
Dropped == {"read", "await_null"}
BoundFor(t) ==
  frame[t].h \in links => /\ hpc[t] \in Answered => frame[t].h \in given
                          /\ hpc[t] \in Dropped => frame[t].h \notin reqs
BoundOf(o) ==
  ops[o].h \in links /\ ops[o].io \in Active =>
    /\ ops[o].io = "partial" => ops[o].kind = "send"
    /\ ops[o].kind = "send" => ops[o].h \in given
    /\ o \in nullReq => ops[o].h \in given \ reqs
BoundOK == (\A t \in Threads : BoundFor(t)) /\ \A o \in Ops : BoundOf(o)

\* What every step does that puts no request of a registered link in the map.
LEMMA BoundKept ==
  ASSUME BoundOK, NEW t \in Threads, UNCHANGED links, given \subseteq given',
         \A h \in links : h \in reqs' => h \in reqs,
         Bystanders(t), BoundFor(t)', \A o \in Ops : BoundOf(o)'
  PROVE  BoundOK'
BY DEF BoundOK, BoundFor, Bystanders

LEMMA BoundOfKept ==
  ASSUME BoundOK, NEW o \in Ops, UNCHANGED links, given \subseteq given',
         o \in nullReq' => o \in nullReq,
         \A h \in links : h \in reqs' => h \in reqs,
         ops'[o].h = ops[o].h, ops'[o].kind = ops[o].kind,
         ops'[o].io \in Active => ops[o].io \in Active,
         ops'[o].io = "partial" => ops[o].io = "partial" \/ ops[o].kind = "send"
  PROVE  BoundOf(o)'
BY DEF BoundOK, BoundOf

LEMMA BoundInside ==
  ASSUME Sound, SerialOK, BoundOK, NEW t \in Threads, Inside(t)
  PROVE  BoundOK'
<1> TypeOK /\ HttpTypeOK
  BY DEF Sound
<1>0. Bystanders(t) /\ UNCHANGED <<frame, ops, links, nullReq>> /\ BoundFor(t)
      /\ hpc[t] \in Serving
  BY InsideEffect DEF vars, linkVars, opVars, BoundOK
<1>1. ASSUME reqs' \subseteq reqs, given \subseteq given', BoundFor(t)'
      PROVE  BoundOK'
  BY <1>0, <1>1, BoundKept, BoundOfKept
\* new_req: nobody else has the link's exchange.
<1>2. ASSUME reqs' \subseteq reqs \cup {frame[t].h}, given' = given, hpc'[t] = "await"
      PROVE  BoundOK'
  <2>1. frame[t].h \in links =>
          /\ \A u \in Threads : frame[u].h = frame[t].h /\ hpc[u] \in Dropped => u = t
          /\ \A o \in Ops : ~ByOp(o, frame[t].h)
    <3> SUFFICES ASSUME frame[t].h \in links
                 PROVE  /\ \A u \in Threads : frame[u].h = frame[t].h /\ hpc[u] \in Dropped => u = t
                        /\ \A o \in Ops : ~ByOp(o, frame[t].h)
      OBVIOUS
    <3>1. Carries(t, frame[t].h)
      BY <1>0 DEF Carries
    <3>2. \A u \in Threads : frame[u].h = frame[t].h /\ hpc[u] \in Dropped
                            => Carries(u, frame[t].h)
      BY DEF Carries, Serving, Dropped
    <3> QED
      BY <3>1, <3>2 DEF SerialOK
  <2>2. ASSUME NEW u \in Threads PROVE BoundFor(u)'
    <3>1. CASE u = t
      BY <1>2, <3>1 DEF BoundFor, Answered, Dropped
    <3>2. CASE u # t
      BY <1>0, <1>2, <2>1, <3>2 DEF BoundFor, BoundOK, Bystanders
    <3> QED
      BY <3>1, <3>2
  <2>3. ASSUME NEW o \in Ops PROVE BoundOf(o)'
    BY <1>0, <1>2, <2>1 DEF BoundOf, BoundOK, ByOp
  <2> QED
    BY <2>2, <2>3 DEF BoundOK
<1>3. CASE AcceptHandler(t)
  <2>1. /\ given' = given
        /\ \/ hpc'[t] = "await" /\ reqs' = reqs \cup {frame[t].h}
           \/ hpc'[t] = "failed" /\ reqs' = reqs
    BY <1>3, ContinueOnly DEF AcceptHandler, Link
  <2> QED
    BY <1>1, <1>2, <2>1 DEF BoundFor, Answered, Dropped
<1>4. CASE ParseRequest(t)
  <2>1. UNCHANGED <<reqs, given>> /\ hpc'[t] \in {"await", "failed", "deal"}
    BY <1>4, ContinueOnly DEF ParseRequest
  <2> QED
    BY <1>1, <2>1 DEF BoundFor, Answered, Dropped
<1>5. CASE DealRequest(t)
  <2>1. /\ reqs' = reqs /\ given \subseteq given'
        /\ \/ hpc'[t] = "serving" /\ frame[t].h \in given'
           \/ hpc'[t] = "failed"
    BY <1>5, ContinueOnly DEF DealRequest, Link
  <2> QED
    BY <1>0, <1>1, <2>1 DEF BoundFor, Answered, Dropped
<1>6. CASE ServerHandler(t)
  <2>1. /\ UNCHANGED <<reqs, given>>
        /\ \/ hpc[t] = "serving" /\ hpc'[t] = "respond"
           \/ hpc'[t] = "failed"
    BY <1>6, ContinueOnly DEF ServerHandler, Aside, In
  <2> QED
    BY <1>0, <1>1, <2>1 DEF BoundFor, Answered, Dropped
<1>7. CASE DropRequest(t)
  <2>1. /\ given' = given /\ reqs' = reqs \ {frame[t].h}
        /\ hpc[t] = "respond" /\ hpc'[t] = "read"
    BY <1>7, ContinueOnly DEF DropRequest, Aside, In, Link
  <2> QED
    BY <1>0, <1>1, <2>1 DEF BoundFor, Answered
<1>8. CASE ReadContent(t)
  <2>1. /\ given' = given /\ hpc[t] = "read"
        /\ \/ hpc'[t] \in {"send", "failed", "refused", "await_null"} /\ reqs' = reqs
           \/ hpc'[t] = "await" /\ reqs' = reqs \cup {frame[t].h}
    BY <1>8, ContinueOnly DEF ReadContent, Aside, In, Link
  <2> QED
    BY <1>0, <1>1, <1>2, <2>1 DEF BoundFor, Answered, Dropped
<1> QED
  BY <1>3, <1>4, <1>5, <1>6, <1>7, <1>8 DEF Inside

LEMMA BoundHandler ==
  ASSUME Sound, SerialOK, BoundOK, "reused" \notin StaleReads,
         NEW t \in Threads, HttpHandler(t)
  PROVE  BoundOK'
<1> TypeOK /\ HttpTypeOK /\ PointsOK
  BY DEF Sound
<1>0. Bystanders(t) /\ UNCHANGED links /\ BoundFor(t) /\ Fits(frame[t], hpc[t])
  BY HandlerEffect DEF PointsOK, BoundOK
<1>1. ASSUME UNCHANGED <<ops, given, nullReq>>, reqs' \subseteq reqs,
             hpc'[t] \notin Answered
      PROVE  BoundOK'
  <2>1. BoundFor(t)'
    BY <1>1 DEF BoundFor, Answered, Dropped
  <2> QED
    BY <1>0, <1>1, <2>1, BoundKept, BoundOfKept
<1>2. CASE CallAccept(t) \/ OperationRefused(t) \/ CloseLink(t) \/ HandlerReturns(t)
  <2>1. UNCHANGED <<ops, reqs, given, nullReq>>
    BY <1>2, CallAcceptEffect, RefusedEffect, CloseLinkEffect, ReturnsEffect DEF httpVars
  <2>2. hpc'[t] \in {"accept", "failed", "closing", "none"}
    BY <1>2, CallAcceptEffect, RefusedEffect, CloseLinkEffect, ReturnsEffect DEF httpVars
  <2> QED
    BY <1>1, <2>1, <2>2 DEF Answered
<1>3. CASE CallTcp(t)
  <2>1. UNCHANGED <<ops, reqs, given, nullReq>> /\ frame'[t].h = frame[t].h
    BY <1>3, CallTcpEffect
  <2>2. hpc'[t] \in {hpc[t], "failed"}
    BY <1>3, CallTcpEffect DEF Link
  <2>3. BoundFor(t)'
    BY <1>0, <2>1, <2>2 DEF BoundFor, Answered, Dropped
  <2> QED
    BY <1>0, <2>1, <2>3, BoundKept, BoundOfKept
<1>4. CASE OperationStarted(t)
  <2>1. /\ UNCHANGED <<reqs, given>> /\ hpc'[t] = "none" /\ nops + 1 \in Ops
        /\ nullReq' = nullReq \cup {o \in {nops + 1} : In(t, "await_null")}
    BY <1>4, StartedEffect
  <2>2. BoundFor(t)'
    BY <2>1 DEF BoundFor, Answered, Dropped
  <2>3. ASSUME NEW o \in Ops, o # nops + 1 PROVE BoundOf(o)'
    <3>1. ops'[o] = ops[o] /\ (o \in nullReq' => o \in nullReq)
      BY <1>4, <2>1, <2>3, StartedEffect
    <3> QED
      BY <1>0, <2>1, <3>1, BoundOfKept
  <2>4. ASSUME NEW o \in Ops, o = nops + 1 PROVE BoundOf(o)'
    <3>1. /\ ops'[o].h = frame[t].h /\ ops'[o].kind = frame[t].kind
          /\ ops'[o].io = "pending"
      BY <1>4, <2>4, StartedEffect
    <3>2. frame[t].kind = "send" => hpc[t] = "send"
      BY <1>0, <1>4, StartedEffect DEF Fits
    <3>3. o \in nullReq' => hpc[t] = "await_null"
      BY <2>1, <2>4 DEF In, HttpTypeOK, TypeOK
    <3> QED
      BY <1>0, <2>1, <3>1, <3>2, <3>3 DEF BoundOf, BoundFor, Answered, Dropped
  <2> QED
    BY <1>0, <2>1, <2>2, <2>3, <2>4, BoundKept
<1>5. CASE DeleteReq(t) \/ DeleteRes(t)
  <2>1. UNCHANGED <<ops, given, nullReq>> /\ reqs' \subseteq reqs /\ hpc'[t] \in {"forget", "none"}
    BY <1>5, DeleteEffect DEF vars, opVars
  <2> QED
    BY <1>1, <2>1 DEF Answered
<1>6. ASSUME NEW o \in Ops, CallIo(t, o) PROVE BoundOK'
  <2>1. UNCHANGED <<reqs, given, nullReq>>
    BY <1>6, CallIoEffect
  <2>2. ASSUME NEW p \in Ops PROVE BoundOf(p)'
    <3>1. CASE p = o
      BY <1>6, <3>1, CallIoEffect DEF BoundOf, Active
    <3>2. CASE p # o
      BY <1>0, <1>6, <2>1, <3>2, CallIoEffect, BoundOfKept
    <3> QED
      BY <3>1, <3>2
  <2>3. BoundFor(t)'
    <3>1. CASE ops[o].io = "ok" /\ ops[o].kind = "send" /\ frame'[t].h \in links
      <4>1. frame'[t].h = ops[o].h /\ hpc'[t] = "respond"
        BY <1>6, <3>1, CallIoEffect, SeesOwn
      <4>2. ops[o].h \in given
        BY <3>1, <4>1 DEF BoundOK, BoundOf, Active
      <4> QED
        BY <2>1, <4>1, <4>2 DEF BoundFor, Dropped
    <3>2. CASE ~(ops[o].io = "ok" /\ ops[o].kind = "send")
      <4>1. ops[o].io \in {"ok", "err"} /\ ops[o].kind \in {"recv", "send"}
        BY <1>6, CallIoEffect DEF TypeOK, Operation
      <4>2. hpc'[t] \in {"failed", "crash", "received"}
        BY <1>6, <3>2, <4>1, CallIoEffect
      <4> QED
        BY <4>2 DEF BoundFor, Answered, Dropped
    <3>3. CASE frame'[t].h \notin links
      BY <1>0, <3>3 DEF BoundFor
    <3> QED
      BY <3>1, <3>2, <3>3
  <2> QED
    BY <1>0, <2>1, <2>2, <2>3, BoundKept
<1>7. ASSUME NEW o \in Ops, CallTimeOut(t, o) PROVE BoundOK'
  <2>1. UNCHANGED <<reqs, given, nullReq>> /\ hpc'[t] = "failed"
    BY <1>7, CallTimeOutEffect
  <2>2. \A p \in Ops : BoundOf(p)'
    BY <1>0, <1>7, <2>1, CallTimeOutEffect, BoundOfKept
  <2>3. BoundFor(t)'
    BY <2>1 DEF BoundFor, Answered, Dropped
  <2> QED
    BY <1>0, <2>1, <2>2, <2>3, BoundKept
<1> QED
  BY <1>2, <1>3, <1>4, <1>5, <1>6, <1>7, BoundInside, HandlerCases DEF Handles1

LEMMA BoundApp ==
  ASSUME Sound, BoundOK, NEW t \in Apps, HttpApp(t)
  PROVE  BoundOK'
<1> TypeOK /\ HttpTypeOK /\ ClosingOK /\ PointsOK
  BY DEF Sound
<1>0. t \in Threads /\ UNCHANGED <<reqs, given, nullReq>>
  BY AppCases
<1>1. CASE UNCHANGED <<vars, hpc>>
  BY <1>0, <1>1 DEF BoundOK, BoundFor, BoundOf, vars, linkVars, opVars
<1>2. ASSUME Bystanders(t), UNCHANGED <<links, ops>>, hpc'[t] \notin Answered
      PROVE  BoundOK'
  <2>1. BoundFor(t)'
    BY <1>2 DEF BoundFor, Answered, Dropped
  <2> QED
    BY <1>0, <1>2, <2>1, BoundKept, BoundOfKept
<1>3. CASE StopClosedServer(t)
  BY <1>0, <1>2, <1>3, StopEffect, IdleFits DEF Answered
<1>4. ASSUME NEW h \in Handles, AppCloseLink(t, h), Continue(t, "closing") PROVE BoundOK'
  BY <1>0, <1>2, <1>4, AppCloseEffect DEF Answered
<1> QED
  BY <1>1, <1>3, <1>4, AppCases

LEMMA BoundTcpOnly ==
  ASSUME OneServer, "reused" \notin StaleReads, Sound, KnownOK, BoundOK, TcpOnly
  PROVE  BoundOK'
<1> TypeOK /\ HttpTypeOK /\ PointsOK /\ OpsFresh
  BY DEF Sound
<1>0. UNCHANGED <<hpc, reqs, given, nullReq>> /\ \A h \in links : h # None
  BY TcpOnlyCases, LinksKnown DEF httpVars
<1>1. ASSUME NEW t \in Threads, links' \subseteq links, UNCHANGED ops,
             \A u \in Threads : u # t => frame'[u] = frame[u],
             frame'[t].h \in {frame[t].h, None}
      PROVE  BoundOK'
  <2>1. ASSUME NEW u \in Threads PROVE BoundFor(u)'
    BY <1>0, <1>1 DEF BoundOK, BoundFor
  <2>2. \A o \in Ops : BoundOf(o)'
    BY <1>0, <1>1 DEF BoundOK, BoundOf
  <2> QED
    BY <2>1, <2>2 DEF BoundOK
<1>2. ASSUME NEW t \in Threads, CallOnly(t) \/ EraseLink(t) PROVE BoundOK'
  BY <1>1, <1>2, CallOnlyEffect, EraseEffect, NewFrame
<1>3. ASSUME NEW t \in Threads, NEW s \in Servers, AcceptOk(t, s) PROVE BoundOK'
  <2>1. /\ \A u \in Threads : u # t => frame'[u] = frame[u]
        /\ links' = links \cup {nlinks + 1} /\ ops' = ops /\ hpc[t] = "none"
    BY <1>3, AcceptOkEffect, IdleFits
  <2>2. (\A u \in Threads : frame[u].h # nlinks + 1) /\ \A o \in Ops : ops[o].h # nlinks + 1
    BY AllKnown
  <2>3. ASSUME NEW u \in Threads PROVE BoundFor(u)'
    <3>1. CASE u = t
      BY <1>0, <2>1, <3>1 DEF BoundFor, Answered, Dropped
    <3>2. CASE u # t
      BY <1>0, <2>1, <2>2, <3>2 DEF BoundOK, BoundFor
    <3> QED
      BY <3>1, <3>2
  <2>4. \A o \in Ops : BoundOf(o)'
    BY <1>0, <2>1, <2>2 DEF BoundOK, BoundOf
  <2> QED
    BY <2>3, <2>4 DEF BoundOK
<1>4. ASSUME NEW t \in Apps, NEW s \in Servers, StartServer(t, s) PROVE BoundOK'
  <2>1. t \in Threads
    BY DEF Threads
  <2>2. frame'[t].h \in {frame[t].h, None}
    BY <1>4, <2>1, StartServerEffect
  <2> QED
    BY <1>1, <1>4, <2>1, <2>2, StartServerEffect
<1>5. ASSUME UNCHANGED <<frame, links>>, \A o \in Ops : BoundOf(o)' PROVE BoundOK'
  BY <1>0, <1>5 DEF BoundOK, BoundFor
<1>6. ASSUME NEW t \in Threads, NEW s \in Servers, AcceptError(t, s) PROVE BoundOK'
  BY <1>0, <1>5, <1>6, BoundOfKept DEF AcceptError, linkVars, opVars
\* The rest of a send is a send of the same link.
<1>7. ASSUME NEW t \in Threads, NEW o \in Ops, RunPartial(t, o) PROVE BoundOK'
  <2>1. ASSUME NEW p \in Ops PROVE BoundOf(p)'
    <3>1. CASE p = o
      BY <1>7, <3>1, PartialEffect DEF BoundOf, Active
    <3>2. CASE p = nops + 1
      <4>1. p \notin nullReq
        BY <3>2 DEF HttpTypeOK, TypeOK
      <4>2. ops[o].h \in links => ops[o].h \in given
        BY <1>7, PartialEffect DEF BoundOK, BoundOf, Active
      <4>3. /\ links' = links /\ ops'[p].kind = "send" /\ ops'[p].io = "pending"
            /\ ops'[p].h \in links => ops'[p].h = ops[o].h
        BY <1>7, <3>2, PartialEffect, SeesOwn
      <4> QED
        BY <1>0, <4>1, <4>2, <4>3 DEF BoundOf
    <3>3. CASE p # o /\ p # nops + 1
      BY <1>0, <1>7, <3>3, PartialEffect, BoundOfKept
    <3> QED
      BY <3>1, <3>2, <3>3
  <2> QED
    BY <1>5, <1>7, <2>1, PartialEffect
<1>8. Environment => BoundOK'
  <2> SUFFICES ASSUME Environment PROVE BoundOK'
    OBVIOUS
  <2>1. \A o \in Ops : ops'[o].io = "partial" => ops[o].io = "partial" \/ ops[o].kind = "send"
    <3>1. ops \in [Ops -> Operation]
      BY DEF TypeOK
    <3>2. PICK p \in Ops : IoCompletes(p) \/ TimerExpires(p)
      BY DEF Environment
    <3>3. CASE IoCompletes(p)
      BY <3>1, <3>3 DEF IoCompletes, Operation
    <3>4. CASE TimerExpires(p)
      BY <3>1, <3>4 DEF TimerExpires, Operation
    <3> QED
      BY <3>2, <3>3, <3>4
  <2> QED
    BY <1>0, <1>5, <2>1, EnvironmentEffect, BoundOfKept
<1> QED
  BY <1>2, <1>3, <1>4, <1>6, <1>7, <1>8, TcpOnlyCases

\* A receive of a registered link is bound to the request in req_map_, or to a null one
\* (send_response does not check what new_req returns, http_service_impl.cpp); a null one
\* only after an exchange of the link was served, and while the map has none for it: as
\* long as no handler reads another link's handle and close_server makes up no handle of
\* a link still to come.
THEOREM RequestsBound ==
  ASSUME "reused" \notin StaleReads, OneServer
  PROVE  HttpSpec => []BoundRequests
<1>1. HttpInit => BoundOK
  BY DEF HttpInit, Init, BoundOK, BoundFor, BoundOf, Answered, Dropped
<1>2. Sound /\ KnownOK /\ SerialOK /\ BoundOK /\ [HttpNext]_hvars => BoundOK'
  <2>1. UNCHANGED hvars /\ BoundOK => BoundOK'
    BY DEF hvars, vars, httpVars, linkVars, opVars, BoundOK, BoundFor, BoundOf
  <2> QED
    BY <2>1, BoundHandler, BoundApp, BoundTcpOnly DEF HttpNext
<1>3. RequestOK /\ BoundOK => BoundRequests
  BY DEF RequestOK, RequestOf, BoundOK, BoundOf, BoundRequests, Active
<1> QED
  BY <1>1, <1>2, <1>3, SoundCorrect, KnownCorrect, SerialCorrect, RequestCorrect, PTL
     DEF HttpSpec
-----------------------------------------------------------------------------
(* Nothing is left behind.                                                 *)

\* Thread t has link h in hand; at a point where it deletes the link's objects or will
\* find the link gone, it also minds it.
ReqPoints == Serving \cup {"failed", "closing", "crash"}
ResPoints == Serving \cup {"failed", "closing", "forget", "crash"}
Holds(t, h, points) == Link(t) = h /\ ~At(t, "idle") /\ hpc[t] \in points
Minds(t, h, points) == Holds(t, h, points) /\ ~At(t, "arm")

\* An operation of a link that is gone may read another handle and lose it, so somebody
\* else minds the link; close_server's made-up handles leave nobody who does.
Cared(h, points) ==
  /\ (\E t \in Threads : Holds(t, h, points)) \/ \E o \in Ops : ByOp(o, h)
  /\ ~CloseServers /\ h \notin links => \E t \in Threads : Minds(t, h, points)
LeakOK ==
  /\ \A h \in reqs : Cared(h, ReqPoints)
  /\ \A h \in ress : Cared(h, ResPoints)

HandleIntact == CloseServers => StaleReads \subseteq {"intact"}

LEMMA CaredKept ==
  ASSUME NEW h, NEW points, Cared(h, points), NEW t \in Threads, Bystanders(t),
         ~CloseServers /\ h \notin links' => h \notin links,
         Holds(t, h, points) => Holds(t, h, points)',
         h \notin links' /\ Minds(t, h, points) => Minds(t, h, points)',
         \A o \in Ops : ByOp(o, h) => \E p \in Ops : ByOp(p, h)'
  PROVE  Cared(h, points)'
<1>1. \A u \in Threads : u # t => (Holds(u, h, points) => Holds(u, h, points)')
                                 /\ (Minds(u, h, points) => Minds(u, h, points)')
  BY DEF Holds, Minds, Bystanders, Link, At
<1>2. (\E u \in Threads : Holds(u, h, points)') \/ \E o \in Ops : ByOp(o, h)'
  BY <1>1 DEF Cared
<1>3. ~CloseServers /\ h \notin links' => \E u \in Threads : Minds(u, h, points)'
  BY <1>1 DEF Cared
<1> QED
  BY <1>2, <1>3 DEF Cared

\* A thread that minds a link cares for it, whatever the others do.
LEMMA CaredByThread ==
  ASSUME NEW h, NEW points, NEW t \in Threads, Minds(t, h, points)'
  PROVE  Cared(h, points)'
BY DEF Cared, Minds

LEMMA CaredStarted ==
  ASSUME Sound, NEW h, NEW points, Cared(h, points), NEW t \in Threads, OperationStarted(t)
  PROVE  Cared(h, points)'
<1> TypeOK /\ HttpTypeOK
  BY DEF Sound
<1>1. Bystanders(t) /\ links' = links /\ frame[t].pc = "arm"
  BY StartedEffect
<1>2. \A o \in Ops : ByOp(o, h) /\ o # nops + 1 => ByOp(o, h)'
  BY StartedEffect DEF ByOp
<1>3. Holds(t, h, points) \/ ByOp(nops + 1, h) => \E p \in Ops : ByOp(p, h)'
  <2>1. ~ByOp(nops + 1, h)
    BY StartedEffect, LinksKnown DEF ByOp, Sound, OpsFresh, Active, TypeOK, Ops
  <2>2. ASSUME Holds(t, h, points) PROVE \E p \in Ops : ByOp(p, h)'
    <3>1. /\ nops + 1 \in Ops /\ ops'[nops + 1].h = h
          /\ ops'[nops + 1].io \in Active
      BY <2>2, StartedEffect DEF Holds, Link, Active
    <3> QED
      BY <3>1 DEF ByOp
  <2> QED
    BY <2>1, <2>2
<1>4. \A u \in Threads : u # t => (Holds(u, h, points) => Holds(u, h, points)')
                                 /\ (Minds(u, h, points) => Minds(u, h, points)')
  BY <1>1 DEF Holds, Minds, Bystanders, Link, At
<1>5. ~Minds(t, h, points)
  BY <1>1 DEF Minds, At
<1>6. (\E u \in Threads : Holds(u, h, points)') \/ \E o \in Ops : ByOp(o, h)'
  BY <1>2, <1>3, <1>4 DEF Cared
<1>7. ~CloseServers /\ h \notin links' => \E u \in Threads : Minds(u, h, points)'
  BY <1>1, <1>4, <1>5 DEF Cared
<1> QED
  BY <1>6, <1>7 DEF Cared

\* A handler that does not find its own handle lost a link that others mind.
LEMMA LostMinded ==
  ASSUME HandleIntact, NEW h, NEW points, Cared(h, points), NEW o \in Ops, ops[o].h = h,
         NEW seen \in HandlesSeen(o), seen # h
  PROVE  \E u \in Threads : Minds(u, h, points)
<1>1. h \notin links
  BY DEF HandlesSeen, Exists
<1>2. ~CloseServers
  <2>1. ASSUME StaleReads \subseteq {"intact"} PROVE FALSE
    BY <2>1 DEF HandlesSeen
  <2> QED
    BY <2>1 DEF HandleIntact
<1> QED
  BY <1>1, <1>2 DEF Cared

\* The operation hands its link over to the thread, or others mind the link.
LEMMA CaredAnswered ==
  ASSUME Sound, HandleIntact, NEW h, NEW points \in {ReqPoints, ResPoints}, Cared(h, points),
         NEW t \in Threads, NEW o \in Ops, CallIo(t, o)
  PROVE  Cared(h, points)'
<1> TypeOK /\ HttpTypeOK
  BY DEF Sound
<1>1. /\ Bystanders(t) /\ links' = links /\ IsIdle(t) /\ frame'[t].pc = "client"
      /\ frame'[t].h \in HandlesSeen(o)
  BY CallIoEffect
<1>2. \A p \in Ops : ByOp(p, h) /\ p # o => ByOp(p, h)'
  BY CallIoEffect DEF ByOp
<1>3. ~Holds(t, h, points) /\ ~Minds(t, h, points)
  BY <1>1, NewFrame DEF Holds, Minds, IsIdle, At
<1>4. CASE frame'[t].h = h
  <2>1. Continue(t, IF ops[o].io = "err" THEN "failed"
                    ELSE IF ops[o].kind = "send" THEN "respond"
                    ELSE IF o \in nullReq THEN "crash" ELSE "received")
    BY DEF CallIo
  <2>2. hpc'[t] \in points
    BY <2>1, ContinueOnly DEF ReqPoints, ResPoints, Serving
  <2>3. Minds(t, h, points)'
    BY <1>1, <1>4, <2>2 DEF Minds, Holds, Link, At
  <2> QED
    BY <2>3, CaredByThread
<1>5. CASE ops[o].h # h
  <2>1. \A p \in Ops : ByOp(p, h) => ByOp(p, h)'
    BY <1>2, <1>5 DEF ByOp
  <2> QED
    BY <1>1, <1>3, <2>1, CaredKept
<1>6. CASE ops[o].h = h /\ frame'[t].h # h
  <2>3. PICK u \in Threads : Minds(u, h, points)
    BY <1>1, <1>6, LostMinded
  <2>4. Minds(u, h, points)'
    BY <1>1, <1>3, <2>3 DEF Minds, Holds, Bystanders, Link, At
  <2> QED
    BY <2>4, CaredByThread
<1> QED
  BY <1>4, <1>5, <1>6

\* The handlers, but for the two that delete an object.
LEMMA CaredHandler ==
  ASSUME Sound, HandleIntact, NEW h, NEW points \in {ReqPoints, ResPoints}, Cared(h, points),
         NEW t \in Threads, HttpHandler(t), ~DeleteReq(t), ~DeleteRes(t)
  PROVE  Cared(h, points)'
<1> TypeOK /\ HttpTypeOK
  BY DEF Sound
<1>0. Bystanders(t) /\ links' = links
  BY HandlerEffect
<1>p. Serving \cup {"failed", "closing", "crash"} \subseteq points /\ "none" \notin points
  BY DEF ReqPoints, ResPoints, Serving
<1>1. ASSUME UNCHANGED ops, Holds(t, h, points) => Holds(t, h, points)',
             h \notin links /\ Minds(t, h, points) => Minds(t, h, points)'
      PROVE  Cared(h, points)'
  BY <1>0, <1>1, CaredKept DEF ByOp
<1>2. CASE CallAccept(t) \/ Inside(t) \/ OperationRefused(t) \/ CloseLink(t)
  <2>1. /\ UNCHANGED ops /\ frame'[t].h = frame[t].h /\ frame'[t].pc \in {"client", "erase"}
        /\ hpc'[t] \in Serving \cup {"failed", "closing"}
    BY <1>2, CallAcceptEffect, InsideEffect, RefusedEffect, CloseLinkEffect
       DEF vars, opVars, Serving
  <2> QED
    BY <1>1, <1>p, <2>1 DEF Holds, Minds, Link, At
<1>3. CASE CallTcp(t)
  <2>1. UNCHANGED ops /\ frame'[t].h = frame[t].h
    BY <1>3, CallTcpEffect
  <2>2. CASE Link(t) \in links
    <3>1. frame'[t].pc = "arm" /\ hpc'[t] = hpc[t]
      BY <1>3, <2>2, CallTcpEffect
    <3> QED
      BY <1>1, <2>1, <2>2, <3>1 DEF Holds, Minds, Link, At
  <2>3. CASE Link(t) \notin links
    <3>1. frame'[t].pc = "client" /\ hpc'[t] = "failed"
      BY <1>3, <2>3, CallTcpEffect
    <3> QED
      BY <1>1, <1>p, <2>1, <3>1 DEF Holds, Minds, Link, At
  <2> QED
    BY <2>2, <2>3
<1>4. CASE HandlerReturns(t)
  BY <1>1, <1>4, <1>p, ReturnsEffect DEF Holds, Minds
<1>5. ASSUME NEW o \in Ops, CallTimeOut(t, o) PROVE Cared(h, points)'
  <2>1. ~Holds(t, h, points) /\ ~Minds(t, h, points)
    BY <1>5, CallTimeOutEffect, NewFrame DEF Holds, Minds, IsIdle, At
  <2>2. \A p \in Ops : ByOp(p, h) => ByOp(p, h)'
    BY <1>5, CallTimeOutEffect DEF ByOp
  <2> QED
    BY <1>0, <2>1, <2>2, CaredKept
<1> QED
  BY <1>2, <1>3, <1>4, <1>5, CaredStarted, CaredAnswered, HandlerCases DEF Handles1

LEMMA CaredDelete ==
  ASSUME Sound, NEW h, NEW points \in {ReqPoints, ResPoints}, Cared(h, points),
         NEW t \in Threads, DeleteReq(t) \/ DeleteRes(t),
         ~(hpc[t] = "closing" /\ points = ReqPoints /\ h = Link(t)),
         ~(hpc[t] = "forget" /\ points = ResPoints /\ h = Link(t))
  PROVE  Cared(h, points)'
<1> TypeOK /\ HttpTypeOK
  BY DEF Sound
<1>1. /\ Bystanders(t) /\ UNCHANGED <<frame, links, ops>>
      /\ \/ hpc[t] = "closing" /\ hpc'[t] = "forget"
         \/ hpc[t] = "forget" /\ hpc'[t] = "none"
  BY DeleteEffect DEF vars, linkVars, opVars
<1>2. "forget" \notin ReqPoints /\ "forget" \in ResPoints
  BY DEF ReqPoints, ResPoints, Serving
<1>3. Holds(t, h, points) => Holds(t, h, points)'
  BY <1>1, <1>2 DEF Holds, Link, At
<1> QED
  BY <1>1, <1>3, CaredKept DEF Minds, At, ByOp

LEMMA LeakHandler ==
  ASSUME Sound, HandleIntact, LeakOK, NEW t \in Threads, HttpHandler(t)
  PROVE  LeakOK'
<1> TypeOK /\ HttpTypeOK
  BY DEF Sound
<1>1. CASE DeleteReq(t) \/ DeleteRes(t)
  <2>1. \/ hpc[t] = "closing" /\ reqs' = reqs \ {Link(t)} /\ ress' = ress
        \/ hpc[t] = "forget" /\ reqs' = reqs /\ ress' = ress \ {Link(t)}
    BY <1>1, DeleteEffect
  <2>2. ReqPoints # ResPoints
    BY DEF ReqPoints, ResPoints, Serving
  <2>3. ASSUME NEW h \in reqs' PROVE Cared(h, ReqPoints)'
    BY <1>1, <2>1, <2>2, <2>3, CaredDelete DEF LeakOK
  <2>4. ASSUME NEW h \in ress' PROVE Cared(h, ResPoints)'
    BY <1>1, <2>1, <2>2, <2>4, CaredDelete DEF LeakOK
  <2> QED
    BY <2>3, <2>4 DEF LeakOK
<1>2. CASE ~DeleteReq(t) /\ ~DeleteRes(t)
  <2>1. /\ \A h \in reqs : Cared(h, ReqPoints)'
        /\ \A h \in ress : Cared(h, ResPoints)'
    BY <1>2, CaredHandler DEF LeakOK
  <2>2. CASE Inside(t)
    <3>1. reqs' \subseteq reqs \cup {Link(t)} /\ ress' \subseteq ress \cup {Link(t)}
      BY <2>2 DEF Inside, AcceptHandler, ParseRequest, DealRequest, ServerHandler,
         DropRequest, ReadContent
    <3>2. frame' = frame /\ frame[t].pc = "client" /\ hpc'[t] \in Serving \cup {"failed"}
      BY <2>2, InsideEffect DEF vars
    <3>3. Minds(t, Link(t), ReqPoints)' /\ Minds(t, Link(t), ResPoints)'
      BY <3>2 DEF Minds, Holds, Link, At, ReqPoints, ResPoints
    <3>4. \A h : h = Link(t) => Minds(t, h, ReqPoints)' /\ Minds(t, h, ResPoints)'
      BY <3>2 DEF Minds, Holds, Link, At, ReqPoints, ResPoints
    <3>5. \A h : h = Link(t) => Cared(h, ReqPoints)' /\ Cared(h, ResPoints)'
      BY <3>4, CaredByThread
    <3> QED
      BY <2>1, <3>1, <3>5 DEF LeakOK
  <2>3. CASE ~Inside(t)
    <3>1. UNCHANGED <<reqs, ress>>
      BY <1>2, <2>3, HandlerCases, CallAcceptEffect, CallTcpEffect, StartedEffect, RefusedEffect,
         CloseLinkEffect, ReturnsEffect, CallIoEffect, CallTimeOutEffect DEF Handles1, httpVars
    <3> QED
      BY <2>1, <3>1 DEF LeakOK
  <2> QED
    BY <2>2, <2>3
<1> QED
  BY <1>1, <1>2

LEMMA LeakApp ==
  ASSUME Sound, LeakOK, NEW t \in Apps, HttpApp(t)
  PROVE  LeakOK'
<1> TypeOK /\ HttpTypeOK /\ ClosingOK
  BY DEF Sound
<1>0. t \in Threads /\ UNCHANGED <<reqs, ress>>
  BY AppCases
<1>1. CASE UNCHANGED <<vars, hpc>>
  BY <1>0, <1>1 DEF LeakOK, Cared, Minds, Holds, ByOp, Link, At, vars, linkVars, opVars
<1>2. ASSUME Bystanders(t), IsIdle(t), UNCHANGED <<links, ops>>,
             NEW h, NEW points, Cared(h, points)
      PROVE  Cared(h, points)'
  <2>1. ~Holds(t, h, points)
    BY <1>2, NewFrame DEF Holds, IsIdle, At
  <2> QED
    BY <1>0, <1>2, <2>1, CaredKept DEF Minds, ByOp
<1>3. CASE StopClosedServer(t)
  BY <1>0, <1>2, <1>3, StopEffect DEF LeakOK
<1>4. ASSUME NEW g \in Handles, AppCloseLink(t, g), Continue(t, "closing") PROVE LeakOK'
  BY <1>0, <1>2, <1>4, AppCloseEffect DEF LeakOK
<1> QED
  BY <1>1, <1>3, <1>4, AppCases

LEMMA CaredTcpOnly ==
  ASSUME Sound, HandleIntact, ServersStay, NEW h, NEW points \in {ReqPoints, ResPoints}, Cared(h, points), TcpOnly
  PROVE  Cared(h, points)'
<1> TypeOK /\ HttpTypeOK /\ PointsOK /\ OpsFresh
  BY DEF Sound
<1>0. UNCHANGED hpc
  BY TcpOnlyCases DEF httpVars
<1>p. "closing" \in points /\ "none" \notin points
  BY DEF ReqPoints, ResPoints, Serving
<1>1. ASSUME NEW t \in Threads, EraseLink(t) PROVE Cared(h, points)'
  <2>1. /\ frame[t].pc = "erase" /\ frame'[t].pc = "unrelate" /\ frame'[t].h = frame[t].h
        /\ links' = links \ {frame[t].h} /\ hpc[t] = "closing" /\ ops' = ops /\ Bystanders(t)
    BY <1>0, <1>1, EraseEffect DEF PointsOK, Fits, Bystanders
  <2>2. CASE h = Link(t)
    <3>1. Minds(t, h, points)'
      BY <1>0, <1>p, <2>1, <2>2 DEF Minds, Holds, Link, At
    <3> QED
      BY <3>1, CaredByThread
  <2>3. CASE h # Link(t)
    BY <2>1, <2>3, CaredKept DEF Minds, Holds, ByOp, Link
  <2> QED
    BY <2>2, <2>3
<1>2. ASSUME NEW t \in Threads, CallOnly(t) PROVE Cared(h, points)'
  <2>1. Fits(frame[t], hpc[t])
    BY DEF PointsOK
  <2>2. Bystanders(t) /\ ops' = ops /\ (~CloseServers => links' = links)
    BY <1>0, <1>2, CallOnlyEffect DEF Bystanders, ServersStay
  <2>3. CASE frame[t].pc = "unrelate"
    <3>1. frame'[t].pc = "back" /\ frame'[t].h = frame[t].h
      BY <1>2, <2>3, CallOnlyEffect
    <3> QED
      BY <1>0, <2>2, <3>1, CaredKept DEF Minds, Holds, ByOp, Link, At
  <2>4. CASE frame[t].pc # "unrelate"
    <3>1. frame[t].pc \in {"register", "srv_drop", "snapshot", "srv_erase", "srv_unrelate"}
      BY <1>2, <2>4, CallOnlyEffect
    <3>2. hpc[t] = "none"
      BY <2>1, <3>1 DEF Fits
    <3> QED
      BY <1>p, <2>2, <3>2, CaredKept DEF Minds, Holds, ByOp
  <2> QED
    BY <2>3, <2>4
<1>3. ASSUME NEW t \in Threads, IsIdle(t), \A u \in Threads : u # t => frame'[u] = frame[u],
             links \subseteq links', ops' = ops
      PROVE  Cared(h, points)'
  <2>1. ~Holds(t, h, points)
    BY <1>3, NewFrame DEF Holds, IsIdle, At
  <2> QED
    BY <1>0, <1>3, <2>1, CaredKept DEF Minds, ByOp, Bystanders
<1>4. ASSUME NEW t \in Threads, NEW s \in Servers, AcceptOk(t, s) PROVE Cared(h, points)'
  BY <1>3, <1>4, AcceptOkEffect
<1>5. ASSUME NEW t \in Apps, NEW s \in Servers, StartServer(t, s) PROVE Cared(h, points)'
  <2>1. t \in Threads
    BY DEF Threads
  <2> QED
    BY <1>3, <1>5, <2>1, StartServerEffect
<1>6. ASSUME UNCHANGED <<frame, links>>,
             \A o \in Ops : ByOp(o, h) => \E p \in Ops : ByOp(p, h)'
      PROVE  Cared(h, points)'
  BY <1>0, <1>6 DEF Cared, Minds, Holds, Link, At
<1>7. ASSUME NEW t \in Threads, NEW s \in Servers, AcceptError(t, s) PROVE Cared(h, points)'
  BY <1>6, <1>7 DEF AcceptError, linkVars, opVars, ByOp
<1>8. ASSUME NEW t \in Threads, NEW o \in Ops, RunPartial(t, o) PROVE Cared(h, points)'
  <2>1. \A p \in Ops : ByOp(p, h) /\ p # o /\ p # nops + 1 => ByOp(p, h)'
    BY <1>8, PartialEffect DEF ByOp
  <2>2. ~ByOp(nops + 1, h)
    BY <1>8, PartialEffect DEF ByOp, OpsFresh, Active, TypeOK, Ops
  <2>3. nops + 1 \in Ops /\ ops'[nops + 1].h \in HandlesSeen(o) /\ ops'[nops + 1].io \in Active
    BY <1>8, PartialEffect DEF Active
  <2>4. UNCHANGED <<frame, links>>
    BY <1>8, PartialEffect
  <2>5. CASE ops[o].h = h => ops'[nops + 1].h = h
    BY <1>6, <2>1, <2>2, <2>3, <2>4, <2>5 DEF ByOp
  <2>6. CASE ops[o].h = h /\ ops'[nops + 1].h # h
    <3>1. PICK u \in Threads : Minds(u, h, points)
      BY <2>3, <2>6, LostMinded
    <3>2. Minds(u, h, points)'
      BY <1>0, <2>4, <3>1 DEF Minds, Holds, Link, At
    <3> QED
      BY <3>2, CaredByThread
  <2> QED
    BY <2>5, <2>6
<1>9. Environment => Cared(h, points)'
  BY <1>6, EnvironmentEffect DEF ByOp
<1> QED
  BY <1>1, <1>2, <1>4, <1>5, <1>7, <1>8, <1>9, TcpOnlyCases

\* close_link deletes the objects of a link after tcp::close_link returned, and handlers
\* of the same link put objects back in between (http_service_impl.cpp): each object in
\* the maps belongs to a thread or an unanswered operation that will come to delete it.
\* A close_server keeps the promise only if freed links still show their own handle.
THEOREM NothingLeaks ==
  ASSUME HandleIntact
  PROVE  HttpSpec => []NoHttpLeak
<1>1. HttpInit => LeakOK
  BY DEF HttpInit, LeakOK
<1>2. Sound /\ ServersStay /\ LeakOK /\ [HttpNext]_hvars => LeakOK'
  <2>1. UNCHANGED hvars /\ LeakOK => LeakOK'
    BY DEF hvars, vars, httpVars, linkVars, opVars, LeakOK, Cared, Minds, Holds, ByOp, Link, At
  <2>2. Sound /\ ServersStay /\ LeakOK /\ TcpOnly => LeakOK'
    BY CaredTcpOnly, TcpOnlyCases DEF LeakOK, httpVars
  <2> QED
    BY <2>1, <2>2, LeakHandler, LeakApp DEF HttpNext
<1>3. LeakOK => NoHttpLeak
  BY DEF LeakOK, Cared, NoHttpLeak, Carried, Holds, ByOp, Active, ReqPoints, ResPoints, Link
<1> QED
  BY <1>1, <1>2, <1>3, SoundCorrect, ServersStayCorrect, PTL DEF HttpSpec
=============================================================================
