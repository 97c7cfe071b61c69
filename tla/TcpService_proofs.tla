-------------------------- MODULE TcpService_proofs --------------------------
(***************************************************************************)
(* What holds of the TCP layer for every number of threads, servers, links *)
(* and operations, and for every outcome of its undefined behaviour.       *)
(***************************************************************************)
EXTENDS TcpService, FiniteSetTheorems, TLAPS

\* The values frames and operations are set to are well typed.
LEMMA FrameTypes ==
  /\ Idle \in Frame
  /\ \A h \in Handles \cup {None}, err \in BOOLEAN, o \in Ops \cup {None} :
       Callback(h, err, o) \in Frame
  /\ \A pc \in Point, h \in Handles \cup {None}, s \in Servers \cup {None} :
       Enter(pc, h, s) \in Frame
BY DEF Idle, Callback, Enter, Frame, Point

LEMMA FrameUpdates ==
  ASSUME NEW f \in Frame
  PROVE  /\ \A pc \in Point : [f EXCEPT !.pc = pc] \in Frame
         /\ \A pc \in Point, kind \in {"recv", "send"} :
              [f EXCEPT !.pc = pc, !.kind = kind] \in Frame
         /\ \A pc \in Point, err \in BOOLEAN :
              [f EXCEPT !.pc = pc, !.err = err] \in Frame
         /\ [f EXCEPT !.err = TRUE] \in Frame
         /\ \A pc \in Point, todo \in SUBSET Handles :
              [f EXCEPT !.pc = pc, !.todo = todo] \in Frame
BY DEF Frame

LEMMA GotoType ==
  ASSUME NEW t \in Threads, NEW pc \in Point, frame \in [Threads -> Frame], Goto(t, pc)
  PROVE  frame' \in [Threads -> Frame]
<1>1. [frame[t] EXCEPT !.pc = pc] \in Frame
  BY FrameUpdates
<1> QED
  BY <1>1 DEF Goto

LEMMA BecomeType ==
  ASSUME NEW t \in Threads, NEW f \in Frame, frame \in [Threads -> Frame], Become(t, f)
  PROVE  frame' \in [Threads -> Frame]
BY DEF Become

LEMMA OperationTypes ==
  /\ NoOp \in Operation
  /\ \A h, own \in Handles \cup {None}, kind \in {"recv", "send"} :
       Started(h, own, kind) \in Operation
  /\ \A op \in Operation : 
       /\ \A io \in {"ok", "partial", "err", "done"} : [op EXCEPT !.io = io] \in Operation
       /\ \A tm \in {"expired", "fired"} : [op EXCEPT !.timer = tm] \in Operation
       /\ [op EXCEPT !.io = "done", !.timer = Stopped(op.timer)] \in Operation
<1>1. NoOp \in Operation
  BY DEF NoOp, Operation
<1>2. \A h, own \in Handles \cup {None}, kind \in {"recv", "send"} :
        Started(h, own, kind) \in Operation
  BY DEF Started, Operation
<1>3. ASSUME NEW op \in Operation
      PROVE  /\ \A io \in {"ok", "partial", "err", "done"} : [op EXCEPT !.io = io] \in Operation
             /\ \A tm \in {"expired", "fired"} : [op EXCEPT !.timer = tm] \in Operation
  BY DEF Operation
<1>4. ASSUME NEW op \in Operation
      PROVE  [op EXCEPT !.io = "done", !.timer = Stopped(op.timer)] \in Operation
  BY DEF Operation, Stopped
<1> QED
  BY <1>1, <1>2, <1>3, <1>4

LEMMA Constants ==
  /\ Threads = Workers \cup Apps
  /\ None \notin Handles /\ None \notin Servers /\ None \notin Ops
  /\ NoThread \notin Threads
  /\ MaxServers \in Nat /\ MaxLinks \in Nat /\ MaxOps \in Nat /\ AcceptNum \in Nat
<1>1. Threads = Workers \cup Apps /\ NoThread \notin Threads
  BY TcpAssumption, Zenon DEF Threads, NoThread
<1>2. MaxServers \in Nat /\ MaxLinks \in Nat /\ MaxOps \in Nat /\ AcceptNum \in Nat
  BY TcpAssumption
<1>3. None \notin Handles /\ None \notin Servers /\ None \notin Ops
  BY <1>2 DEF None, Handles, Servers, Ops
<1> QED
  BY <1>1, <1>2, <1>3

LEMMA TypeInit == Init => TypeOK
<1> SUFFICES ASSUME Init PROVE TypeOK
  OBVIOUS
<1>1. server \in [Servers -> ServerState] /\ badStart \in BOOLEAN
  BY DEF Init, ServerState
<1>2. armed \in [Servers -> Nat]
  BY Constants DEF Init
<1>3. links \subseteq 1..nlinks /\ rel \in [Handles -> Servers \cup {None}]
  BY DEF Init
<1>4. nlinks \in 0..MaxLinks /\ nops \in 0..MaxOps
  BY Constants DEF Init
<1>5. mutex \in Threads \cup {NoThread}
  BY DEF Init
<1>6. ops \in [Ops -> Operation]
  BY OperationTypes DEF Init
<1>7. frame \in [Threads -> Frame]
  BY FrameTypes DEF Init
<1> QED
  BY <1>1, <1>2, <1>3, <1>4, <1>5, <1>6, <1>7 DEF TypeOK

\* The steps of a call keep the types.
LEMMA TypeCallStep ==
  ASSUME TypeOK, NEW t \in Threads, CallStep(t)
  PROVE  TypeOK'
<1> frame[t] \in Frame
  BY DEF TypeOK
<1>f. /\ frame[t].h \in Handles \cup {None}
      /\ frame[t].s \in Servers \cup {None}
      /\ frame[t].kind \in {"recv", "send"}
      /\ frame[t].todo \subseteq Handles
  BY DEF Frame
<1>1. CASE RegisterServer(t)
  <2>1. server' \in [Servers -> ServerState]
    BY <1>1 DEF RegisterServer, TypeOK, ServerState
  <2>2. frame' \in [Threads -> Frame]
    BY <1>1, FrameTypes, BecomeType DEF RegisterServer, TypeOK
  <2> QED
    BY <1>1, <2>1, <2>2 DEF RegisterServer, TypeOK, linkVars, opVars
<1>2. CASE Relate(t)
  <2>1. frame' \in [Threads -> Frame]
    BY <1>2, GotoType DEF Relate, TypeOK, Point
  <2>2. rel' \in [Handles -> Servers \cup {None}]
    BY <1>2, <1>f DEF Relate, TypeOK
  <2> QED
    BY <1>2, <2>1, <2>2 DEF Relate, TypeOK, serverVars, opVars
<1>3. ASSUME NEW kind \in {"recv", "send"}, ClientIo(t, kind) PROVE TypeOK'
  <2>1. frame' \in [Threads -> Frame]
    <3>1. /\ [frame[t] EXCEPT !.pc = "arm", !.kind = kind] \in Frame
          /\ [frame[t] EXCEPT !.err = TRUE] \in Frame
      BY FrameUpdates DEF Point
    <3> QED
      BY <1>3, <3>1, BecomeType DEF ClientIo, TypeOK
  <2> QED
    BY <1>3, <2>1 DEF ClientIo, TypeOK, serverVars, linkVars, opVars
<1>4. CASE Arm(t)
  <2>1. frame' \in [Threads -> Frame]
    BY <1>4, GotoType DEF Arm, TypeOK, Point
  <2>2. Started(frame[t].h, frame[t].h, frame[t].kind) \in Operation
    BY <1>f, OperationTypes
  <2>3. nops' \in 0..MaxOps
    BY <1>4, Constants DEF Arm, TypeOK
  <2>4. ops' \in [Ops -> Operation]
    BY <1>4, <2>2 DEF Arm, TypeOK
  <2> QED
    BY <1>4, <2>1, <2>3, <2>4 DEF Arm, TypeOK, serverVars, linkVars
<1>5. CASE ArmFails(t)
  <2>1. [frame[t] EXCEPT !.pc = "client", !.err = TRUE] \in Frame
    BY FrameUpdates DEF Point
  <2>2. frame' \in [Threads -> Frame]
    BY <1>5, <2>1, BecomeType DEF ArmFails, TypeOK
  <2> QED
    BY <1>5, <2>2 DEF ArmFails, TypeOK, serverVars, linkVars, opVars
<1>6. CASE ClientClose(t)
  <2>1. frame' \in [Threads -> Frame]
    BY <1>6, GotoType DEF ClientClose, TypeOK, Point
  <2> QED
    BY <1>6, <2>1 DEF ClientClose, TypeOK, serverVars, linkVars, opVars
<1>7. CASE EraseLink(t)
  <2>1. frame' \in [Threads -> Frame]
    BY <1>7, GotoType DEF EraseLink, TypeOK, Point
  <2> QED
    BY <1>7, <2>1 DEF EraseLink, TypeOK, serverVars, opVars
<1>8. CASE Unrelate(t)
  <2>1. frame' \in [Threads -> Frame]
    BY <1>8, GotoType DEF Unrelate, TypeOK, Point
  <2>2. rel' \in [Handles -> Servers \cup {None}]
    BY <1>8 DEF Unrelate, TypeOK
  <2> QED
    BY <1>8, <2>1, <2>2 DEF Unrelate, TypeOK, serverVars, opVars
<1>9. CASE Return(t)
  <2>1. frame' \in [Threads -> Frame]
    BY <1>9, FrameTypes, BecomeType DEF Return, TypeOK
  <2>2. mutex' \in Threads \cup {NoThread} /\ armed' \in [Servers -> Nat]
    BY <1>9 DEF Return, TypeOK, Rearmed
  <2> QED
    BY <1>9, <2>1, <2>2 DEF Return, TypeOK, linkVars, opVars
<1>10. CASE SnapshotLinks(t)
  <2>1. \A todo \in SUBSET Handles :
          [frame[t] EXCEPT !.pc = "srv_erase", !.todo = todo] \in Frame
    BY FrameUpdates DEF Point
  <2>2. frame' \in [Threads -> Frame]
    BY <1>10, <2>1, BecomeType DEF SnapshotLinks, TypeOK
  <2> QED
    BY <1>10, <2>2 DEF SnapshotLinks, TypeOK, serverVars, linkVars, opVars
<1>11. CASE EraseServerLinks(t)
  <2>1. frame' \in [Threads -> Frame]
    BY <1>11, GotoType DEF EraseServerLinks, TypeOK, Point
  <2> QED
    BY <1>11, <2>1 DEF EraseServerLinks, TypeOK, serverVars, opVars
<1>12. CASE UnrelateServerLinks(t)
  <2>1. frame' \in [Threads -> Frame]
    BY <1>12, GotoType DEF UnrelateServerLinks, TypeOK, Point
  <2>2. rel' \in [Handles -> Servers \cup {None}]
    BY <1>12 DEF UnrelateServerLinks, TypeOK
  <2> QED
    BY <1>12, <2>1, <2>2 DEF UnrelateServerLinks, TypeOK, serverVars, opVars
<1>13. CASE DropServer(t)
  <2>1. server' \in [Servers -> ServerState]
    BY <1>13 DEF DropServer, TypeOK, ServerState
  <2>2. frame' \in [Threads -> Frame]
    BY <1>13, FrameTypes, BecomeType DEF DropServer, TypeOK
  <2> QED
    BY <1>13, <2>1, <2>2 DEF DropServer, TypeOK, linkVars, opVars
<1> QED
  BY <1>1, <1>2, <1>3, <1>4, <1>5, <1>6, <1>7, <1>8, <1>9, <1>10, <1>11, <1>12, <1>13
     DEF CallStep

\* A handle found in a TcpLink, freed or not, is one there is or the garbage one.
LEMMA SeenType ==
  ASSUME TypeOK, NEW o \in Ops
  PROVE  HandlesSeen(o) \subseteq Handles \cup {None}
<1>1. links \subseteq Handles
  BY Constants DEF TypeOK, Handles
<1>2. ops[o].h \in Handles \cup {None}
  BY DEF TypeOK, Operation
<1> QED
  BY <1>1, <1>2 DEF HandlesSeen

\* So do the completion handlers a worker runs.
LEMMA TypeDispatch ==
  ASSUME TypeOK, NEW t \in Threads, Dispatch(t)
  PROVE  TypeOK'
<1>1. ASSUME NEW s \in Servers, AcceptOk(t, s) PROVE TypeOK'
  <2>1. nlinks' \in 0..MaxLinks /\ links' \subseteq 1..nlinks' /\ NewHandle \in Handles
    BY <1>1, Constants DEF AcceptOk, TypeOK, NewHandle, Handles
  <2>2. Enter("relate", NewHandle, s) \in Frame
    BY <2>1, FrameTypes DEF Point
  <2>3. frame' \in [Threads -> Frame]
    BY <1>1, <2>2, BecomeType DEF AcceptOk, TypeOK
  <2>4. armed' \in [Servers -> Nat]
    BY <1>1 DEF AcceptOk, TypeOK
  <2> QED
    BY <1>1, <2>1, <2>3, <2>4 DEF AcceptOk, TypeOK, opVars
<1>2. ASSUME NEW s \in Servers, AcceptError(t, s) PROVE TypeOK'
  BY <1>2 DEF AcceptError, TypeOK, linkVars, opVars
<1>3. ASSUME NEW o \in Ops, RunIo(t, o) PROVE TypeOK'
  <2>0. ops[o] \in Operation
    BY DEF TypeOK
  <2>1. HandlesSeen(o) \subseteq Handles \cup {None}
    BY SeenType
  <2>2. frame' \in [Threads -> Frame]
    <3>1. PICK h \in HandlesSeen(o) : Become(t, Callback(h, ops[o].io = "err", o))
      BY <1>3 DEF RunIo
    <3>2. (ops[o].io = "err") \in BOOLEAN
      OBVIOUS
    <3>3. Callback(h, ops[o].io = "err", o) \in Frame
      BY <2>1, <3>2, FrameTypes
    <3> QED
      BY <3>1, <3>3, BecomeType DEF TypeOK
  <2>3. ops' \in [Ops -> Operation]
    BY <1>3, <2>0, OperationTypes DEF RunIo, TypeOK
  <2> QED
    BY <1>3, <2>2, <2>3 DEF RunIo, TypeOK, serverVars, linkVars
<1>4. ASSUME NEW o \in Ops, RunPartial(t, o) PROVE TypeOK'
  <2>0. ops[o] \in Operation /\ ops[o].own \in Handles \cup {None}
    BY DEF TypeOK, Operation
  <2>1. \A h \in HandlesSeen(o) : Started(h, ops[o].own, "send") \in Operation
    BY <2>0, SeenType, OperationTypes
  <2>2. ops' \in [Ops -> Operation]
    BY <1>4, <2>0, <2>1, OperationTypes DEF RunPartial, TypeOK
  <2>3. nops' \in 0..MaxOps
    BY <1>4, Constants DEF RunPartial, TypeOK
  <2> QED
    BY <1>4, <2>2, <2>3 DEF RunPartial, TypeOK, serverVars, linkVars
<1>5. ASSUME NEW o \in Ops, RunTimer(t, o) PROVE TypeOK'
  <2>0. ops[o] \in Operation /\ ops[o].h \in Handles \cup {None}
    BY DEF TypeOK, Operation
  <2>1. frame' \in [Threads -> Frame]
    BY <1>5, <2>0, FrameTypes, BecomeType DEF RunTimer, TypeOK
  <2>2. ops' \in [Ops -> Operation]
    BY <1>5, <2>0, OperationTypes DEF RunTimer, TypeOK
  <2> QED
    BY <1>5, <2>1, <2>2 DEF RunTimer, TypeOK, serverVars, linkVars
<1> QED
  BY <1>1, <1>2, <1>3, <1>4, <1>5 DEF Dispatch

\* And the calls of the application and the events of the environment.
LEMMA TypeAppCall ==
  ASSUME TypeOK, NEW t \in Threads, AppCall(t)
  PROVE  TypeOK'
<1>1. ASSUME NEW s \in Servers, StartServer(t, s) PROVE TypeOK'
  <2>1. server' \in [Servers -> ServerState] /\ armed' \in [Servers -> Nat]
    BY <1>1, Constants DEF StartServer, TypeOK, ServerState
  <2>2. Enter("register", None, s) \in Frame
    BY FrameTypes DEF Point
  <2>3. frame' \in [Threads -> Frame]
    BY <1>1, <2>2, BecomeType DEF StartServer, TypeOK
  <2> QED
    BY <1>1, <2>1, <2>3 DEF StartServer, TypeOK, linkVars, opVars
<1>2. ASSUME NEW s \in Servers, StopServer(t, s) PROVE TypeOK'
  <2>1. server' \in [Servers -> ServerState]
    BY <1>2 DEF StopServer, TypeOK, ServerState
  <2>2. Enter("snapshot", None, s) \in Frame
    BY FrameTypes DEF Point
  <2>3. frame' \in [Threads -> Frame]
    BY <1>2, <2>2, BecomeType DEF StopServer, TypeOK
  <2> QED
    BY <1>2, <2>1, <2>3 DEF StopServer, TypeOK, linkVars, opVars
<1>3. CASE StartClient(t)
  <2>1. nlinks' \in 0..MaxLinks /\ links' \subseteq 1..nlinks' /\ NewHandle \in Handles
    BY <1>3, Constants DEF StartClient, TypeOK, NewHandle, Handles
  <2>2. frame' \in [Threads -> Frame]
    BY <1>3, <2>1, FrameTypes, BecomeType DEF StartClient, TypeOK
  <2> QED
    BY <1>3, <2>1, <2>2 DEF StartClient, TypeOK, serverVars, opVars
<1>4. ASSUME NEW h \in Handles, AppCloseLink(t, h) PROVE TypeOK'
  <2>1. Enter("erase", h, None) \in Frame
    BY FrameTypes DEF Point
  <2>2. frame' \in [Threads -> Frame]
    BY <1>4, <2>1, BecomeType DEF AppCloseLink, TypeOK
  <2> QED
    BY <1>4, <2>2 DEF AppCloseLink, TypeOK, serverVars, linkVars, opVars
<1> QED
  BY <1>1, <1>2, <1>3, <1>4 DEF AppCall

LEMMA TypeEnvironment == TypeOK /\ Environment => TypeOK'
<1> SUFFICES ASSUME TypeOK, NEW o \in Ops, IoCompletes(o) \/ TimerExpires(o)
             PROVE  TypeOK'
  BY DEF Environment
<1>1. ops[o] \in Operation
  BY DEF TypeOK
<1>2. ops' \in [Ops -> Operation]
  BY <1>1, OperationTypes DEF TypeOK, IoCompletes, TimerExpires
<1> QED
  BY <1>2 DEF TypeOK, IoCompletes, TimerExpires, serverVars, linkVars

\* Every reachable state is well typed: handles stay below the record of TcpLink's
\* constructor, a frame or an operation is never half-initialised.
THEOREM TypeCorrect == Spec => []TypeOK
<1>1. Init => TypeOK
  BY TypeInit
<1>2. TypeOK /\ [Next]_vars => TypeOK'
  <2>1. TypeOK /\ UNCHANGED vars => TypeOK'
    BY DEF TypeOK, vars, serverVars, linkVars, opVars
  <2> QED
    BY <2>1, TypeCallStep, TypeDispatch, TypeAppCall, TypeEnvironment, Constants DEF Next
<1> QED
  BY <1>1, <1>2, PTL DEF Spec
-----------------------------------------------------------------------------
(* The registry.                                                           *)

\* What a step of thread t does to the frames.
LEMMA GotoOnly ==
  ASSUME TypeOK, NEW t \in Threads, NEW pc, Goto(t, pc)
  PROVE  /\ frame'[t].pc = pc
         /\ frame'[t].h = frame[t].h
         /\ frame'[t].s = frame[t].s
         /\ frame'[t].todo = frame[t].todo
         /\ \A u \in Threads : u # t => frame'[u] = frame[u]
BY DEF Goto, TypeOK, Frame

LEMMA BecomeOnly ==
  ASSUME TypeOK, NEW t \in Threads, NEW f, Become(t, f)
  PROVE  /\ frame'[t] = f
         /\ \A u \in Threads : u # t => frame'[u] = frame[u]
BY DEF Become, TypeOK

\* The frames of the steps that change more than pc.
LEMMA FrameExcept ==
  ASSUME NEW f \in Frame
  PROVE  /\ \A pc, kind : LET g == [f EXCEPT !.pc = pc, !.kind = kind] IN
                            g.pc = pc /\ g.h = f.h /\ g.s = f.s
         /\ \A pc, err : LET g == [f EXCEPT !.pc = pc, !.err = err] IN
                            g.pc = pc /\ g.h = f.h /\ g.s = f.s
         /\ LET g == [f EXCEPT !.err = TRUE] IN g.pc = f.pc /\ g.h = f.h /\ g.s = f.s
BY DEF Frame

LEMMA ClientIoFrame ==
  ASSUME TypeOK, NEW t \in Threads, NEW kind \in {"recv", "send"}, ClientIo(t, kind)
  PROVE  /\ frame[t].pc = "client" /\ frame'[t].pc \in {"arm", "client"}
         /\ frame'[t].h = frame[t].h /\ frame'[t].s = frame[t].s
<1>0. frame[t] \in Frame
  BY DEF TypeOK
<1>1. CASE frame[t].h \in links
  <2>1. frame'[t] = [frame[t] EXCEPT !.pc = "arm", !.kind = kind]
    BY <1>1, BecomeOnly DEF ClientIo
  <2> QED
    BY <1>0, <2>1, FrameExcept DEF ClientIo, At
<1>2. CASE frame[t].h \notin links
  <2>1. frame'[t] = [frame[t] EXCEPT !.err = TRUE]
    BY <1>2, BecomeOnly DEF ClientIo
  <2> QED
    BY <1>0, <2>1, FrameExcept DEF ClientIo, At
<1> QED
  BY <1>1, <1>2

LEMMA ArmFailsFrame ==
  ASSUME TypeOK, NEW t \in Threads, ArmFails(t)
  PROVE  /\ frame[t].pc = "arm" /\ frame'[t].pc = "client"
         /\ frame'[t].h = frame[t].h /\ frame'[t].s = frame[t].s
<1>1. frame[t] \in Frame
  BY DEF TypeOK
<1>2. frame'[t] = [frame[t] EXCEPT !.pc = "client", !.err = TRUE]
  BY BecomeOnly DEF ArmFails
<1> QED
  BY <1>1, <1>2, FrameExcept DEF ArmFails, At

LEMMA NewFrame ==
  /\ Idle.pc = "idle" /\ Idle.h = None /\ Idle.s = None /\ Idle.todo = {}
  /\ \A h, err, o : /\ Callback(h, err, o).pc = "client" /\ Callback(h, err, o).h = h
                    /\ Callback(h, err, o).s = None
  /\ \A pc, h, s : /\ Enter(pc, h, s).pc = pc /\ Enter(pc, h, s).h = h
                   /\ Enter(pc, h, s).s = s
BY DEF Idle, Callback, Enter

\* A thread in TcpServiceImpl::accept has a server and a link.
RelateOK ==
  \A t \in Threads : At(t, "relate") => frame[t].s \in Servers /\ frame[t].h \in Handles

\* Where the step of a call leads.
LEMMA CallStepPc ==
  ASSUME TypeOK, NEW t \in Threads, CallStep(t)
  PROVE  /\ ~At(t, "idle") /\ frame'[t].pc # "relate"
         /\ \A u \in Threads : u # t => frame'[u] = frame[u]
<1>1. ASSUME NEW kind \in {"recv", "send"}, ClientIo(t, kind)
      PROVE  /\ ~At(t, "idle") /\ frame'[t].pc # "relate"
             /\ \A u \in Threads : u # t => frame'[u] = frame[u]
  BY <1>1 DEF ClientIo, Become, At, TypeOK, Frame
<1>2. CASE RegisterServer(t) \/ DropServer(t) \/ Return(t)
  BY <1>2, BecomeOnly, NewFrame DEF RegisterServer, DropServer, Return, At
<1>3. CASE Relate(t) \/ Arm(t) \/ ClientClose(t) \/ EraseLink(t) \/ Unrelate(t)
           \/ EraseServerLinks(t) \/ UnrelateServerLinks(t)
  BY <1>3, GotoOnly DEF Relate, Arm, ClientClose, EraseLink, Unrelate, EraseServerLinks,
     UnrelateServerLinks, At
<1>4. CASE ArmFails(t) \/ SnapshotLinks(t)
  BY <1>4 DEF ArmFails, SnapshotLinks, Become, At, TypeOK, Frame
<1> QED
  BY <1>1, <1>2, <1>3, <1>4 DEF CallStep

\* Handlers and application calls start on an idle thread.
LEMMA FromIdle ==
  ASSUME TypeOK, NEW t \in Threads, Dispatch(t) \/ AppCall(t)
  PROVE  /\ At(t, "idle")
         /\ frame'[t].pc \in {"idle", "relate", "client", "register", "snapshot", "erase"}
         /\ frame'[t].pc \in {"client", "erase"} => frame'[t].s = None
         /\ frame'[t].pc = "relate" => frame'[t].s \in Servers /\ frame'[t].h \in Handles
         /\ \A u \in Threads : u # t => frame'[u] = frame[u]
<1> DEFINE P == /\ At(t, "idle")
                /\ frame'[t].pc \in {"idle", "relate", "client", "register", "snapshot", "erase"}
                /\ frame'[t].pc \in {"client", "erase"} => frame'[t].s = None
                /\ frame'[t].pc = "relate" => frame'[t].s \in Servers /\ frame'[t].h \in Handles
                /\ \A u \in Threads : u # t => frame'[u] = frame[u]
<1>0. IsIdle(t) => At(t, "idle")
  BY NewFrame DEF IsIdle, At
<1>1. ASSUME NEW s \in Servers, AcceptOk(t, s) PROVE P
  <2>1. NewHandle \in Handles
    BY <1>1, Constants DEF AcceptOk, TypeOK, NewHandle, Handles
  <2> QED
    BY <1>0, <1>1, <2>1, BecomeOnly, NewFrame DEF AcceptOk
<1>2. ASSUME NEW s \in Servers, AcceptError(t, s) PROVE P
  BY <1>0, <1>2 DEF AcceptError, At
<1>3. ASSUME NEW o \in Ops, RunIo(t, o) \/ RunPartial(t, o) \/ RunTimer(t, o) PROVE P
  <2>1. CASE RunIo(t, o)
    <3>1. PICK h \in HandlesSeen(o) : Become(t, Callback(h, ops[o].io = "err", o))
      BY <2>1 DEF RunIo
    <3>2. /\ Callback(h, ops[o].io = "err", o).pc = "client"
          /\ Callback(h, ops[o].io = "err", o).s = None
      BY DEF Callback, Idle
    <3> HIDE DEF P
    <3>3. IsIdle(t)
      BY <2>1 DEF RunIo
    <3> QED
      BY <1>0, <3>1, <3>2, <3>3, BecomeOnly DEF P
  <2>2. CASE RunPartial(t, o)
    BY <1>0, <2>2 DEF RunPartial, At
  <2>3. CASE RunTimer(t, o)
    <3>1. /\ Callback(ops[o].h, TRUE, o).pc = "client"
          /\ Callback(ops[o].h, TRUE, o).s = None
      BY DEF Callback, Idle
    <3> QED
      BY <1>0, <2>3, <3>1, BecomeOnly DEF RunTimer
  <2> QED
    BY <1>3, <2>1, <2>2, <2>3
<1>4. ASSUME NEW s \in Servers, StartServer(t, s) \/ StopServer(t, s) PROVE P
  BY <1>0, <1>4, BecomeOnly, NewFrame DEF StartServer, StopServer, At
<1>5. CASE StartClient(t)
  <2>1. /\ Callback(NewHandle, FALSE, None).pc = "client"
        /\ Callback(NewHandle, FALSE, None).s = None
    BY DEF Callback, Idle
  <2> QED
    BY <1>0, <1>5, <2>1, BecomeOnly DEF StartClient
<1>6. ASSUME NEW h \in Handles, AppCloseLink(t, h) PROVE P
  BY <1>0, <1>6, BecomeOnly, NewFrame DEF AppCloseLink
<1> QED
  BY <1>1, <1>2, <1>3, <1>4, <1>5, <1>6 DEF Dispatch, AppCall

LEMMA RelateCorrect == Spec => []RelateOK
<1>1. Init => RelateOK
  BY NewFrame DEF Init, RelateOK, At
<1>2. TypeOK /\ RelateOK /\ [Next]_vars => RelateOK'
  <2> SUFFICES ASSUME TypeOK, RelateOK, [Next]_vars PROVE RelateOK'
    OBVIOUS
  <2>1. ASSUME NEW t \in Threads, CallStep(t) PROVE RelateOK'
    BY <2>1, CallStepPc DEF RelateOK, At
  <2>2. ASSUME NEW t \in Threads, Dispatch(t) \/ AppCall(t) PROVE RelateOK'
    BY <2>2, FromIdle DEF RelateOK, At
  <2>3. CASE Environment \/ UNCHANGED vars
    BY <2>3 DEF Environment, IoCompletes, TimerExpires, vars, RelateOK, At
  <2> QED
    BY <2>1, <2>2, <2>3, Constants DEF Next
<1> QED
  BY <1>1, <1>2, TypeCorrect, PTL DEF Spec

\* A thread cleans up for a link as long as its own frame does not change.
LEMMA CleaningKept ==
  ASSUME NEW u \in Threads, NEW h \in Handles, Cleaning(u, h), frame'[u] = frame[u]
  PROVE  Cleaning(u, h)'
BY DEF Cleaning, Accepting, At

\* The step of a call by thread t: either t passes its duty on, or it was done.
LEMMA StaleCallStep ==
  ASSUME TypeOK, RelateOK, NoStaleRelation, NEW t \in Threads, CallStep(t)
  PROVE  NoStaleRelation'
<1> SUFFICES ASSUME NEW h \in Handles, rel'[h] # None, h \notin links'
             PROVE  \E u \in Threads : Cleaning(u, h)'
  BY DEF NoStaleRelation
<1>t. frame[t] \in Frame /\ rel \in [Handles -> Servers \cup {None}]
  BY DEF TypeOK
<1>0. \A u \in Threads : u # t => frame'[u] = frame[u]
  BY CallStepPc
<1>a. ASSUME rel[h] # None, h \notin links, ~Cleaning(t, h)
      PROVE  \E u \in Threads : Cleaning(u, h)'
  <2>1. PICK u \in Threads : Cleaning(u, h)
    BY <1>a DEF NoStaleRelation
  <2> QED
    BY <1>0, <1>a, <2>1, CleaningKept
<1>1. CASE RegisterServer(t) \/ Arm(t) \/ ArmFails(t) \/ SnapshotLinks(t) \/ DropServer(t)
           \/ Return(t)
  <2>1. ~Cleaning(t, h)
    BY <1>1 DEF Cleaning, At, RegisterServer, Arm, ArmFails, SnapshotLinks, DropServer, Return
  <2>2. rel' = rel /\ links' = links
    BY <1>1 DEF RegisterServer, Arm, ArmFails, SnapshotLinks, DropServer, Return, linkVars
  <2> QED
    BY <1>a, <2>1, <2>2
<1>2. CASE Relate(t)
  <2>1. frame'[t].pc = "client" /\ frame'[t].h = frame[t].h /\ frame'[t].s = frame[t].s
    BY <1>2, GotoOnly DEF Relate
  <2>2. frame[t].s # None
    BY <1>2, Constants DEF Relate, RelateOK
  <2>3. CASE h = frame[t].h
    <3>1. Cleaning(t, h)'
      BY <2>1, <2>2, <2>3 DEF Cleaning, Accepting
    <3> QED
      BY <3>1
  <2>4. CASE h # frame[t].h
    <3>1. rel'[h] = rel[h] /\ links' = links /\ ~Cleaning(t, h)
      BY <1>2, <1>t, <2>4 DEF Relate, Cleaning, At
    <3> QED
      BY <1>a, <3>1
  <2> QED
    BY <2>3, <2>4
<1>3. ASSUME NEW kind \in {"recv", "send"}, ClientIo(t, kind)
      PROVE  \E u \in Threads : Cleaning(u, h)'
  <2>1. rel' = rel /\ links' = links
    BY <1>3 DEF ClientIo, linkVars
  <2>2. CASE Cleaning(t, h)
    <3>1. frame[t].h = h /\ frame[t].s # None /\ frame[t].h \notin links
      BY <1>3, <2>1, <2>2 DEF Cleaning, ClientIo, At, Accepting
    <3>2. frame'[t].pc = "client" /\ frame'[t].h = h /\ frame'[t].s # None
      BY <1>3, <1>t, <3>1 DEF ClientIo, Become, TypeOK, At, Frame
    <3>3. Cleaning(t, h)'
      BY <3>2 DEF Cleaning, Accepting
    <3> QED
      BY <3>3
  <2> QED
    BY <1>a, <2>1, <2>2
<1>4. CASE ClientClose(t)
  <2>1. frame'[t].pc = "erase" /\ frame'[t].h = frame[t].h /\ frame'[t].s = frame[t].s
    BY <1>4, GotoOnly DEF ClientClose
  <2>2. rel' = rel /\ links' = links
    BY <1>4 DEF ClientClose, linkVars
  <2>3. CASE Cleaning(t, h)
    <3>1. frame[t].h = h /\ frame[t].s # None
      BY <1>4, <2>3 DEF Cleaning, ClientClose, At, Accepting
    <3>2. Cleaning(t, h)'
      BY <2>1, <3>1 DEF Cleaning, Accepting
    <3> QED
      BY <3>2
  <2> QED
    BY <1>a, <2>2, <2>3
<1>5. CASE EraseLink(t)
  <2>1. frame'[t].pc = "unrelate" /\ frame'[t].h = frame[t].h
    BY <1>5, GotoOnly DEF EraseLink
  <2>2. rel' = rel /\ links' = links \ {frame[t].h}
    BY <1>5 DEF EraseLink
  <2>3. CASE h = frame[t].h
    BY <2>1, <2>3 DEF Cleaning, At
  <2>4. CASE h # frame[t].h
    <3>1. ~Cleaning(t, h) /\ h \notin links
      BY <1>5, <2>2, <2>4 DEF EraseLink, Cleaning, At
    <3> QED
      BY <1>a, <2>2, <3>1
  <2> QED
    BY <2>3, <2>4
<1>6. CASE Unrelate(t)
  <2>1. h # frame[t].h /\ rel'[h] = rel[h] /\ links' = links
    BY <1>6 DEF Unrelate
  <2>2. ~Cleaning(t, h)
    BY <1>6, <2>1 DEF Unrelate, Cleaning, At
  <2> QED
    BY <1>a, <2>1, <2>2
<1>7. CASE EraseServerLinks(t)
  <2>1. frame'[t].pc = "srv_unrelate" /\ frame'[t].todo = frame[t].todo
    BY <1>7, GotoOnly DEF EraseServerLinks
  <2>2. rel' = rel /\ links' = links \ frame[t].todo
    BY <1>7 DEF EraseServerLinks
  <2>3. CASE h \in frame[t].todo
    BY <2>1, <2>3 DEF Cleaning, At
  <2>4. CASE h \notin frame[t].todo
    <3>1. ~Cleaning(t, h) /\ h \notin links
      BY <1>7, <2>2, <2>4 DEF EraseServerLinks, Cleaning, At
    <3> QED
      BY <1>a, <2>2, <3>1
  <2> QED
    BY <2>3, <2>4
<1>8. CASE UnrelateServerLinks(t)
  <2>1. h \notin frame[t].todo /\ rel'[h] = rel[h] /\ links' = links
    BY <1>8 DEF UnrelateServerLinks
  <2>2. ~Cleaning(t, h)
    BY <1>8, <2>1 DEF UnrelateServerLinks, Cleaning, At
  <2> QED
    BY <1>a, <2>1, <2>2
<1> QED
  BY <1>1, <1>2, <1>3, <1>4, <1>5, <1>6, <1>7, <1>8 DEF CallStep

\* Steps that start on an idle thread never remove a link.
LEMMA StaleFromIdle ==
  ASSUME TypeOK, NoStaleRelation, NEW t \in Threads, Dispatch(t) \/ AppCall(t)
  PROVE  NoStaleRelation'
<1> SUFFICES ASSUME NEW h \in Handles, rel'[h] # None, h \notin links'
             PROVE  \E u \in Threads : Cleaning(u, h)'
  BY DEF NoStaleRelation
<1>1. rel' = rel /\ links \subseteq links'
  BY DEF Dispatch, AppCall, AcceptOk, AcceptError, RunIo, RunPartial, RunTimer, StartServer,
     StopServer, StartClient, AppCloseLink, linkVars
<1>2. PICK u \in Threads : Cleaning(u, h)
  BY <1>1 DEF NoStaleRelation
<1>3. u # t
  BY <1>2, FromIdle DEF Cleaning, At
<1> QED
  BY <1>2, <1>3, FromIdle, CleaningKept

\* links_ and link_server_ are changed under different locks by close_client,
\* close_server and accept.  In every interleaving, a relation of a link that is no
\* longer registered has a thread on its way to remove it.
THEOREM StaleRelationsCleaned == Spec => []NoStaleRelation
<1>1. Init => NoStaleRelation
  BY DEF Init, NoStaleRelation
<1>2. TypeOK /\ RelateOK /\ NoStaleRelation /\ [Next]_vars => NoStaleRelation'
  <2> SUFFICES ASSUME TypeOK, RelateOK, NoStaleRelation, [Next]_vars
               PROVE  NoStaleRelation'
    OBVIOUS
  <2>1. CASE Environment \/ UNCHANGED vars
    BY <2>1 DEF Environment, IoCompletes, TimerExpires, vars, linkVars, NoStaleRelation,
       Cleaning, Accepting, At
  <2> QED
    BY <2>1, StaleCallStep, StaleFromIdle, Constants DEF Next
<1> QED
  BY <1>1, <1>2, TypeCorrect, RelateCorrect, PTL DEF Spec

\* Hence, whenever no call is in progress, link_server_ relates registered links only.
THEOREM QuietRegistry ==
  Spec => []((\A t \in Threads : IsIdle(t)) => \A h \in Handles : rel[h] # None => h \in links)
<1>1. NoStaleRelation /\ (\A t \in Threads : IsIdle(t))
        => \A h \in Handles : rel[h] # None => h \in links
  BY NewFrame DEF NoStaleRelation, Cleaning, IsIdle, At
<1> QED
  BY <1>1, StaleRelationsCleaned, PTL
-----------------------------------------------------------------------------
(* The mutex.                                                              *)

\* lock_link_server_ is held, between steps, by exactly the thread that runs an accept
\* callback: whatever path the callback takes, it gives the lock back once.
THEOREM MutexDisciplined == Spec => []MutexDiscipline
<1> DEFINE Inside == {"client", "arm", "erase", "unrelate", "back"}
<1>1. Init => MutexDiscipline
  BY Constants, NewFrame DEF Init, MutexDiscipline, Accepting, At
<1>2. TypeOK /\ RelateOK /\ MutexDiscipline /\ [Next]_vars => MutexDiscipline'
  <2> SUFFICES ASSUME TypeOK, RelateOK, MutexDiscipline, [Next]_vars
               PROVE  MutexDiscipline'
    OBVIOUS
  <2>a. ASSUME NEW t \in Threads, mutex' = mutex, \A u \in Threads : u # t => frame'[u] = frame[u],
               (Accepting(t) /\ ~At(t, "relate"))' <=> Accepting(t) /\ ~At(t, "relate")
        PROVE  MutexDiscipline'
    BY <2>a DEF MutexDiscipline, Accepting, At
  <2>1. ASSUME NEW t \in Threads, CallStep(t) PROVE MutexDiscipline'
    <3>0. frame[t] \in Frame /\ \A u \in Threads : u # t => frame'[u] = frame[u]
      BY <2>1, CallStepPc DEF TypeOK
    <3>1. CASE RegisterServer(t) \/ DropServer(t)
      BY <2>a, <3>0, <3>1, BecomeOnly, NewFrame
         DEF RegisterServer, DropServer, Accepting, At
    <3>2. CASE Relate(t)
      <4>1. mutex' = t /\ frame'[t].pc = "client" /\ frame'[t].s # None /\ (mutex \notin Threads \/ mutex = t)
        BY <3>2, GotoOnly, Constants DEF Relate, RelateOK, CanLock
      <4>2. (Accepting(t) /\ ~At(t, "relate"))'
        BY <4>1 DEF Accepting, At
      <4>3. ASSUME NEW u \in Threads, u # t
            PROVE  mutex' # u /\ ~(Accepting(u) /\ ~At(u, "relate"))'
        <5>1. ~(Accepting(u) /\ ~At(u, "relate"))
          BY <4>1, <4>3 DEF MutexDiscipline
        <5> QED
          BY <3>0, <4>1, <4>3, <5>1 DEF Accepting, At
      <4> QED
        BY <4>1, <4>2, <4>3 DEF MutexDiscipline
    <3>3. ASSUME NEW kind \in {"recv", "send"}, ClientIo(t, kind) PROVE MutexDiscipline'
      <4>1. frame[t].pc \in Inside /\ frame'[t].pc \in Inside /\ frame'[t].s = frame[t].s
        BY <3>3, ClientIoFrame
      <4>2. mutex' = mutex
        BY <3>3 DEF ClientIo
      <4> QED
        BY <2>a, <3>0, <4>1, <4>2 DEF Accepting, At
    <3>4. CASE ArmFails(t)
      <4>1. frame[t].pc \in Inside /\ frame'[t].pc \in Inside /\ frame'[t].s = frame[t].s
        BY <3>4, ArmFailsFrame
      <4> QED
        BY <2>a, <3>0, <3>4, <4>1 DEF ArmFails, Accepting, At
    <3>5. CASE Arm(t) \/ ClientClose(t) \/ EraseLink(t) \/ Unrelate(t)
      <4>1. frame[t].pc \in Inside /\ frame'[t].pc \in Inside /\ frame'[t].s = frame[t].s
        BY <3>5, GotoOnly DEF Arm, ClientClose, EraseLink, Unrelate, At
      <4> QED
        BY <2>a, <3>0, <3>5, <4>1 DEF Arm, ClientClose, EraseLink, Unrelate, Accepting, At
    <3>6. CASE Return(t)
      <4>1. frame'[t].pc = "idle" /\ frame[t].pc = "back"
        BY <3>6, BecomeOnly, NewFrame DEF Return, At
      <4>2. CASE Accepting(t)
        <5>1. mutex = t /\ mutex' = NoThread
          BY <3>6, <4>1, <4>2 DEF Return, MutexDiscipline, At
        <5> QED
          BY <3>0, <4>1, <5>1, Constants DEF MutexDiscipline, Accepting, At
      <4>3. CASE ~Accepting(t)
        BY <2>a, <3>0, <3>6, <4>1, <4>3 DEF Return, Accepting, At
      <4> QED
        BY <4>2, <4>3
    <3>7. CASE SnapshotLinks(t)
      <4>1. frame[t].pc = "snapshot" /\ frame'[t].pc = "srv_erase"
        BY <3>0, <3>7 DEF SnapshotLinks, Become, TypeOK, At, Frame
      <4> QED
        BY <2>a, <3>0, <3>7, <4>1 DEF SnapshotLinks, Accepting, At
    <3>8. CASE EraseServerLinks(t) \/ UnrelateServerLinks(t)
      <4>1. /\ frame[t].pc \in {"srv_erase", "srv_unrelate"}
            /\ frame'[t].pc \in {"srv_unrelate", "srv_drop"}
        BY <3>8, GotoOnly DEF EraseServerLinks, UnrelateServerLinks, At
      <4> QED
        BY <2>a, <3>0, <3>8, <4>1 DEF EraseServerLinks, UnrelateServerLinks, Accepting, At
    <3> QED
      BY <2>1, <3>1, <3>2, <3>3, <3>4, <3>5, <3>6, <3>7, <3>8 DEF CallStep
  <2>2. ASSUME NEW t \in Threads, Dispatch(t) \/ AppCall(t) PROVE MutexDiscipline'
    <3>1. mutex' = mutex
      BY <2>2 DEF Dispatch, AppCall, AcceptOk, AcceptError, RunIo, RunPartial, RunTimer,
         StartServer, StopServer, StartClient, AppCloseLink
    <3> QED
      BY <2>2, <2>a, <3>1, FromIdle DEF Accepting, At
  <2>3. CASE Environment \/ UNCHANGED vars
    BY <2>3 DEF Environment, IoCompletes, TimerExpires, vars, MutexDiscipline, Accepting, At
  <2> QED
    BY <2>1, <2>2, <2>3, Constants DEF Next
<1> QED
  BY <1>1, <1>2, TypeCorrect, RelateCorrect, PTL DEF Spec
-----------------------------------------------------------------------------
(* No link is forgotten.                                                   *)

Active == {"pending", "ok", "partial", "err"}
OpsFresh == \A o \in Ops : o > nops => ops[o].io = "none"

\* Link h is tended by thread t, or by operation o.
ByThread(t, h) ==
  frame[t].h = h /\ frame[t].pc \in {"relate", "client", "arm", "erase"}
ByOp(o, h) == ops[o].h = h /\ ops[o].io \in Active

LEMMA TendedBy ==
  ASSUME NEW h
  PROVE  Tended(h) <=> (\E t \in Threads : ByThread(t, h)) \/ (\E o \in Ops : ByOp(o, h))
BY DEF Tended, ByThread, ByOp, Active

\* An operation just started is active for its link.
LEMMA StartedActive ==
  \A h, own, kind : Started(h, own, kind).h = h /\ Started(h, own, kind).io = "pending"
BY DEF Started

LEMMA OpsFreshCorrect == Spec => []OpsFresh
<1>1. Init => OpsFresh
  BY DEF Init, OpsFresh, NoOp
<1>2. TypeOK /\ OpsFresh /\ [Next]_vars => OpsFresh'
  <2> SUFFICES ASSUME TypeOK, OpsFresh, [Next]_vars PROVE OpsFresh'
    OBVIOUS
  <2>0. nops \in Int /\ Ops \subseteq Int /\ ops \in [Ops -> Operation]
    BY DEF TypeOK, Ops
  <2>1. ASSUME UNCHANGED opVars PROVE OpsFresh'
    BY <2>1 DEF OpsFresh, opVars
  <2>2. ASSUME NEW t \in Threads, Arm(t) PROVE OpsFresh'
    BY <2>0, <2>2 DEF Arm, OpsFresh
  <2>3. ASSUME NEW t \in Threads, NEW o \in Ops, RunIo(t, o) \/ RunPartial(t, o) \/ RunTimer(t, o)
        PROVE  OpsFresh'
    <3>1. CASE RunIo(t, o)
      BY <2>0, <3>1 DEF RunIo, OpsFresh, Operation
    <3>2. CASE RunPartial(t, o)
      BY <2>0, <3>2 DEF RunPartial, OpsFresh, Operation
    <3>3. CASE RunTimer(t, o)
      BY <2>0, <3>3 DEF RunTimer, OpsFresh, Operation
    <3> QED
      BY <2>3, <3>1, <3>2, <3>3
  <2>4. ASSUME NEW o \in Ops, IoCompletes(o) \/ TimerExpires(o) PROVE OpsFresh'
    BY <2>0, <2>4 DEF IoCompletes, TimerExpires, OpsFresh, Operation
  <2>5. ASSUME NEW t \in Threads, CallStep(t), ~Arm(t) PROVE UNCHANGED opVars
    BY <2>5 DEF CallStep, RegisterServer, Relate, ClientIo, ArmFails, ClientClose, EraseLink,
       Unrelate, Return, SnapshotLinks, EraseServerLinks, UnrelateServerLinks, DropServer
  <2>6. ASSUME NEW t \in Threads, AppCall(t) PROVE UNCHANGED opVars
    BY <2>6 DEF AppCall, StartServer, StopServer, StartClient, AppCloseLink
  <2>7. ASSUME NEW t \in Threads, NEW s \in Servers, AcceptOk(t, s) \/ AcceptError(t, s)
        PROVE  UNCHANGED opVars
    BY <2>7 DEF AcceptOk, AcceptError
  <2>8. CASE UNCHANGED vars
    BY <2>1, <2>8 DEF vars
  <2> QED
    BY <2>1, <2>2, <2>3, <2>4, <2>5, <2>6, <2>7, <2>8, Constants DEF Next, Dispatch, Environment
<1> QED
  BY <1>1, <1>2, TypeCorrect, PTL DEF Spec

LEMMA OrphanCallStep ==
  ASSUME TypeOK, OpsFresh, NoOrphanLink, NEW t \in Threads, CallStep(t)
  PROVE  NoOrphanLink'
<1> SUFFICES ASSUME NEW h \in links' PROVE Tended(h)'
  BY DEF NoOrphanLink
<1>0. \A u \in Threads : u # t => frame'[u] = frame[u]
  BY CallStepPc
<1>1. h \in links
  BY DEF CallStep, RegisterServer, Relate, ClientIo, Arm, ArmFails, ClientClose, EraseLink,
     Unrelate, Return, SnapshotLinks, EraseServerLinks, UnrelateServerLinks, DropServer, linkVars
<1>2. (\E u \in Threads : ByThread(u, h)) \/ (\E o \in Ops : ByOp(o, h))
  BY <1>1, TendedBy DEF NoOrphanLink
<1>3. ASSUME NEW o \in Ops, ByOp(o, h) PROVE Tended(h)'
  <2>1. CASE Arm(t)
    <3>1. o # nops + 1
      BY <1>3 DEF OpsFresh, ByOp, Active, TypeOK, Ops
    <3>2. ops'[o] = ops[o]
      BY <2>1, <3>1 DEF Arm, TypeOK
    <3> QED
      BY <1>3, <3>2 DEF Tended, ByOp, Active
  <2>2. CASE ~Arm(t)
    <3>1. ops' = ops
      BY <2>2 DEF CallStep, RegisterServer, Relate, ClientIo, ArmFails, ClientClose, EraseLink,
         Unrelate, Return, SnapshotLinks, EraseServerLinks, UnrelateServerLinks, DropServer, opVars
    <3> QED
      BY <1>3, <3>1 DEF Tended, ByOp, Active
  <2> QED
    BY <2>1, <2>2
<1>4. ASSUME NEW u \in Threads, ByThread(u, h), u # t PROVE Tended(h)'
  BY <1>0, <1>4 DEF Tended, ByThread
<1>5. ASSUME ByThread(t, h) PROVE Tended(h)'
  <2>0. ASSUME frame'[t].h = h, frame'[t].pc \in {"relate", "client", "arm", "erase"}
        PROVE  Tended(h)'
    BY <2>0 DEF Tended
  <2>1. CASE Relate(t) \/ ClientClose(t)
    <3>1. frame'[t].h = h /\ frame'[t].pc \in {"client", "erase"}
      BY <1>5, <2>1, GotoOnly DEF Relate, ClientClose, ByThread
    <3> QED
      BY <2>0, <3>1
  <2>2. ASSUME NEW kind \in {"recv", "send"}, ClientIo(t, kind) PROVE Tended(h)'
    <3>1. frame'[t].h = h /\ frame'[t].pc \in {"client", "arm"}
      BY <1>5, <2>2, ClientIoFrame DEF ByThread
    <3> QED
      BY <2>0, <3>1
  <2>3. CASE Arm(t)
    <3>1. nops + 1 \in Ops
      BY <2>3, Constants DEF Arm, TypeOK, Ops
    <3>2. ops'[nops + 1] = Started(h, h, frame[t].kind)
      BY <1>5, <2>3, <3>1 DEF Arm, TypeOK, ByThread
    <3>3. ops'[nops + 1].h = h /\ ops'[nops + 1].io = "pending"
      BY <3>2, StartedActive
    <3> QED
      BY <3>1, <3>3 DEF Tended
  <2>4. CASE ArmFails(t)
    <3>1. frame'[t].h = h /\ frame'[t].pc = "client"
      BY <1>5, <2>4, ArmFailsFrame DEF ByThread
    <3> QED
      BY <2>0, <3>1
  <2>5. CASE EraseLink(t)
    BY <1>5, <2>5 DEF EraseLink, ByThread
  <2>6. CASE RegisterServer(t) \/ Unrelate(t) \/ Return(t) \/ SnapshotLinks(t)
             \/ EraseServerLinks(t) \/ UnrelateServerLinks(t) \/ DropServer(t)
    BY <1>5, <2>6 DEF RegisterServer, Unrelate, Return, SnapshotLinks, EraseServerLinks,
       UnrelateServerLinks, DropServer, At, ByThread
  <2> QED
    BY <2>1, <2>2, <2>3, <2>4, <2>5, <2>6 DEF CallStep
<1> QED
  BY <1>2, <1>3, <1>4, <1>5

\* Steps of a thread that was idle: the other threads and, except for the one that is
\* answered, the operations tend what they tended.
LEMMA IdleTendsNone ==
  ASSUME NEW t \in Threads, IsIdle(t), NEW h, \E u \in Threads : ByThread(u, h),
         \A u \in Threads : u # t => frame'[u] = frame[u]
  PROVE  Tended(h)'
<1>1. ~ByThread(t, h)
  BY NewFrame DEF IsIdle, ByThread
<1>2. PICK u \in Threads : ByThread(u, h)
  OBVIOUS
<1> QED
  BY <1>1, <1>2 DEF ByThread, Tended

LEMMA NewLinkTended ==
  ASSUME TypeOK, NoOrphanLink, NEW t \in Threads, IsIdle(t), NEW new, NEW f,
         links' = links \cup {new}, Become(t, f), f.h = new, f.pc \in {"relate", "client"},
         UNCHANGED opVars
  PROVE  NoOrphanLink'
<1> SUFFICES ASSUME NEW h \in links' PROVE Tended(h)'
  BY DEF NoOrphanLink
<1>1. frame'[t] = f /\ \A u \in Threads : u # t => frame'[u] = frame[u]
  BY BecomeOnly
<1>2. CASE h = new
  BY <1>1, <1>2 DEF Tended
<1>3. CASE h \in links
  <2>1. (\E u \in Threads : ByThread(u, h)) \/ (\E o \in Ops : ByOp(o, h))
    BY <1>3, TendedBy DEF NoOrphanLink
  <2>2. ASSUME NEW o \in Ops, ByOp(o, h) PROVE Tended(h)'
    BY <2>2 DEF Tended, ByOp, Active, opVars
  <2> QED
    BY <1>1, <2>1, <2>2, IdleTendsNone
<1> QED
  BY <1>2, <1>3

LEMMA OrphanAnswer ==
  ASSUME TypeOK, OpsFresh, NoOrphanLink, NEW t \in Threads, NEW o \in Ops,
         RunIo(t, o) \/ RunPartial(t, o) \/ RunTimer(t, o)
  PROVE  NoOrphanLink'
<1> SUFFICES ASSUME NEW h \in links' PROVE Tended(h)'
  BY DEF NoOrphanLink
<1>0. /\ h \in links /\ IsIdle(t)
      /\ \A u \in Threads : u # t => frame'[u] = frame[u]
  BY FromIdle DEF RunIo, RunPartial, RunTimer, linkVars, Become, TypeOK
<1>1. (\E u \in Threads : ByThread(u, h)) \/ (\E p \in Ops : ByOp(p, h))
  BY <1>0, TendedBy DEF NoOrphanLink
<1>2. ASSUME NEW p \in Ops, ByOp(p, h) PROVE Tended(h)'
  <2>0. p # nops + 1
    BY <1>2 DEF OpsFresh, ByOp, Active, TypeOK, Ops
  <2>1. CASE RunIo(t, o)
    <3>1. CASE p # o
      <4>1. ops'[p] = ops[p]
        BY <2>1, <3>1 DEF RunIo, TypeOK
      <4> QED
        BY <1>2, <4>1 DEF Tended, ByOp, Active
    <3>2. CASE p = o
      <4>1. HandlesSeen(o) = {h}
        BY <1>0, <1>2, <3>2 DEF HandlesSeen, Exists, ByOp
      <4>2. Become(t, Callback(h, ops[o].io = "err", o))
        BY <2>1, <4>1 DEF RunIo
      <4>3. frame'[t].pc = "client" /\ frame'[t].h = h
        BY <4>2, BecomeOnly, NewFrame
      <4> QED
        BY <4>3 DEF Tended
    <3> QED
      BY <3>1, <3>2
  <2>2. CASE RunPartial(t, o)
    <3>1. CASE p # o
      <4>1. ops'[p] = ops[p]
        BY <2>0, <2>2, <3>1 DEF RunPartial, TypeOK
      <4> QED
        BY <1>2, <4>1 DEF Tended, ByOp, Active
    <3>2. CASE p = o
      <4>1. nops + 1 \in Ops
        BY <2>2, Constants DEF RunPartial, TypeOK, Ops
      <4>0. HandlesSeen(o) = {h}
        BY <1>0, <1>2, <3>2 DEF HandlesSeen, Exists, ByOp
      <4>2. ops'[nops + 1] = Started(h, ops[o].own, "send")
        BY <2>2, <4>0, <4>1 DEF RunPartial, TypeOK
      <4> QED
        BY <4>1, <4>2, StartedActive DEF Tended
    <3> QED
      BY <3>1, <3>2
  <2>3. CASE RunTimer(t, o)
    <3>1. ops'[p].h = ops[p].h /\ ops'[p].io = ops[p].io
      BY <2>3 DEF RunTimer, TypeOK, Operation
    <3> QED
      BY <1>2, <3>1 DEF Tended, ByOp, Active
  <2> QED
    BY <2>1, <2>2, <2>3
<1> QED
  BY <1>0, <1>1, <1>2, IdleTendsNone

LEMMA OrphanFromIdle ==
  ASSUME TypeOK, OpsFresh, NoOrphanLink, NEW t \in Threads, Dispatch(t) \/ AppCall(t)
  PROVE  NoOrphanLink'
<1>1. ASSUME NEW s \in Servers, AcceptOk(t, s) PROVE NoOrphanLink'
  <2>1. Enter("relate", NewHandle, s).h = NewHandle /\ Enter("relate", NewHandle, s).pc = "relate"
    BY NewFrame
  <2> QED
    BY <1>1, <2>1, NewLinkTended DEF AcceptOk
<1>2. CASE StartClient(t)
  <2>1. Callback(NewHandle, FALSE, None).h = NewHandle /\ Callback(NewHandle, FALSE, None).pc = "client"
    BY DEF Callback, Idle
  <2> QED
    BY <1>2, <2>1, NewLinkTended DEF StartClient
<1>3. ASSUME IsIdle(t), UNCHANGED <<links, opVars>>,
             \A u \in Threads : u # t => frame'[u] = frame[u]
      PROVE  NoOrphanLink'
  <2> SUFFICES ASSUME NEW h \in links PROVE Tended(h)'
    BY <1>3 DEF NoOrphanLink
  <2>1. (\E u \in Threads : ByThread(u, h)) \/ (\E o \in Ops : ByOp(o, h))
    BY TendedBy DEF NoOrphanLink
  <2>2. ASSUME NEW o \in Ops, ByOp(o, h) PROVE Tended(h)'
    BY <1>3, <2>2 DEF Tended, ByOp, Active, opVars
  <2> QED
    BY <1>3, <2>1, <2>2, IdleTendsNone
<1>4. \A u \in Threads : u # t => frame'[u] = frame[u]
  BY FromIdle
<1>5. ASSUME NEW s \in Servers, AcceptError(t, s) \/ StartServer(t, s) \/ StopServer(t, s)
      PROVE  NoOrphanLink'
  BY <1>3, <1>4, <1>5 DEF AcceptError, StartServer, StopServer, linkVars
<1>6. ASSUME NEW h \in Handles, AppCloseLink(t, h) PROVE NoOrphanLink'
  BY <1>3, <1>4, <1>6 DEF AppCloseLink, linkVars
<1> QED
  BY <1>1, <1>2, <1>5, <1>6, OrphanAnswer DEF Dispatch, AppCall

LEMMA OrphanEnvironment ==
  ASSUME TypeOK, NoOrphanLink, Environment
  PROVE  NoOrphanLink'
<1> SUFFICES ASSUME NEW h \in links' PROVE Tended(h)'
  BY DEF NoOrphanLink
<1>0. h \in links /\ frame' = frame
  BY DEF Environment, IoCompletes, TimerExpires, linkVars
<1>1. PICK o \in Ops : IoCompletes(o) \/ TimerExpires(o)
  BY DEF Environment
<1>2. (\E u \in Threads : ByThread(u, h)) \/ (\E p \in Ops : ByOp(p, h))
  BY <1>0, TendedBy DEF NoOrphanLink
<1>3. ASSUME NEW u \in Threads, ByThread(u, h) PROVE Tended(h)'
  BY <1>0, <1>3 DEF Tended, ByThread
<1>4. ASSUME NEW p \in Ops, ByOp(p, h) PROVE Tended(h)'
  <2>1. ops \in [Ops -> Operation]
    BY DEF TypeOK
  <2>2. CASE IoCompletes(o)
    <3>1. ops'[p].h = ops[p].h /\ (ops'[p].io = ops[p].io \/ ops'[p].io \in {"ok", "partial", "err"})
      BY <2>1, <2>2 DEF IoCompletes, Operation
    <3> QED
      BY <1>4, <3>1 DEF Tended, ByOp, Active
  <2>3. CASE TimerExpires(o)
    <3>1. ops'[p].h = ops[p].h /\ ops'[p].io = ops[p].io
      BY <2>1, <2>3 DEF TimerExpires, Operation
    <3> QED
      BY <1>4, <3>1 DEF Tended, ByOp, Active
  <2> QED
    BY <1>1, <2>2, <2>3
<1> QED
  BY <1>2, <1>3, <1>4

\* Only callbacks close links.  Every registered link is in the hands of a thread or of
\* an unanswered operation, through every error path, time-out, short write and freed
\* TcpLink: none is left open for good.
THEOREM NoLinkForgotten == Spec => []NoOrphanLink
<1>1. Init => NoOrphanLink
  BY DEF Init, NoOrphanLink
<1>2. TypeOK /\ OpsFresh /\ NoOrphanLink /\ [Next]_vars => NoOrphanLink'
  <2> SUFFICES ASSUME TypeOK, OpsFresh, NoOrphanLink, [Next]_vars PROVE NoOrphanLink'
    OBVIOUS
  <2>1. CASE UNCHANGED vars
    BY <2>1 DEF vars, linkVars, opVars, NoOrphanLink, Tended
  <2> QED
    BY <2>1, OrphanCallStep, OrphanFromIdle, OrphanEnvironment, Constants DEF Next
<1> QED
  BY <1>1, <1>2, TypeCorrect, OpsFreshCorrect, PTL DEF Spec
-----------------------------------------------------------------------------
(* The accept slots.                                                       *)

\* The threads that are handling an accept of server s.
Acceptors(s) == {t \in Threads : Accepting(t) /\ frame[t].s = s}

\* A server is registered once, by the call that started it, and not stopped before;
\* who closes one has stopped it.
LifeOK ==
  /\ \A t \in Threads : At(t, "register") =>
       frame[t].s \in Servers /\ server[frame[t].s] = "listening"
  /\ \A t, u \in Threads :
       At(t, "register") /\ At(u, "register") /\ frame[t].s = frame[u].s => t = u
  /\ \A t \in Threads : frame[t].pc \in {"snapshot", "srv_erase", "srv_unrelate", "srv_drop"} =>
       frame[t].s \in Servers /\ server[frame[t].s] \in {"stopped", "erased"}

\* No thread starts or ends the life of a server.
LEMMA LifeKept ==
  ASSUME TypeOK, LifeOK, NEW t \in Threads, UNCHANGED server,
         \A u \in Threads : u # t => frame'[u] = frame[u],
         frame'[t].pc # "register",
         frame'[t].pc \in {"snapshot", "srv_erase", "srv_unrelate", "srv_drop"} =>
           /\ frame[t].pc \in {"snapshot", "srv_erase", "srv_unrelate", "srv_drop"}
           /\ frame'[t].s = frame[t].s
  PROVE  LifeOK'
BY DEF LifeOK, At

LEMMA SnapshotFrame ==
  ASSUME TypeOK, NEW t \in Threads, SnapshotLinks(t)
  PROVE  /\ frame[t].pc = "snapshot" /\ frame'[t].pc = "srv_erase"
         /\ frame'[t].s = frame[t].s
BY DEF SnapshotLinks, Become, TypeOK, Frame, At

LEMMA LifeCallStep ==
  ASSUME TypeOK, LifeOK, NEW t \in Threads, CallStep(t)
  PROVE  LifeOK'
<1>0. \A u \in Threads : u # t => frame'[u] = frame[u]
  BY CallStepPc
<1>1. CASE RegisterServer(t)
  <2>1. frame'[t].pc = "idle"
    BY <1>1, BecomeOnly, NewFrame DEF RegisterServer
  <2>2. /\ frame[t].s \in Servers /\ server[frame[t].s] = "listening"
        /\ server' = [server EXCEPT ![frame[t].s] = "registered"]
        /\ server \in [Servers -> ServerState]
    BY <1>1 DEF RegisterServer, LifeOK, TypeOK
  <2>3. ASSUME NEW u \in Threads, At(u, "register")'
        PROVE  frame'[u] = frame[u] /\ u # t /\ frame[u].s # frame[t].s
    BY <1>0, <1>1, <2>1, <2>3 DEF RegisterServer, LifeOK, At
  <2>4. ASSUME NEW u \in Threads,
               frame'[u].pc \in {"snapshot", "srv_erase", "srv_unrelate", "srv_drop"}
        PROVE  /\ frame'[u].s \in Servers
               /\ server'[frame'[u].s] \in {"stopped", "erased"}
    BY <1>0, <2>1, <2>2, <2>4 DEF LifeOK, At
  <2> QED
    BY <2>2, <2>3, <2>4 DEF LifeOK, At
<1>2. CASE DropServer(t)
  <2>1. frame'[t].pc = "idle"
    BY <1>2, BecomeOnly, NewFrame DEF DropServer
  <2>2. /\ frame[t].s \in Servers /\ server[frame[t].s] \in {"stopped", "erased"}
        /\ server' = [server EXCEPT ![frame[t].s] = "erased"]
        /\ server \in [Servers -> ServerState]
    BY <1>2 DEF DropServer, LifeOK, TypeOK, At
  <2> QED
    BY <1>0, <2>1, <2>2 DEF LifeOK, At
<1>3. CASE SnapshotLinks(t)
  <2>1. UNCHANGED server
    BY <1>3 DEF SnapshotLinks, serverVars
  <2> QED
    BY <1>0, <1>3, <2>1, SnapshotFrame, LifeKept
<1>4. CASE EraseServerLinks(t) \/ UnrelateServerLinks(t)
  <2>1. /\ frame[t].pc \in {"srv_erase", "srv_unrelate"}
        /\ frame'[t].pc \in {"srv_unrelate", "srv_drop"} /\ frame'[t].s = frame[t].s
        /\ UNCHANGED server
    BY <1>4, GotoOnly DEF EraseServerLinks, UnrelateServerLinks, At, serverVars
  <2> QED
    BY <1>0, <2>1, LifeKept
<1>5. ASSUME NEW kind \in {"recv", "send"}, ClientIo(t, kind) PROVE LifeOK'
  BY <1>0, <1>5, ClientIoFrame, LifeKept DEF ClientIo, serverVars
<1>6. CASE ArmFails(t)
  BY <1>0, <1>6, ArmFailsFrame, LifeKept DEF ArmFails, serverVars
<1>7. CASE Relate(t) \/ Arm(t) \/ ClientClose(t) \/ EraseLink(t) \/ Unrelate(t)
  <2>1. frame'[t].pc \in {"client", "back", "erase", "unrelate"} /\ UNCHANGED server
    BY <1>7, GotoOnly DEF Relate, Arm, ClientClose, EraseLink, Unrelate, serverVars
  <2> QED
    BY <1>0, <2>1, LifeKept
<1>8. CASE Return(t)
  <2>1. frame'[t].pc = "idle" /\ UNCHANGED server
    BY <1>8, BecomeOnly, NewFrame DEF Return
  <2> QED
    BY <1>0, <2>1, LifeKept
<1> QED
  BY <1>1, <1>2, <1>3, <1>4, <1>5, <1>6, <1>7, <1>8 DEF CallStep

LEMMA LifeFromIdle ==
  ASSUME TypeOK, LifeOK, NEW t \in Threads, Dispatch(t) \/ AppCall(t)
  PROVE  LifeOK'
<1>0. \A u \in Threads : u # t => frame'[u] = frame[u]
  BY FromIdle
<1>1. ASSUME NEW s \in Servers, StartServer(t, s) PROVE LifeOK'
  <2>1. CASE frame' = frame
    BY <1>1, <2>1 DEF StartServer, LifeOK, At, TypeOK
  <2>2. CASE Become(t, Enter("register", None, s)) /\ server' = [server EXCEPT ![s] = "listening"]
    <3>1. frame'[t].pc = "register" /\ frame'[t].s = s
      BY <2>2, BecomeOnly, NewFrame
    <3>2. server[s] = "new" /\ server'[s] = "listening"
          /\ \A r \in Servers : r # s => server'[r] = server[r]
      BY <1>1, <2>2 DEF StartServer, TypeOK
    <3> QED
      BY <1>0, <3>1, <3>2 DEF LifeOK, At
  <2> QED
    BY <1>1, <2>1, <2>2 DEF StartServer
<1>2. ASSUME NEW s \in Servers, StopServer(t, s) PROVE LifeOK'
  <2>1. frame'[t].pc = "snapshot" /\ frame'[t].s = s
    BY <1>2, BecomeOnly, NewFrame DEF StopServer
  <2>2. server[s] = "registered" /\ server'[s] = "stopped"
        /\ \A r \in Servers : r # s => server'[r] = server[r]
    BY <1>2 DEF StopServer, TypeOK
  <2> QED
    BY <1>0, <2>1, <2>2 DEF LifeOK, At
<1>3. CASE frame' = frame /\ UNCHANGED server
  BY <1>3 DEF LifeOK, At
<1>4. ASSUME UNCHANGED server, frame'[t].pc \in {"relate", "client", "erase"} PROVE LifeOK'
  BY <1>0, <1>4, LifeKept
<1>5. ASSUME NEW s \in Servers, AcceptOk(t, s) \/ AcceptError(t, s) PROVE LifeOK'
  BY <1>3, <1>4, <1>5, BecomeOnly, NewFrame DEF AcceptOk, AcceptError
<1>6. ASSUME NEW o \in Ops, RunIo(t, o) PROVE LifeOK'
  <2>1. PICK h \in HandlesSeen(o) : Become(t, Callback(h, ops[o].io = "err", o))
    BY <1>6 DEF RunIo
  <2>2. Callback(h, ops[o].io = "err", o).pc = "client"
    BY DEF Callback, Idle
  <2> QED
    BY <1>4, <1>6, <2>1, <2>2, BecomeOnly DEF RunIo, serverVars
<1>7. ASSUME NEW o \in Ops, RunPartial(t, o) \/ RunTimer(t, o) PROVE LifeOK'
  <2>1. Callback(ops[o].h, TRUE, o).pc = "client"
    BY DEF Callback, Idle
  <2> QED
    BY <1>3, <1>4, <1>7, <2>1, BecomeOnly DEF RunPartial, RunTimer, serverVars
<1>8. CASE StartClient(t)
  <2>1. Callback(NewHandle, FALSE, None).pc = "client"
    BY DEF Callback, Idle
  <2> QED
    BY <1>4, <1>8, <2>1, BecomeOnly DEF StartClient, serverVars
<1>9. ASSUME NEW h \in Handles, AppCloseLink(t, h) PROVE LifeOK'
  BY <1>4, <1>9, BecomeOnly, NewFrame DEF AppCloseLink, serverVars
<1> QED
  BY <1>1, <1>2, <1>5, <1>6, <1>7, <1>8, <1>9 DEF Dispatch, AppCall

LEMMA LifeCorrect == Spec => []LifeOK
<1>1. Init => LifeOK
  BY NewFrame DEF Init, LifeOK, At
<1>2. TypeOK /\ LifeOK /\ [Next]_vars => LifeOK'
  <2> SUFFICES ASSUME TypeOK, LifeOK, [Next]_vars PROVE LifeOK'
    OBVIOUS
  <2>1. CASE Environment \/ UNCHANGED vars
    BY <2>1 DEF Environment, IoCompletes, TimerExpires, vars, serverVars, LifeOK, At
  <2> QED
    BY <2>1, LifeCallStep, LifeFromIdle, Constants DEF Next
<1> QED
  BY <1>1, <1>2, TypeCorrect, PTL DEF Spec

Running(s) == server[s] \in {"listening", "registered"}

\* The accepts of a server: none before it is started, and while it runs at most as many
\* as it was started with, armed or in the hands of a thread.
SlotsOf(s) ==
  /\ IsFiniteSet(Acceptors(s))
  /\ server[s] = "new" => Acceptors(s) = {}
  /\ Running(s) => armed[s] + Cardinality(Acceptors(s)) <= AcceptNum
SlotsOK == \A s \in Servers : SlotsOf(s)

\* What a step does to the accepts of a running server: nothing, or it loses one.
Same(s) ==
  Running(s) /\ Running(s)' =>
    armed'[s] + Cardinality(Acceptors(s)') = armed[s] + Cardinality(Acceptors(s))
Lost(t, s) ==
  /\ AcceptError(t, s)
  /\ armed'[s] + Cardinality(Acceptors(s)') = armed[s] + Cardinality(Acceptors(s)) - 1
SlotsStep(s) == SlotsOf(s)' /\ Same(s)

\* A step that leaves the accepts and the servers' state alone.
LEMMA SlotsKept ==
  ASSUME SlotsOK, UNCHANGED armed, \A s \in Servers : Acceptors(s)' = Acceptors(s),
         \A s \in Servers : \/ server'[s] = server[s]
                            \/ server'[s] \in {"stopped", "erased"}
                            \/ server[s] = "listening" /\ server'[s] = "registered"
  PROVE  \A s \in Servers : SlotsStep(s)
<1> SUFFICES ASSUME NEW s \in Servers PROVE SlotsStep(s)
  OBVIOUS
<1>1. Acceptors(s)' = Acceptors(s) /\ armed' = armed
  OBVIOUS
<1>2. SlotsOf(s)
  BY DEF SlotsOK
<1> QED
  BY <1>1, <1>2 DEF SlotsStep, SlotsOf, Same, Running

\* Only the frame of t changes, and t accepts for the same server as before or for none.
LEMMA AcceptorsKept ==
  ASSUME NEW t \in Threads, \A u \in Threads : u # t => frame'[u] = frame[u],
         Accepting(t)' <=> Accepting(t), Accepting(t) => frame'[t].s = frame[t].s,
         NEW s
  PROVE  Acceptors(s)' = Acceptors(s)
BY DEF Acceptors, Accepting

LEMMA SlotsCallStep ==
  ASSUME TypeOK, LifeOK, SlotsOK, NEW t \in Threads, CallStep(t)
  PROVE  \A r \in Servers : SlotsStep(r)
<1> DEFINE Inside == {"relate", "client", "arm", "erase", "unrelate", "back"}
<1>0. \A u \in Threads : u # t => frame'[u] = frame[u]
  BY CallStepPc
<1>1. ASSUME UNCHANGED <<server, armed>>, frame[t].pc \in Inside, frame'[t].pc \in Inside,
             frame'[t].s = frame[t].s
      PROVE  \A r \in Servers : SlotsStep(r)
  <2>1. \A s : Acceptors(s)' = Acceptors(s)
    BY <1>0, <1>1, AcceptorsKept DEF Accepting
  <2> QED
    BY <1>1, <2>1, SlotsKept
<1>2. ASSUME UNCHANGED armed, frame[t].pc \notin Inside, frame'[t].pc \notin Inside,
             \A s \in Servers : \/ server'[s] = server[s]
                                \/ server'[s] \in {"stopped", "erased"}
                                \/ server[s] = "listening" /\ server'[s] = "registered"
      PROVE  \A r \in Servers : SlotsStep(r)
  <2>1. \A s : Acceptors(s)' = Acceptors(s)
    BY <1>0, <1>2, AcceptorsKept DEF Accepting
  <2> QED
    BY <1>2, <2>1, SlotsKept
<1>3. CASE RegisterServer(t) \/ DropServer(t)
  <2>1. frame'[t].pc = "idle" /\ frame[t].pc \in {"register", "srv_drop"} /\ armed' = armed
    BY <1>3, BecomeOnly, NewFrame DEF RegisterServer, DropServer, At
  <2>2. \A s \in Servers : \/ server'[s] = server[s]
                           \/ server'[s] \in {"stopped", "erased"}
                           \/ server[s] = "listening" /\ server'[s] = "registered"
    BY <1>3 DEF RegisterServer, DropServer, LifeOK, TypeOK
  <2> QED
    BY <1>2, <2>1, <2>2
<1>4. CASE SnapshotLinks(t)
  <2>1. UNCHANGED <<server, armed>>
    BY <1>4 DEF SnapshotLinks, serverVars
  <2> QED
    BY <1>2, <1>4, <2>1, SnapshotFrame
<1>5. CASE EraseServerLinks(t) \/ UnrelateServerLinks(t)
  <2>1. /\ frame[t].pc \in {"srv_erase", "srv_unrelate"}
        /\ frame'[t].pc \in {"srv_unrelate", "srv_drop"}
        /\ UNCHANGED <<server, armed>>
    BY <1>5, GotoOnly DEF EraseServerLinks, UnrelateServerLinks, At, serverVars
  <2> QED
    BY <1>2, <2>1
<1>6. ASSUME NEW kind \in {"recv", "send"}, ClientIo(t, kind) PROVE \A r \in Servers : SlotsStep(r)
  BY <1>1, <1>6, ClientIoFrame DEF ClientIo, serverVars
<1>7. CASE ArmFails(t)
  BY <1>1, <1>7, ArmFailsFrame DEF ArmFails, serverVars
<1>8. CASE Relate(t) \/ Arm(t) \/ ClientClose(t) \/ EraseLink(t) \/ Unrelate(t)
  <2>1. /\ frame[t].pc \in Inside /\ frame'[t].pc \in Inside /\ frame'[t].s = frame[t].s
        /\ UNCHANGED <<server, armed>>
    BY <1>8, GotoOnly DEF Relate, Arm, ClientClose, EraseLink, Unrelate, At, serverVars
  <2> QED
    BY <1>1, <2>1
<1>9. CASE Return(t) /\ ~Accepting(t)
  <2>1. frame'[t].pc = "idle" /\ UNCHANGED <<server, armed>>
    BY <1>9, BecomeOnly, NewFrame DEF Return
  <2>2. \A s : Acceptors(s)' = Acceptors(s)
    BY <1>0, <1>9, <2>1, AcceptorsKept DEF Accepting
  <2> QED
    BY <2>1, <2>2, SlotsKept
<1>10. CASE Return(t) /\ Accepting(t)
  <2>1. frame'[t].pc = "idle" /\ UNCHANGED server /\ armed' = Rearmed(frame[t].s)
    BY <1>10, BecomeOnly, NewFrame DEF Return
  <2>2. \A s : Acceptors(s)' = Acceptors(s) \ {u \in {t} : frame[t].s = s}
    BY <1>0, <1>10, <2>1 DEF Acceptors, Accepting
  <2> SUFFICES ASSUME NEW s \in Servers PROVE SlotsStep(s)
    OBVIOUS
  <2>3. /\ IsFiniteSet(Acceptors(s)) /\ armed[s] \in Nat
        /\ server[s] = "new" => Acceptors(s) = {}
    BY DEF SlotsOK, SlotsOf, TypeOK
  <2>4. Cardinality(Acceptors(s)) \in Nat
    BY <2>3, FS_CardinalityType
  <2>5. CASE frame[t].s = s
    <3>1. t \in Acceptors(s) /\ Acceptors(s)' = Acceptors(s) \ {t}
      BY <1>10, <2>2, <2>5 DEF Acceptors
    <3>2. /\ IsFiniteSet(Acceptors(s)')
          /\ Cardinality(Acceptors(s)') = Cardinality(Acceptors(s)) - 1
      BY <2>3, <3>1, FS_RemoveElement
    <3>3. server[s] \in {"listening", "registered"} => armed'[s] = armed[s] + 1
      BY <2>1, <2>5 DEF Rearmed, TypeOK
    <3> QED
      BY <2>1, <2>3, <2>4, <3>1, <3>2, <3>3, Constants DEF SlotsOK, SlotsOf, SlotsStep, Same, Running
  <2>6. CASE frame[t].s # s
    <3>1. Acceptors(s)' = Acceptors(s) /\ armed'[s] = armed[s]
      BY <2>1, <2>2, <2>6 DEF Rearmed, TypeOK
    <3> QED
      BY <2>1, <3>1 DEF SlotsOK, SlotsOf, SlotsStep, Same, Running
  <2> QED
    BY <2>5, <2>6
<1> QED
  BY <1>3, <1>4, <1>5, <1>6, <1>7, <1>8, <1>9, <1>10 DEF CallStep

LEMMA SlotsFromIdle ==
  ASSUME TypeOK, SlotsOK, NEW t \in Threads, Dispatch(t) \/ AppCall(t)
  PROVE  /\ AppCall(t) => \A r \in Servers : SlotsStep(r)
         /\ \A r \in Servers : SlotsOf(r)' /\ (Same(r) \/ Lost(t, r))
<1>0. /\ \A u \in Threads : u # t => frame'[u] = frame[u]
      /\ ~Accepting(t)
  BY FromIdle DEF Accepting, At
<1>1. ASSUME UNCHANGED <<server, armed>>, ~Accepting(t)' PROVE \A r \in Servers : SlotsStep(r)
  <2>1. \A s : Acceptors(s)' = Acceptors(s)
    BY <1>0, <1>1, AcceptorsKept
  <2> QED
    BY <1>1, <2>1, SlotsKept
<1>2. ~(\E s \in Servers : AcceptOk(t, s)) => ~Accepting(t)'
  <2>1. ASSUME NEW o \in Ops, RunIo(t, o) PROVE frame'[t].pc = "client"
    <3>1. PICK h \in HandlesSeen(o) : Become(t, Callback(h, ops[o].io = "err", o))
      BY <2>1 DEF RunIo
    <3>2. Callback(h, ops[o].io = "err", o).pc = "client"
      BY DEF Callback, Idle
    <3> QED
      BY <3>1, <3>2, BecomeOnly
  <2>2. ASSUME NEW s \in Servers, AcceptError(t, s) \/ StartServer(t, s) \/ StopServer(t, s)
        PROVE  frame'[t].pc \in {"idle", "register", "snapshot"}
    BY <2>2, BecomeOnly, NewFrame DEF AcceptError, StartServer, StopServer, IsIdle
  <2>3. ASSUME NEW o \in Ops, RunPartial(t, o) PROVE frame'[t].pc = "idle"
    BY <2>3, NewFrame DEF RunPartial, IsIdle
  <2>4. ASSUME NEW o \in Ops, RunTimer(t, o) PROVE frame'[t].pc = "client"
    <3>1. Callback(ops[o].h, TRUE, o).pc = "client"
      BY DEF Callback, Idle
    <3> QED
      BY <2>4, <3>1, BecomeOnly DEF RunTimer
  <2>5. StartClient(t) => frame'[t].pc = "client"
    <3>1. Callback(NewHandle, FALSE, None).pc = "client"
      BY DEF Callback, Idle
    <3> QED
      BY <3>1, BecomeOnly DEF StartClient
  <2>6. ASSUME NEW h \in Handles, AppCloseLink(t, h) PROVE frame'[t].pc = "erase"
    BY <2>6, BecomeOnly, NewFrame DEF AppCloseLink
  <2>7. frame'[t].pc \in {"client", "erase"} => frame'[t].s = None
    BY FromIdle
  <2> QED
    BY <2>1, <2>2, <2>3, <2>4, <2>5, <2>6, <2>7 DEF Dispatch, AppCall, Accepting
<1>3. ASSUME NEW s \in Servers, AcceptOk(t, s) PROVE \A r \in Servers : SlotsStep(r)
  <2>1. frame'[t].pc = "relate" /\ frame'[t].s = s /\ UNCHANGED server
        /\ armed' = [armed EXCEPT ![s] = @ - 1]
    BY <1>3, BecomeOnly, NewFrame DEF AcceptOk
  <2>2. \A r \in Servers : Acceptors(r)' = Acceptors(r) \cup {u \in {t} : r = s}
    BY <1>0, <2>1, Constants DEF Acceptors, Accepting
  <2> SUFFICES ASSUME NEW r \in Servers PROVE SlotsStep(r)
    OBVIOUS
  <2>3. IsFiniteSet(Acceptors(r)) /\ armed[r] \in Nat
    BY DEF SlotsOK, SlotsOf, TypeOK
  <2>4. Cardinality(Acceptors(r)) \in Nat
    BY <2>3, FS_CardinalityType
  <2>5. CASE r = s
    <3>1. t \notin Acceptors(s) /\ Acceptors(s)' = Acceptors(s) \cup {t}
      BY <1>0, <2>2 DEF Acceptors
    <3>2. /\ IsFiniteSet(Acceptors(s)')
          /\ Cardinality(Acceptors(s)') = Cardinality(Acceptors(s)) + 1
      BY <2>3, <2>5, <3>1, FS_AddElement
    <3>3. armed'[s] = armed[s] - 1 /\ server[s] # "new"
      BY <1>3, <2>1 DEF TypeOK, AcceptOk
    <3> QED
      BY <2>1, <2>3, <2>4, <2>5, <3>1, <3>2, <3>3, Constants DEF SlotsOK, SlotsOf, SlotsStep, Same, Running
  <2>6. CASE r # s
    <3>1. Acceptors(r)' = Acceptors(r) /\ armed'[r] = armed[r]
      BY <2>1, <2>2, <2>6 DEF TypeOK
    <3> QED
      BY <2>1, <3>1 DEF SlotsOK, SlotsOf, SlotsStep, Same, Running
  <2> QED
    BY <2>5, <2>6
<1>4. ASSUME NEW s \in Servers, AcceptError(t, s)
      PROVE  \A r \in Servers : SlotsOf(r)' /\ (Same(r) \/ Lost(t, r))
  <2>1. UNCHANGED <<server, frame>> /\ armed' = [armed EXCEPT ![s] = @ - 1]
    BY <1>4 DEF AcceptError
  <2> SUFFICES ASSUME NEW r \in Servers
               PROVE  SlotsOf(r)' /\ (Same(r) \/ Lost(t, r))
    OBVIOUS
  <2>2. Acceptors(r)' = Acceptors(r)
    BY <2>1 DEF Acceptors, Accepting
  <2>3. /\ IsFiniteSet(Acceptors(r)) /\ armed[r] \in Nat
        /\ armed'[r] = IF r = s THEN armed[r] - 1 ELSE armed[r]
    BY <2>1 DEF SlotsOK, SlotsOf, TypeOK
  <2>4. Cardinality(Acceptors(r)) \in Nat
    BY <2>3, FS_CardinalityType
  <2>5. SlotsOf(r)'
    BY <2>1, <2>2, <2>3, <2>4, Constants DEF SlotsOK, SlotsOf, Running
  <2>6. Same(r) \/ Lost(t, r)
    BY <1>4, <2>2, <2>3, <2>4 DEF Same, Lost
  <2> QED
    BY <2>5, <2>6
<1>5. ASSUME NEW s \in Servers, StartServer(t, s) PROVE \A r \in Servers : SlotsStep(r)
  <2>0. frame'[t].pc \in {"idle", "register"}
    BY <1>5, BecomeOnly, NewFrame DEF StartServer, IsIdle
  <2>1. \A r : Acceptors(r)' = Acceptors(r)
    BY <1>0, <2>0, AcceptorsKept DEF Accepting
  <2>2. CASE server' = [server EXCEPT ![s] = "erased"] /\ armed' = armed
    BY <2>1, <2>2, SlotsKept DEF TypeOK
  <2>3. CASE server' = [server EXCEPT ![s] = "listening"] /\ armed' = [armed EXCEPT ![s] = AcceptNum]
    <3>1. Acceptors(s) = {} /\ server[s] = "new"
      BY <1>5 DEF StartServer, SlotsOK, SlotsOf, SlotsStep, Same, Running
    <3>2. armed'[s] = AcceptNum /\ server'[s] = "listening"
      BY <2>3 DEF TypeOK
    <3>3. \A r \in Servers : r # s => armed'[r] = armed[r] /\ server'[r] = server[r]
      BY <2>3 DEF TypeOK
    <3>4. ASSUME NEW r \in Servers PROVE SlotsStep(r)
      <4>1. Acceptors(r)' = Acceptors(r)
        BY <2>1
      <4>2. CASE r = s
        <5>1. IsFiniteSet(Acceptors(r)') /\ Cardinality(Acceptors(r)') = 0 /\ ~Running(r)
          BY <3>1, <4>1, <4>2, FS_EmptySet DEF Running
        <5>2. armed'[r] = AcceptNum /\ server'[r] = "listening"
          BY <3>2, <4>2
        <5> QED
          BY <5>1, <5>2, Constants DEF SlotsStep, SlotsOf, Same, Running
      <4>3. CASE r # s
        BY <3>3, <4>1, <4>3 DEF SlotsOK, SlotsOf, SlotsStep, Same, Running
      <4> QED
        BY <4>2, <4>3
    <3> QED
      BY <3>4 DEF SlotsOK, SlotsOf, SlotsStep, Same, Running
  <2> QED
    BY <1>5, <2>2, <2>3 DEF StartServer
<1>6. ASSUME NEW s \in Servers, StopServer(t, s) PROVE \A r \in Servers : SlotsStep(r)
  <2>1. \A r : Acceptors(r)' = Acceptors(r)
    BY <1>0, <1>6, AcceptorsKept, BecomeOnly, NewFrame DEF StopServer, Accepting
  <2> QED
    BY <1>6, <2>1, SlotsKept DEF StopServer, TypeOK
<1>7. ASSUME \/ StartClient(t) \/ \E h \in Handles : AppCloseLink(t, h)
             \/ \E o \in Ops : RunIo(t, o) \/ RunPartial(t, o) \/ RunTimer(t, o)
      PROVE  \A r \in Servers : SlotsStep(r)
  <2>1. UNCHANGED <<server, armed>>
    BY <1>7 DEF StartClient, AppCloseLink, RunIo, RunPartial, RunTimer, serverVars
  <2>2. ASSUME NEW s \in Servers PROVE ~AcceptOk(t, s)
    <3>1. armed[s] \in Nat /\ armed' = armed
      BY <2>1 DEF TypeOK
    <3>2. armed' = [armed EXCEPT ![s] = @ - 1] => armed'[s] = armed[s] - 1
      BY DEF TypeOK
    <3> QED
      BY <3>1, <3>2 DEF AcceptOk
  <2>3. ~Accepting(t)'
    BY <1>2, <2>2
  <2> QED
    BY <1>1, <2>1, <2>3
<1>8. AppCall(t) => \A r \in Servers : SlotsStep(r)
  BY <1>5, <1>6, <1>7 DEF AppCall
<1>9. Dispatch(t) => \A r \in Servers : SlotsOf(r)' /\ (Same(r) \/ Lost(t, r))
  BY <1>3, <1>4, <1>7 DEF Dispatch, SlotsStep
<1> QED
  BY <1>8, <1>9 DEF SlotsStep

\* Every step keeps the accounts of every server, and takes an accept of a running one
\* only where a worker handles a failed accept.
LEMMA SlotsNext ==
  ASSUME TypeOK, LifeOK, SlotsOK, [Next]_vars, NEW s \in Servers
  PROVE  SlotsOf(s)' /\ (Same(s) \/ \E t \in Workers : Lost(t, s))
<1>1. CASE Environment \/ UNCHANGED vars
  <2>1. UNCHANGED <<server, armed, frame>>
    BY <1>1 DEF Environment, IoCompletes, TimerExpires, vars, serverVars
  <2>2. \A r : Acceptors(r)' = Acceptors(r)
    BY <2>1 DEF Acceptors, Accepting
  <2> QED
    BY <2>1, <2>2, SlotsKept DEF SlotsStep
<1>2. ASSUME NEW t \in Threads, CallStep(t) PROVE SlotsStep(s)
  BY <1>2, SlotsCallStep
<1>3. ASSUME NEW t \in Apps, AppCall(t) PROVE SlotsStep(s)
  BY <1>3, SlotsFromIdle, Constants
<1>4. ASSUME NEW t \in Workers, Dispatch(t) PROVE SlotsOf(s)' /\ (Same(s) \/ Lost(t, s))
  BY <1>4, SlotsFromIdle, Constants
<1> QED
  BY <1>1, <1>2, <1>3, <1>4 DEF Next, SlotsStep

LEMMA SlotsCorrect == Spec => []SlotsOK
<1>1. Init => SlotsOK
  <2> SUFFICES ASSUME Init PROVE SlotsOK
    OBVIOUS
  <2>1. \A s \in Servers : Acceptors(s) = {} /\ server[s] = "new"
    BY NewFrame DEF Init, Acceptors, Accepting
  <2> QED
    BY <2>1, FS_EmptySet DEF SlotsOK, SlotsOf, Running
<1>2. TypeOK /\ LifeOK /\ SlotsOK /\ [Next]_vars => SlotsOK'
  BY SlotsNext DEF SlotsOK
<1> QED
  BY <1>1, <1>2, TypeCorrect, LifeCorrect, PTL DEF Spec

\* A running server loses an accept, for good, only to an accept that ended in an error,
\* and one to each (tcp_server.cpp:88 does not call accept() again): no error path of the
\* accept callback, no failed allocation, no close of the link it was given or of another
\* server takes one, whatever the threads do in between.
THEOREM SlotsLost == Spec => SlotsLostToErrorsOnly
<1> DEFINE Step ==
      \A s \in Servers :
        /\ server[s] \in {"listening", "registered"}
        /\ server'[s] \in {"listening", "registered"}
        /\ Slots(s)' # Slots(s)
        => Slots(s)' = Slots(s) - 1 /\ \E t \in Workers : AcceptError(t, s)
<1>1. TypeOK /\ LifeOK /\ SlotsOK /\ [Next]_vars => [Step]_vars
  <2> SUFFICES ASSUME TypeOK, LifeOK, SlotsOK, [Next]_vars, NEW s \in Servers,
                      Running(s), Running(s)', Slots(s)' # Slots(s)
               PROVE  Slots(s)' = Slots(s) - 1 /\ \E t \in Workers : AcceptError(t, s)
    BY DEF Running
  <2>1. Slots(s) = armed[s] + Cardinality(Acceptors(s))
    BY DEF Slots, Acceptors
  <2>2. Slots(s)' = armed'[s] + Cardinality(Acceptors(s)')
    BY DEF Slots, Acceptors
  <2>3. Same(s) \/ \E t \in Workers : Lost(t, s)
    BY SlotsNext
  <2>4. ~Same(s)
    BY <2>1, <2>2 DEF Same
  <2>5. PICK t \in Workers : Lost(t, s)
    BY <2>3, <2>4
  <2>6. armed'[s] + Cardinality(Acceptors(s)') = armed[s] + Cardinality(Acceptors(s)) - 1
    BY <2>5 DEF Lost
  <2>7. Slots(s)' = Slots(s) - 1
    <3>1. armed[s] \in Nat /\ Cardinality(Acceptors(s)) \in Nat
      BY FS_CardinalityType DEF TypeOK, SlotsOK, SlotsOf
    <3> QED
      BY <2>1, <2>2, <2>6, <3>1
  <2>8. AcceptError(t, s)
    BY <2>5 DEF Lost
  <2> QED
    BY <2>7, <2>8
<1> QED
  BY <1>1, TypeCorrect, LifeCorrect, SlotsCorrect, PTL DEF Spec, SlotsLostToErrorsOnly

\* Whatever fails, no server has more accepts under way than it was started with.
THEOREM SlotsBounded ==
  Spec => [](\A s \in Servers : server[s] \in {"listening", "registered"} =>
               Slots(s) <= AcceptNum)
<1>1. SlotsOK => \A s \in Servers : server[s] \in {"listening", "registered"} =>
                   Slots(s) <= AcceptNum
  BY DEF SlotsOK, SlotsOf, Running, Slots, Acceptors
<1> QED
  BY <1>1, SlotsCorrect, PTL
-----------------------------------------------------------------------------
(* Whose link an operation works on.                                       *)

\* Only operations that were started call back; handles name links created so far; and
\* an operation or a callback that left the link it was begun for found it closed.
Fresh(o) == o > nops => ops[o].timer = "none" /\ ops[o].own = None /\ ops[o].h = None
OwnOp(o) ==
  /\ Fresh(o)
  /\ ops[o].own <= nlinks
  /\ ops[o].h # ops[o].own => ops[o].own \notin links
OwnFrame(t) ==
  /\ At(t, "arm") => frame[t].h <= nlinks
  /\ LET o == frame[t].op IN
     o # None => o <= nops /\ (frame[t].h # ops[o].own => ops[o].own \notin links)
OwnOK == (\A o \in Ops : OwnOp(o)) /\ \A t \in Threads : OwnFrame(t)

LEMMA OwnTypes ==
  ASSUME TypeOK
  PROVE  /\ nops \in Nat /\ Ops \subseteq Nat /\ None \notin Ops /\ ops \in [Ops -> Operation]
         /\ nlinks \in Nat /\ \A h \in links : h \in Nat /\ h <= nlinks
         /\ \A t \in Threads : frame[t].op \in Ops \cup {None}
         /\ \A o \in Ops : ops[o].own \in Nat /\ ops[o].h \in Nat
BY Constants DEF TypeOK, Ops, Frame, Operation, Handles, None

\* The links there are only become fewer, except for one that no operation knows yet.
LinksFresh == nlinks' \in Nat /\ nlinks <= nlinks' /\ \A h \in links' \ links : h > nlinks

LEMMA OwnOpKept ==
  ASSUME TypeOK, OwnOK, LinksFresh, NEW o \in Ops, Fresh(o)',
         ops'[o].h = ops[o].h, ops'[o].own = ops[o].own
  PROVE  OwnOp(o)'
<1>1. OwnOp(o) /\ nlinks \in Nat /\ ops[o].own \in Nat
  BY OwnTypes DEF OwnOK
<1>2. ops[o].own \notin links => ops[o].own \notin links'
  BY <1>1 DEF OwnOp, LinksFresh
<1> QED
  BY <1>1, <1>2 DEF OwnOp, LinksFresh

\* What keeps the frames: the operations started so far keep the links they were begun
\* for, and a thread the link and the operation it works on.
LEMMA OwnFrameKept ==
  ASSUME TypeOK, OwnOK, LinksFresh, NEW t \in Threads, nops <= nops', nops' \in Nat,
         \A o \in Ops : o <= nops => ops'[o].own = ops[o].own,
         frame'[t].op = frame[t].op, frame'[t].h = frame[t].h,
         At(t, "arm")' => At(t, "arm") \/ frame[t].h \in links
  PROVE  OwnFrame(t)'
<1>1. OwnFrame(t) /\ nlinks \in Nat /\ nops \in Nat
  BY OwnTypes DEF OwnOK
<1>2. ASSUME At(t, "arm")' PROVE frame'[t].h <= nlinks'
  <2>1. frame[t].h <= nlinks /\ frame[t].h \in Nat
    <3>1. frame[t].h \in Handles \cup {None}
      BY DEF TypeOK, Frame
    <3> QED
      BY <1>1, <1>2, <3>1, OwnTypes DEF OwnFrame, Handles, None
  <2> QED
    BY <1>1, <2>1 DEF LinksFresh
<1>3. ASSUME NEW o \in Ops, o = frame[t].op, frame[t].h # ops'[o].own
      PROVE  o <= nops' /\ ops'[o].own \notin links'
  <2>1. o <= nops /\ ops'[o].own = ops[o].own /\ ops[o].own \notin links
    BY <1>1, <1>3, OwnTypes DEF OwnFrame
  <2>2. ops[o].own <= nlinks /\ ops[o].own \in Nat /\ o \in Nat
    BY OwnTypes DEF OwnOK, OwnOp
  <2> QED
    BY <1>1, <2>1, <2>2 DEF LinksFresh
<1>4. frame[t].op # None => frame[t].op <= nops'
  BY <1>1, OwnTypes DEF OwnFrame
<1> QED
  BY <1>2, <1>3, <1>4, OwnTypes DEF OwnFrame

LEMMA OpExcept ==
  ASSUME NEW f \in Frame
  PROVE  /\ \A pc, err : LET g == [f EXCEPT !.pc = pc, !.err = err] IN
                           g.op = f.op /\ g.h = f.h /\ g.pc = pc
         /\ \A pc, todo : LET g == [f EXCEPT !.pc = pc, !.todo = todo] IN
                            g.op = f.op /\ g.h = f.h /\ g.pc = pc
         /\ \A pc, kind : LET g == [f EXCEPT !.pc = pc, !.kind = kind] IN
                            g.op = f.op /\ g.h = f.h /\ g.pc = pc
         /\ \A err : LET g == [f EXCEPT !.err = err] IN
                       g.op = f.op /\ g.h = f.h /\ g.pc = f.pc
         /\ \A pc : LET g == [f EXCEPT !.pc = pc] IN
                      g.op = f.op /\ g.h = f.h /\ g.pc = pc
BY DEF Frame

\* A step that changes no operation, and one thread's frame.
LEMMA OwnCalled ==
  ASSUME TypeOK, OwnOK, LinksFresh, UNCHANGED opVars, NEW t \in Threads,
         \A u \in Threads : u # t => frame'[u] = frame[u], OwnFrame(t)'
  PROVE  OwnOK'
<1>1. ASSUME NEW o \in Ops PROVE OwnOp(o)'
  <2>1. Fresh(o)'
    BY DEF OwnOK, OwnOp, Fresh, opVars
  <2> QED
    BY <2>1, OwnOpKept DEF opVars
<1>2. ASSUME NEW u \in Threads, u # t PROVE OwnFrame(u)'
  BY <1>2, OwnFrameKept, OwnTypes DEF opVars, At
<1> QED
  BY <1>1, <1>2 DEF OwnOK

LEMMA OwnCallStep ==
  ASSUME TypeOK, OwnOK, NEW t \in Threads, CallStep(t)
  PROVE  OwnOK'
<1>0. \A u \in Threads : u # t => frame'[u] = frame[u]
  BY CallStepPc
<1>f. frame[t] \in Frame /\ frame \in [Threads -> Frame] /\ nlinks \in Nat /\ nops \in Nat
  BY OwnTypes DEF TypeOK
<1>l. LinksFresh
  <2>1. nlinks' = nlinks /\ links' \subseteq links
    BY DEF CallStep, RegisterServer, Relate, ClientIo, Arm, ArmFails, ClientClose, EraseLink,
       Unrelate, Return, SnapshotLinks, EraseServerLinks, UnrelateServerLinks, DropServer,
       linkVars
  <2> QED
    BY <1>f, <2>1 DEF LinksFresh
<1>1. ASSUME UNCHANGED opVars, frame'[t].op = frame[t].op, frame'[t].h = frame[t].h,
             At(t, "arm")' => At(t, "arm") \/ frame[t].h \in links
      PROVE  OwnOK'
  <2>1. OwnFrame(t)'
    BY <1>f, <1>l, <1>1, OwnFrameKept DEF opVars
  <2> QED
    BY <1>0, <1>l, <1>1, <2>1, OwnCalled
<1>2. ASSUME NEW pc, Goto(t, pc)
      PROVE  frame'[t].op = frame[t].op /\ frame'[t].h = frame[t].h /\ frame'[t].pc = pc
  BY <1>2, <1>f, OpExcept DEF Goto
<1>3. ASSUME Become(t, Idle) PROVE OwnFrame(t)'
  <2>1. frame'[t].op = None /\ frame'[t].pc = "idle"
    BY <1>3, BecomeOnly DEF Idle
  <2> QED
    BY <2>1 DEF OwnFrame, At
<1>4. CASE RegisterServer(t) \/ DropServer(t) \/ Return(t)
  BY <1>0, <1>l, <1>3, <1>4, OwnCalled DEF RegisterServer, DropServer, Return
<1>5. CASE Relate(t) \/ ClientClose(t) \/ EraseLink(t) \/ Unrelate(t)
             \/ EraseServerLinks(t) \/ UnrelateServerLinks(t)
  <2>1. UNCHANGED opVars /\ \E pc \in {"client", "erase", "unrelate", "back",
                                       "srv_unrelate", "srv_drop"} : Goto(t, pc)
    BY <1>5 DEF Relate, ClientClose, EraseLink, Unrelate, EraseServerLinks, UnrelateServerLinks
  <2> QED
    BY <1>1, <1>2, <2>1 DEF At
<1>6. CASE (\E kind \in {"recv", "send"} : ClientIo(t, kind)) \/ ArmFails(t) \/ SnapshotLinks(t)
  <2>1. UNCHANGED opVars
    BY <1>6 DEF ClientIo, ArmFails, SnapshotLinks
  <2> DEFINE Kept == /\ frame'[t].op = frame[t].op /\ frame'[t].h = frame[t].h
                     /\ At(t, "arm")' => At(t, "arm") \/ frame[t].h \in links
  <2>2. ASSUME NEW kind \in {"recv", "send"}, ClientIo(t, kind) PROVE Kept
    <3>1. CASE frame[t].h \in links
      <4>1. frame'[t] = [frame[t] EXCEPT !.pc = "arm", !.kind = kind]
        BY <2>2, <3>1, BecomeOnly DEF ClientIo
      <4> QED
        BY <1>f, <3>1, <4>1, OpExcept
    <3>2. CASE frame[t].h \notin links
      <4>1. frame'[t] = [frame[t] EXCEPT !.err = TRUE] /\ frame[t].pc = "client"
        BY <2>2, <3>2, BecomeOnly DEF ClientIo, At
      <4> QED
        BY <1>f, <4>1, OpExcept DEF At
    <3> QED
      BY <3>1, <3>2
  <2>3. ASSUME ArmFails(t) PROVE Kept
    <3>1. frame'[t] = [frame[t] EXCEPT !.pc = "client", !.err = TRUE]
      BY <2>3, BecomeOnly DEF ArmFails
    <3> QED
      BY <1>f, <3>1, OpExcept DEF At
  <2>4. ASSUME SnapshotLinks(t) PROVE Kept
    <3>1. PICK todo : frame'[t] = [frame[t] EXCEPT !.pc = "srv_erase", !.todo = todo]
      BY <2>4, BecomeOnly DEF SnapshotLinks
    <3> QED
      BY <1>f, <3>1, OpExcept DEF At
  <2> QED
    BY <1>1, <1>6, <2>1, <2>2, <2>3, <2>4
<1>7. CASE Arm(t)
  <2>1. /\ nops' = nops + 1 /\ nops + 1 \in Ops /\ Goto(t, "back") /\ At(t, "arm")
        /\ ops' = [ops EXCEPT ![nops + 1] = Started(frame[t].h, frame[t].h, frame[t].kind)]
        /\ UNCHANGED <<links, nlinks>>
    BY <1>7, Constants DEF Arm, TypeOK, Ops, linkVars
  <2>2. /\ \A o \in Ops : o # nops + 1 => ops'[o] = ops[o]
        /\ ops'[nops + 1].h = frame[t].h /\ ops'[nops + 1].own = frame[t].h
    BY <2>1, OwnTypes DEF Started
  <2>3. ASSUME NEW o \in Ops PROVE OwnOp(o)'
    <3>1. CASE o = nops + 1
      <4>1. frame[t].h <= nlinks
        BY <2>1 DEF OwnOK, OwnFrame
      <4> QED
        BY <1>f, <2>1, <2>2, <3>1, <4>1 DEF OwnOp, Fresh
    <3>2. CASE o # nops + 1
      <4>1. Fresh(o) /\ o \in Nat
        BY OwnTypes DEF OwnOK, OwnOp
      <4>2. Fresh(o)'
        BY <1>f, <2>1, <2>2, <3>2, <4>1 DEF Fresh
      <4> QED
        BY <1>l, <2>2, <3>2, <4>2, OwnOpKept
    <3> QED
      BY <3>1, <3>2
  <2>4. \A o \in Ops : o <= nops => ops'[o].own = ops[o].own
    BY <1>f, <2>2, OwnTypes
  <2>5. ASSUME NEW u \in Threads PROVE OwnFrame(u)'
    <3>1. frame'[u].op = frame[u].op /\ frame'[u].h = frame[u].h /\ (At(u, "arm")' => At(u, "arm"))
      BY <1>0, <1>2, <2>1 DEF At
    <3> QED
      BY <1>f, <1>l, <2>1, <2>4, <3>1, OwnFrameKept
  <2> QED
    BY <2>3, <2>5 DEF OwnOK
<1> QED
  BY <1>4, <1>5, <1>6, <1>7 DEF CallStep

\* What a handler reads in its TcpLink is its own handle as long as the link is there.
LEMMA SeenOwn ==
  ASSUME TypeOK, OwnOK, NEW o \in Ops, NEW h \in HandlesSeen(o), h # ops[o].own
  PROVE  ops[o].own \notin links
<1>1. CASE ops[o].h # ops[o].own
  BY <1>1 DEF OwnOK, OwnOp
<1>2. CASE ops[o].h = ops[o].own /\ ~Exists(ops[o].h)
  BY <1>2 DEF Exists
<1>3. CASE ops[o].h = ops[o].own /\ Exists(ops[o].h)
  BY <1>3 DEF HandlesSeen
<1> QED
  BY <1>1, <1>2, <1>3

LEMMA OwnFromIdle ==
  ASSUME TypeOK, OpsFresh, OwnOK, NEW t \in Threads, Dispatch(t) \/ AppCall(t)
  PROVE  OwnOK'
<1>0. \A u \in Threads : u # t => frame'[u] = frame[u]
  BY FromIdle
<1>f. nlinks \in Nat /\ nops \in Nat
  BY OwnTypes
<1>n. /\ \A pc, h, s : Enter(pc, h, s).op = None /\ Enter(pc, h, s).pc = pc
      /\ \A h, err, o : /\ Callback(h, err, o).op = o /\ Callback(h, err, o).h = h
                        /\ Callback(h, err, o).pc = "client"
  BY DEF Enter, Callback, Idle
<1>1. ASSUME UNCHANGED opVars, LinksFresh, frame'[t].op = None, ~At(t, "arm")' PROVE OwnOK'
  BY <1>0, <1>1, OwnCalled DEF OwnFrame
<1>2. ASSUME UNCHANGED opVars, UNCHANGED linkVars, frame'[t].op = None, ~At(t, "arm")'
      PROVE  OwnOK'
  BY <1>1, <1>2, <1>f DEF LinksFresh, linkVars
<1>3. ASSUME NEW f, Become(t, f), f.op = None, f.pc # "arm", UNCHANGED opVars,
             links' = links \cup {NewHandle}, nlinks' = nlinks + 1
      PROVE  OwnOK'
  BY <1>1, <1>3, <1>f, BecomeOnly DEF LinksFresh, NewHandle, At
<1>4. ASSUME NEW s \in Servers, AcceptOk(t, s) PROVE OwnOK'
  <2>1. /\ Become(t, Enter("relate", NewHandle, s)) /\ UNCHANGED opVars
        /\ links' = links \cup {NewHandle} /\ nlinks' = nlinks + 1
    BY <1>4 DEF AcceptOk
  <2>2. Enter("relate", NewHandle, s).op = None /\ Enter("relate", NewHandle, s).pc # "arm"
    BY NewFrame DEF Enter, Idle
  <2> QED
    BY <1>3, <2>1, <2>2
<1>5. CASE StartClient(t)
  <2>1. /\ Become(t, Callback(NewHandle, FALSE, None)) /\ UNCHANGED opVars
        /\ links' = links \cup {NewHandle} /\ nlinks' = nlinks + 1
    BY <1>5 DEF StartClient
  <2>2. /\ Callback(NewHandle, FALSE, None).op = None
        /\ Callback(NewHandle, FALSE, None).pc # "arm"
    BY DEF Callback, Idle
  <2> QED
    BY <1>3, <2>1, <2>2
<1>6. ASSUME NEW s \in Servers, AcceptError(t, s) \/ StartServer(t, s) \/ StopServer(t, s)
      PROVE  OwnOK'
  <2>1. UNCHANGED <<opVars, linkVars>> /\ (frame' = frame \/ (\E f : Become(t, f) /\ f.op = None /\ f.pc # "arm"))
    BY <1>6, <1>n DEF AcceptError, StartServer, StopServer
  <2>2. frame[t] = Idle
    BY <1>6 DEF AcceptError, StartServer, StopServer, IsIdle
  <2>3. Idle.op = None /\ Idle.pc # "arm"
    BY DEF Idle
  <2> QED
    BY <1>2, <2>1, <2>2, <2>3, BecomeOnly DEF At
<1>7. ASSUME NEW h \in Handles, AppCloseLink(t, h) PROVE OwnOK'
  BY <1>2, <1>7, <1>n, BecomeOnly DEF AppCloseLink, At
\* The handlers of an operation o, which was started.
<1>8. ASSUME NEW o \in Ops, RunIo(t, o) \/ RunPartial(t, o) \/ RunTimer(t, o)
      PROVE  /\ o <= nops /\ UNCHANGED linkVars /\ LinksFresh
             /\ \A p \in Ops : p <= nops => ops'[p].h = ops[p].h /\ ops'[p].own = ops[p].own
             /\ \A p \in Ops : p > nops' => ops'[p] = ops[p]
             /\ nops' \in {nops, nops + 1}
  <2>1. o <= nops
    <3>1. ops[o].io # "none" \/ ops[o].timer # "none"
      BY <1>8 DEF RunIo, RunPartial, RunTimer
    <3>2. o > nops => ops[o].io = "none" /\ ops[o].timer = "none"
      BY DEF OpsFresh, OwnOK, OwnOp, Fresh
    <3> QED
      BY <1>f, <3>1, <3>2, OwnTypes
  <2>2. UNCHANGED linkVars /\ nops' \in {nops, nops + 1}
    BY <1>8 DEF RunIo, RunPartial, RunTimer
  <2>3. ASSUME RunIo(t, o) \/ RunTimer(t, o)
        PROVE  /\ \A p \in Ops : ops'[p].h = ops[p].h /\ ops'[p].own = ops[p].own
               /\ \A p \in Ops : p # o => ops'[p] = ops[p]
    <3>1. \/ ops' = [ops EXCEPT ![o].io = "done", ![o].timer = Stopped(ops[o].timer)]
          \/ ops' = [ops EXCEPT ![o].timer = "fired"]
      BY <2>3 DEF RunIo, RunTimer
    <3> QED
      BY <3>1, OwnTypes DEF Operation
  <2>4. ASSUME RunPartial(t, o)
        PROVE  /\ \A p \in Ops : p # nops + 1 => ops'[p].h = ops[p].h /\ ops'[p].own = ops[p].own
               /\ \A p \in Ops : p # o /\ p # nops + 1 => ops'[p] = ops[p]
               /\ nops' = nops + 1
    <3>1. PICK h \in HandlesSeen(o) :
            ops' = [ops EXCEPT ![o].io = "done", ![o].timer = Stopped(ops[o].timer),
                               ![nops + 1] = Started(h, ops[o].own, "send")]
      BY <2>4 DEF RunPartial
    <3> QED
      BY <2>4, <3>1, OwnTypes DEF RunPartial, Operation
  <2>5. nops' \in Nat /\ Ops \subseteq Nat
    BY <1>f, <2>2, OwnTypes
  <2>6. ASSUME NEW p \in Ops, p > nops' PROVE ops'[p] = ops[p]
    <3>1. p # o
      BY <1>f, <2>1, <2>2, <2>5, <2>6
    <3>2. CASE RunPartial(t, o)
      <4>1. p # nops + 1
        BY <2>4, <2>5, <2>6, <3>2
      <4> QED
        BY <2>4, <3>1, <3>2, <4>1
    <3>3. CASE RunIo(t, o) \/ RunTimer(t, o)
      BY <2>3, <3>1, <3>3
    <3> QED
      BY <1>8, <3>2, <3>3
  <2>7. ASSUME NEW p \in Ops, p <= nops PROVE ops'[p].h = ops[p].h /\ ops'[p].own = ops[p].own
    <3>1. p # nops + 1
      BY <1>f, <2>5, <2>7
    <3>2. CASE RunPartial(t, o)
      BY <2>4, <3>1, <3>2
    <3>3. CASE RunIo(t, o) \/ RunTimer(t, o)
      BY <2>3, <3>3
    <3> QED
      BY <1>8, <3>2, <3>3
  <2> QED
    BY <1>f, <2>1, <2>2, <2>6, <2>7 DEF LinksFresh, linkVars
<1>9. ASSUME NEW o \in Ops, RunIo(t, o) \/ RunPartial(t, o) \/ RunTimer(t, o),
             NEW p \in Ops, p <= nops \/ p > nops'
      PROVE  OwnOp(p)'
  <2>1. Fresh(p) /\ p \in Nat /\ nops' \in {nops, nops + 1} /\ LinksFresh
    BY <1>8, <1>9, OwnTypes DEF OwnOK, OwnOp
  <2>2. /\ p <= nops => ops'[p].h = ops[p].h /\ ops'[p].own = ops[p].own
        /\ p > nops' => ops'[p] = ops[p]
    BY <1>8, <1>9
  <2>3. CASE p <= nops
    <3>1. ~(p > nops')
      BY <1>f, <2>1, <2>3
    <3> QED
      BY <2>1, <2>2, <2>3, <3>1, OwnOpKept DEF Fresh
  <2>4. CASE p > nops'
    <3>1. p > nops /\ ops'[p] = ops[p]
      BY <1>f, <2>1, <2>2, <2>4
    <3> QED
      BY <2>1, <3>1, OwnOpKept DEF Fresh
  <2> QED
    BY <1>9, <2>3, <2>4
<1>10. ASSUME NEW o \in Ops, RunIo(t, o) \/ RunPartial(t, o) \/ RunTimer(t, o),
              NEW u \in Threads, u # t \/ frame' = frame
       PROVE  OwnFrame(u)'
  BY <1>0, <1>8, <1>10, <1>f, OwnFrameKept DEF At
<1>11. ASSUME NEW o \in Ops, RunIo(t, o) \/ RunTimer(t, o) PROVE OwnOK'
  <2>1. nops' = nops /\ UNCHANGED linkVars
    BY <1>11 DEF RunIo, RunTimer
  <2>2. \E h \in HandlesSeen(o) \cup {ops[o].h} : \E err : Become(t, Callback(h, err, o))
    BY <1>11 DEF RunIo, RunTimer
  <2>3. PICK h \in HandlesSeen(o) \cup {ops[o].h} : frame'[t].h = h /\ frame'[t].op = o
                                                    /\ frame'[t].pc = "client"
    BY <2>2, <1>n, BecomeOnly
  <2>4. h # ops[o].own => ops[o].own \notin links
    BY SeenOwn DEF OwnOK, OwnOp
  <2>5. OwnFrame(t)'
    BY <1>8, <1>11, <2>1, <2>3, <2>4 DEF OwnFrame, At, linkVars
  <2>6. \A p \in Ops : p <= nops \/ p > nops'
    BY <1>f, <2>1, OwnTypes
  <2> QED
    BY <1>9, <1>10, <1>11, <2>5, <2>6 DEF OwnOK
<1>12. ASSUME NEW o \in Ops, RunPartial(t, o) PROVE OwnOK'
  <2>1. nops' = nops + 1 /\ nops + 1 \in Ops /\ frame' = frame /\ o # nops + 1
        /\ UNCHANGED linkVars
    <3>1. nops' = nops + 1 /\ frame' = frame /\ UNCHANGED linkVars /\ nops < MaxOps
      BY <1>12 DEF RunPartial
    <3>2. o <= nops /\ o \in Nat
      BY <1>8, <1>12, OwnTypes
    <3>3. nops + 1 \in Ops
      BY <1>f, <3>1, Constants DEF Ops
    <3> QED
      BY <1>f, <3>1, <3>2, <3>3
  <2>2. PICK h \in HandlesSeen(o) :
          ops' = [ops EXCEPT ![o].io = "done", ![o].timer = Stopped(ops[o].timer),
                             ![nops + 1] = Started(h, ops[o].own, "send")]
    BY <1>12 DEF RunPartial
  <2>3. ops'[nops + 1].h = h /\ ops'[nops + 1].own = ops[o].own
    BY <2>1, <2>2, OwnTypes DEF Started
  <2>4. ASSUME NEW p \in Ops, p = nops + 1 PROVE OwnOp(p)'
    <3>1. h # ops[o].own => ops[o].own \notin links
      BY SeenOwn
    <3>2. ops[o].own <= nlinks
      BY DEF OwnOK, OwnOp
    <3> QED
      BY <1>f, <2>1, <2>3, <2>4, <3>1, <3>2 DEF OwnOp, Fresh, linkVars
  <2>5. \A p \in Ops : p <= nops \/ p > nops' \/ p = nops + 1
    BY <1>f, <2>1, OwnTypes
  <2> QED
    BY <1>9, <1>10, <1>12, <2>1, <2>4, <2>5 DEF OwnOK
<1> QED
  BY <1>4, <1>5, <1>6, <1>7, <1>11, <1>12 DEF Dispatch, AppCall

LEMMA OwnCorrect == Spec => []OwnOK
<1>1. Init => OwnOK
  BY Constants DEF Init, OwnOK, OwnOp, Fresh, OwnFrame, NoOp, Idle, At, None
<1>2. TypeOK /\ OpsFresh /\ OwnOK /\ [Next]_vars => OwnOK'
  <2> SUFFICES ASSUME TypeOK, OpsFresh, OwnOK, [Next]_vars PROVE OwnOK'
    OBVIOUS
  <2>1. ASSUME UNCHANGED <<frame, nops, links, nlinks>>,
               \A p \in Ops : /\ ops'[p].h = ops[p].h /\ ops'[p].own = ops[p].own
                              /\ ops[p].timer = "none" => ops'[p].timer = "none"
        PROVE  OwnOK'
    <3>1. \A p \in Ops : OwnOp(p)'
      BY <2>1 DEF OwnOK, OwnOp, Fresh
    <3>2. ASSUME NEW t \in Threads PROVE OwnFrame(t)'
      <4>1. OwnFrame(t) /\ frame[t].op \in Ops \cup {None}
        BY OwnTypes DEF OwnOK
      <4> QED
        BY <2>1, <4>1 DEF OwnFrame, At
    <3> QED
      BY <3>1, <3>2 DEF OwnOK
  <2>2. ASSUME NEW o \in Ops, IoCompletes(o) \/ TimerExpires(o) PROVE OwnOK'
    <3>1. UNCHANGED <<frame, nops, links, nlinks>>
      BY <2>2 DEF IoCompletes, TimerExpires, linkVars
    <3>2. \A p \in Ops : /\ ops'[p].h = ops[p].h /\ ops'[p].own = ops[p].own
                         /\ ops[p].timer = "none" => ops'[p].timer = "none"
      BY <2>2, OwnTypes DEF IoCompletes, TimerExpires, Operation
    <3> QED
      BY <2>1, <3>1, <3>2
  <2>3. CASE UNCHANGED vars
    BY <2>1, <2>3 DEF vars, opVars, linkVars
  <2> QED
    BY <2>2, <2>3, OwnCallStep, OwnFromIdle, Constants DEF Next, Environment
<1> QED
  BY <1>1, <1>2, TypeCorrect, OpsFreshCorrect, PTL DEF Spec

\* Whatever is read from a freed TcpLink, and although the rest of a short write may then
\* go to the link allocated in its place: as long as the link an operation was begun for
\* is registered, nothing the operation does concerns any other link.
THEOREM OnlyOrphansStrayed == Spec => []OnlyOrphansStray
<1>1. OwnOK => OnlyOrphansStray
  BY DEF OwnOK, OwnOp, OwnFrame, OnlyOrphansStray
<1> QED
  BY <1>1, OwnCorrect, PTL
=============================================================================
