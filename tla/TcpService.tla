----------------------------- MODULE TcpService -----------------------------
(***************************************************************************)
(* The TCP layer of NetService (TCPService/src): a pool of worker threads  *)
(* runs the completion handlers of one boost io_context; application       *)
(* threads call the exported functions.  Links and servers live in three   *)
(* maps, each under a mutex of its own:                                    *)
(*    servers_      lock_servers_       server[s]                          *)
(*    links_        lock_links_         links                              *)
(*    link_server_  lock_link_server_   rel, mutex                         *)
(* A critical section that makes no call is one step.  lock_link_server_   *)
(* is the one mutex held across a call (accept() holds it while it runs    *)
(* the accept callback), so its holder is a variable.                      *)
(*                                                                         *)
(* The client of the layer is what HttpService is to it: a callback that   *)
(* reports success continues with one receive, one send or a close; one    *)
(* that reports an error closes the link.                                  *)
(***************************************************************************)
EXTENDS Integers, FiniteSets

CONSTANTS
  Workers,       \* threads that run service_.run()
  Apps,          \* threads that call the exported functions from outside
  MaxServers,    \* bound: servers ever started, handles 1..MaxServers
  MaxLinks,      \* bound: links ever created, handles 1..MaxLinks
  MaxOps,        \* bound: receives and sends ever started
  AcceptNum,     \* accept_num of start_server
  OutOfMemory,   \* TRUE: an allocation can throw bad_alloc
  AcceptErrors,  \* TRUE: async_accept can fail on a running server
  StaleReads,    \* what a handler may find in the handle_ of a freed TcpLink
  Relock         \* outcomes of locking a std::mutex its own thread holds

ASSUME TcpAssumption ==
  /\ Workers \cap Apps = {}
  /\ "no thread" \notin Workers \cup Apps
  /\ MaxServers \in Nat /\ MaxLinks \in Nat /\ MaxOps \in Nat
  /\ AcceptNum \in Nat \ {0}
  /\ OutOfMemory \in BOOLEAN /\ AcceptErrors \in BOOLEAN
  /\ StaleReads \subseteq {"intact", "garbage", "reused"} /\ StaleReads # {}
  /\ Relock \subseteq {"grant"}

NoThread == "no thread"
Threads == Workers \cup Apps
Servers == 1..MaxServers
Handles == 1..MaxLinks
Ops == 1..MaxOps
None == 0              \* no link, no server, no operation; also a garbage handle

ServerState == {"new", "listening", "registered", "stopped", "erased"}
Point == {"idle", "register", "relate", "client", "arm", "erase", "unrelate",
          "back", "snapshot", "srv_erase", "srv_unrelate", "srv_drop"}

\* What a thread is doing: pc, the link and the server it works on, whether the
\* callback it runs was given an error, the operation that called it, the kind of
\* operation it is starting, and the snapshot taken by close_server.
Frame == [pc : Point, h : Handles \cup {None}, s : Servers \cup {None},
          err : BOOLEAN, op : Ops \cup {None}, kind : {"recv", "send"},
          todo : SUBSET Handles]

\* A receive or send: the handle in the TcpLink it works on, the link it was begun for,
\* the socket operation and its timer.  The two links are the same one, except for the
\* rest of a short write that is sent through a freed TcpLink (RunPartial).
Operation == [h : Handles \cup {None}, own : Handles \cup {None}, kind : {"recv", "send"},
              io : {"none", "pending", "ok", "partial", "err", "done"},
              timer : {"none", "waiting", "expired", "cancelled", "fired"}]

VARIABLES
  server,   \* [Servers -> ServerState]; servers_ holds the registered and stopped
  badStart, \* TRUE: servers_ also holds a server that failed to start
  armed,    \* [Servers -> Nat], async_accept operations outstanding
  links,    \* the handles in links_
  rel,      \* link_server_, None where it has no entry
  nlinks,   \* record of TcpLink's constructor
  mutex,    \* holder of lock_link_server_
  ops, nops,
  frame     \* [Threads -> Frame]

serverVars == <<server, badStart, armed>>
linkVars == <<links, rel, nlinks>>
opVars == <<ops, nops>>
vars == <<serverVars, linkVars, mutex, opVars, frame>>

NoOp == [h |-> None, own |-> None, kind |-> "recv", io |-> "none", timer |-> "none"]
Idle == [pc |-> "idle", h |-> None, s |-> None, err |-> FALSE, op |-> None,
         kind |-> "recv", todo |-> {}]

TypeOK ==
  /\ server \in [Servers -> ServerState]
  /\ badStart \in BOOLEAN
  /\ armed \in [Servers -> Nat]
  /\ links \subseteq 1..nlinks
  /\ rel \in [Handles -> Servers \cup {None}]
  /\ nlinks \in 0..MaxLinks
  /\ mutex \in Threads \cup {NoThread}
  /\ ops \in [Ops -> Operation]
  /\ nops \in 0..MaxOps
  /\ frame \in [Threads -> Frame]

Init ==
  /\ server = [s \in Servers |-> "new"]
  /\ badStart = FALSE
  /\ armed = [s \in Servers |-> 0]
  /\ links = {}
  /\ rel = [h \in Handles |-> None]
  /\ nlinks = 0
  /\ mutex = NoThread
  /\ ops = [o \in Ops |-> NoOp]
  /\ nops = 0
  /\ frame = [t \in Threads |-> Idle]
-----------------------------------------------------------------------------
(* Helpers.                                                                *)

At(t, pc) == frame[t].pc = pc
Goto(t, pc) == frame' = [frame EXCEPT ![t].pc = pc]
Become(t, f) == frame' = [frame EXCEPT ![t] = f]
IsIdle(t) == frame[t] = Idle
\* The frame of a thread that enters a call at pc, for link h and server s.
Enter(pc, h, s) == [Idle EXCEPT !.pc = pc, !.h = h, !.s = s]

\* Seeded fault: read_handler returns on an error without calling its handler.
SilentOnError(h, err, o) == IF err THEN Idle
                            ELSE [Idle EXCEPT !.pc = "client", !.h = h, !.op = o]
\* The frame of a client callback for link h, reporting an error or not.
Callback(h, err, o) == [Idle EXCEPT !.pc = "client", !.h = h, !.err = err, !.op = o]

\* The thread is inside TcpServiceImpl::accept for server frame[t].s.
Accepting(t) ==
  /\ frame[t].s # None
  /\ frame[t].pc \in {"relate", "client", "arm", "erase", "unrelate", "back"}

\* get_link()'s shared_ptr keeps the TcpLink alive between the look-up and the
\* return of async_recv or async_send.
HasLinkPtr(t, h) == At(t, "arm") /\ frame[t].h = h
Exists(h) == h \in links \/ \E t \in Threads : HasLinkPtr(t, h)

\* TcpLink's constructor: the handle is the incremented record, so it is unique.
HandleBeforeIncrement == nlinks                \* seeded fault
SmallestFree ==                                \* seeded fault
  CHOOSE h \in Handles \ links : \A x \in Handles \ links : h <= x
NewHandle == nlinks + 1

\* What handle_ reads as in a completion handler of operation o.  The handlers
\* capture a raw this, and run after ~TcpLink when the link was erased: the value
\* is then read from freed memory.
HandlesSeen(o) ==
  LET h == ops[o].h IN
  IF Exists(h) THEN {h}
  ELSE {x \in links \cup {h, None} : \/ x = h /\ "intact" \in StaleReads
                                     \/ x = None /\ "garbage" \in StaleReads
                                     \/ x \in links /\ "reused" \in StaleReads}

\* lock() of lock_link_server_ returns.  The standard leaves open what happens
\* when the caller already holds it: it may hang, or be granted.
NeverWaits(t) == TRUE                          \* seeded fault
CanLock(t) == mutex = NoThread \/ (mutex = t /\ "grant" \in Relock)

\* The acceptor's slots after accept(): on a closed acceptor async_accept only
\* queues an error.
AcceptForgotten(s) == armed                    \* seeded fault
Rearmed(s) ==
  IF server[s] \in {"listening", "registered"} THEN [armed EXCEPT ![s] = @ + 1]
  ELSE armed

\* TcpLink::start_timer and the asynchronous socket call.
WithoutTimer(h, own, kind) ==
  [h |-> h, own |-> own, kind |-> kind, io |-> "pending", timer |-> "none"]
Started(h, own, kind) ==
  [h |-> h, own |-> own, kind |-> kind, io |-> "pending", timer |-> "waiting"]

\* TcpLink::stop_timer: a cancel reaches a timer that is waiting, not one whose
\* handler is already queued.
Stopped(timer) == IF timer = "waiting" THEN "cancelled" ELSE timer

\* The bound on operations: a callback that will report success, and the rest of a
\* short write, claim the operation they are going to start.
Claims(t) == frame[t].pc \in {"relate", "arm"} \/ (At(t, "client") /\ ~frame[t].err)
Room ==
  nops + Cardinality({t \in Threads : Claims(t)})
       + Cardinality({o \in Ops : ops[o].io \in {"ok", "partial"}}) < MaxOps
-----------------------------------------------------------------------------
(* Servers.                                                                *)

\* TcpServer's constructor: open, bind, listen and AcceptNum calls of accept().
\* The server is not yet in servers_, but connections can already be accepted.
StartServer(t, s) ==
  /\ IsIdle(t) /\ server[s] = "new"
  /\ \A r \in Servers : r < s => server[r] # "new"
  /\ \/ /\ server' = [server EXCEPT ![s] = "listening"]
        /\ armed' = [armed EXCEPT ![s] = AcceptNum]
        /\ Become(t, Enter("register", None, s))
        /\ UNCHANGED badStart
     \/ \* the constructor's error paths: recorded under an error code all the same
        /\ badStart' = TRUE
        /\ server' = [server EXCEPT ![s] = "erased"]
        /\ UNCHANGED <<armed, frame>>
  /\ UNCHANGED <<linkVars, mutex, opVars>>

RegisterServer(t) ==
  /\ At(t, "register")
  /\ server' = [server EXCEPT ![frame[t].s] = "registered"]
  /\ Become(t, Idle)
  /\ UNCHANGED <<badStart, armed, linkVars, mutex, opVars>>

\* The completion handler of async_accept on success, then start_link().  stop()
\* does not reset is_run, so a handler queued before it still delivers its link.
AcceptOk(t, s) ==
  /\ IsIdle(t) /\ armed[s] > 0 /\ nlinks < MaxLinks /\ Room
  /\ server[s] \in {"listening", "registered", "stopped"}
  /\ armed' = [armed EXCEPT ![s] = @ - 1]
  /\ nlinks' = nlinks + 1
  /\ links' = links \cup {NewHandle}
  /\ Become(t, Enter("relate", NewHandle, s))
  /\ UNCHANGED <<server, badStart, rel, mutex, opVars>>

\* The handler on error (every accept of a stopped server ends so): it only logs,
\* and does not call accept() again.
AcceptError(t, s) ==
  /\ IsIdle(t) /\ armed[s] > 0
  /\ AcceptErrors \/ server[s] \in {"stopped", "erased"}
  /\ armed' = [armed EXCEPT ![s] = @ - 1]
  /\ UNCHANGED <<server, badStart, linkVars, mutex, opVars, frame>>

\* TcpServiceImpl::accept: takes lock_link_server_, records the relation and calls
\* the accept callback with the lock held.
Relate(t) ==
  /\ At(t, "relate") /\ CanLock(t)
  /\ mutex' = t
  /\ rel' = [rel EXCEPT ![frame[t].h] = frame[t].s]
  /\ Goto(t, "client")
  /\ UNCHANGED <<serverVars, links, nlinks, opVars>>
-----------------------------------------------------------------------------
(* Calls the client makes from a callback.                                 *)

\* async_recv or async_send: get_link(), and a synchronous error callback when the
\* link is gone.  An error callback is answered by a close only.
ClientIo(t, kind) ==
  /\ At(t, "client") /\ ~frame[t].err
  /\ Accepting(t) => kind = "recv"
  /\ IF frame[t].h \in links
       THEN Become(t, [frame[t] EXCEPT !.pc = "arm", !.kind = kind])
       ELSE Become(t, [frame[t] EXCEPT !.err = TRUE])
  /\ UNCHANGED <<serverVars, linkVars, mutex, opVars>>

\* TcpLink::async_recv / async_send through the shared_ptr.
Arm(t) ==
  /\ At(t, "arm") /\ nops < MaxOps
  /\ nops' = nops + 1
  /\ ops' = [ops EXCEPT ![nops + 1] = Started(frame[t].h, frame[t].h, frame[t].kind)]
  /\ Goto(t, "back")
  /\ UNCHANGED <<serverVars, linkVars, mutex>>

\* TcpLink::async_recv, bad_alloc: the callback runs at once, with the error.
ArmFails(t) ==
  /\ OutOfMemory /\ At(t, "arm") /\ frame[t].kind = "recv"
  /\ Become(t, [frame[t] EXCEPT !.pc = "client", !.err = TRUE])
  /\ UNCHANGED <<serverVars, linkVars, mutex, opVars>>

\* close_client.  An accept callback closes its link only on an error or when it
\* has no memory for the link.
ClientClose(t) ==
  /\ At(t, "client")
  /\ Accepting(t) => frame[t].err \/ OutOfMemory
  /\ Goto(t, "erase")
  /\ UNCHANGED <<serverVars, linkVars, mutex, opVars>>

LeaveRelation(t) ==                            \* seeded fault
  /\ At(t, "erase")
  /\ links' = links \ {frame[t].h}
  /\ Goto(t, "back")
  /\ UNCHANGED <<serverVars, rel, nlinks, mutex, opVars>>
EraseLink(t) ==
  /\ At(t, "erase")
  /\ links' = links \ {frame[t].h}
  /\ Goto(t, "unrelate")
  /\ UNCHANGED <<serverVars, rel, nlinks, mutex, opVars>>

Unrelate(t) ==
  /\ At(t, "unrelate") /\ CanLock(t)
  /\ rel' = [h \in Handles |-> IF h = frame[t].h THEN None ELSE rel[h]]
  /\ Goto(t, "back")
  /\ UNCHANGED <<serverVars, links, nlinks, mutex, opVars>>

\* The callback returns; in accept() the lock is released and the acceptor armed
\* again.
Return(t) ==
  /\ At(t, "back")
  /\ IF Accepting(t)
       THEN mutex' = NoThread /\ armed' = Rearmed(frame[t].s)
       ELSE UNCHANGED <<mutex, armed>>
  /\ Become(t, Idle)
  /\ UNCHANGED <<server, badStart, linkVars, opVars>>
-----------------------------------------------------------------------------
(* The socket operations and timers, and their completion handlers.        *)

\* The socket call completes and its handler is queued.  Once the TcpLink is gone
\* its destructor has closed the socket, and only an error is left.
IoCompletes(o) ==
  /\ ops[o].io = "pending"
  /\ \E result \in {"ok", "partial", "err"} :
       /\ result = "partial" => ops[o].kind = "send"
       /\ result # "err" => Exists(ops[o].h) /\ Room
       /\ ops' = [ops EXCEPT ![o].io = result]
  /\ UNCHANGED <<serverVars, linkVars, mutex, nops, frame>>

TimerExpires(o) ==
  /\ ops[o].timer = "waiting"
  /\ ops' = [ops EXCEPT ![o].timer = "expired"]
  /\ UNCHANGED <<serverVars, linkVars, mutex, nops, frame>>

\* read_handler and write_handler: stop_timer, then the callback with the handle
\* found in the TcpLink.
RunIo(t, o) ==
  /\ IsIdle(t) /\ ops[o].io \in {"ok", "err"}
  /\ ops' = [ops EXCEPT ![o].io = "done", ![o].timer = Stopped(ops[o].timer)]
  /\ \E h \in HandlesSeen(o) : Become(t, Callback(h, ops[o].io = "err", o))
  /\ UNCHANGED <<serverVars, linkVars, mutex, nops>>

\* write_handler after a short write: async_send again on the raw this, with the rest of
\* the data and a new timer.  Of a freed TcpLink it uses the handle_ and the sock_ it finds
\* there: its own, closed by then, garbage, or those of the link allocated in its place.
RunPartial(t, o) ==
  /\ IsIdle(t) /\ ops[o].io = "partial" /\ nops < MaxOps
  /\ nops' = nops + 1
  /\ \E h \in HandlesSeen(o) :
       ops' = [ops EXCEPT ![o].io = "done", ![o].timer = Stopped(ops[o].timer),
                          ![nops + 1] = Started(h, ops[o].own, "send")]
  /\ UNCHANGED <<serverVars, linkVars, mutex, frame>>

\* time_out_handler: the callback is bound to the handle by value.
RunTimer(t, o) ==
  /\ IsIdle(t) /\ ops[o].timer = "expired"
  /\ ops' = [ops EXCEPT ![o].timer = "fired"]
  /\ Become(t, Callback(ops[o].h, TRUE, o))
  /\ UNCHANGED <<serverVars, linkVars, mutex, nops>>
-----------------------------------------------------------------------------
(* Calls from an application thread.                                       *)

\* start_client: connect() succeeded, the link is registered with no server.
StartClient(t) ==
  /\ IsIdle(t) /\ nlinks < MaxLinks /\ Room
  /\ nlinks' = nlinks + 1
  /\ links' = links \cup {NewHandle}
  /\ Become(t, Callback(NewHandle, FALSE, None))
  /\ UNCHANGED <<serverVars, rel, mutex, opVars>>

\* close_link of a handle the application was given, or made up.
AppCloseLink(t, h) ==
  /\ IsIdle(t)
  /\ Become(t, Enter("erase", h, None))
  /\ UNCHANGED <<serverVars, linkVars, mutex, opVars>>

\* close_server, step by step: stop() the acceptor (servers_ is read without its
\* lock; the caller closes a server once), snapshot its links, erase them, erase
\* their relations, drop the server.
StopServer(t, s) ==
  /\ IsIdle(t) /\ server[s] = "registered"
  /\ server' = [server EXCEPT ![s] = "stopped"]
  /\ Become(t, Enter("snapshot", None, s))
  /\ UNCHANGED <<badStart, armed, linkVars, mutex, opVars>>

SnapshotLinks(t) ==
  /\ At(t, "snapshot") /\ CanLock(t)
  /\ Become(t, [frame[t] EXCEPT !.pc = "srv_erase",
                                !.todo = {h \in Handles : rel[h] = frame[t].s}])
  /\ UNCHANGED <<serverVars, linkVars, mutex, opVars>>

EraseServerLinks(t) ==
  /\ At(t, "srv_erase")
  /\ links' = links \ frame[t].todo
  /\ Goto(t, "srv_unrelate")
  /\ UNCHANGED <<serverVars, rel, nlinks, mutex, opVars>>

UnrelateServerLinks(t) ==
  /\ At(t, "srv_unrelate") /\ CanLock(t)
  /\ rel' = [h \in Handles |-> IF h \in frame[t].todo THEN None ELSE rel[h]]
  /\ Goto(t, "srv_drop")
  /\ UNCHANGED <<serverVars, links, nlinks, mutex, opVars>>

DropServer(t) ==
  /\ At(t, "srv_drop")
  /\ server' = [server EXCEPT ![frame[t].s] = "erased"]
  /\ Become(t, Idle)
  /\ UNCHANGED <<badStart, armed, linkVars, mutex, opVars>>
-----------------------------------------------------------------------------
\* A step of the call a thread is making.
CallStep(t) ==
  \/ RegisterServer(t) \/ Relate(t)
  \/ \E kind \in {"recv", "send"} : ClientIo(t, kind)
  \/ Arm(t) \/ ArmFails(t)
  \/ ClientClose(t) \/ EraseLink(t) \/ Unrelate(t) \/ Return(t)
  \/ SnapshotLinks(t) \/ EraseServerLinks(t) \/ UnrelateServerLinks(t)
  \/ DropServer(t)

\* A worker takes a handler from the queue of the io_context.
Dispatch(t) ==
  \/ \E s \in Servers : AcceptOk(t, s) \/ AcceptError(t, s)
  \/ \E o \in Ops : RunIo(t, o) \/ RunPartial(t, o) \/ RunTimer(t, o)

AppCall(t) ==
  \/ \E s \in Servers : StartServer(t, s) \/ StopServer(t, s)
  \/ StartClient(t)
  \/ \E h \in Handles : AppCloseLink(t, h)

Environment == \E o \in Ops : IoCompletes(o) \/ TimerExpires(o)

\* Nothing is left to do: every thread idle, every operation answered.
Finished ==
  /\ \A t \in Threads : IsIdle(t)
  /\ \A o \in Ops : ops[o].io \in {"none", "done"}
                    /\ ops[o].timer \in {"none", "cancelled", "fired"}

Next ==
  \/ \E t \in Threads : CallStep(t)
  \/ \E t \in Workers : Dispatch(t)
  \/ \E t \in Apps : AppCall(t)
  \/ Environment
  \/ Finished /\ UNCHANGED vars

\* Fairness: a running thread runs; a timer expires; a socket whose TcpLink is
\* destroyed reports it; some worker takes each queued handler.
Fairness ==
  /\ \A t \in Threads : WF_vars(CallStep(t))
  /\ \A o \in Ops :
       /\ WF_vars(TimerExpires(o))
       /\ WF_vars(~Exists(ops[o].h) /\ IoCompletes(o))
       /\ WF_vars(\E t \in Workers : RunIo(t, o) \/ RunPartial(t, o))
       /\ WF_vars(\E t \in Workers : RunTimer(t, o))

Spec == Init /\ [][Next]_vars
FairSpec == Spec /\ Fairness
-----------------------------------------------------------------------------
(* Properties.                                                             *)

\* A thread that is about to remove the relation of link h, having erased or found
\* erased the link itself.
Cleaning(t, h) ==
  \/ frame[t].h = h /\ At(t, "unrelate")
  \/ frame[t].h = h /\ Accepting(t) /\ frame[t].pc \in {"client", "erase"}
  \/ h \in frame[t].todo /\ At(t, "srv_unrelate")

\* links_ and link_server_ are changed under different locks, by close_client,
\* close_server and accept in any interleaving: a relation of a link that is gone
\* exists only while some thread is on its way to remove it.
NoStaleRelation ==
  \A h \in Handles :
    rel[h] # None /\ h \notin links => \E t \in Threads : Cleaning(t, h)

\* Nothing but a callback ever closes a link, so a link in links_ that no thread and
\* no unanswered operation is concerned with would stay, with its socket, for good.
Tended(h) ==
  \/ \E t \in Threads : frame[t].h = h
                        /\ frame[t].pc \in {"relate", "client", "arm", "erase"}
  \/ \E o \in Ops : ops[o].h = h /\ ops[o].io \in {"pending", "ok", "partial", "err"}
NoOrphanLink == \A h \in links : Tended(h)

\* lock_link_server_ is held between steps by exactly the thread that runs an accept
\* callback: accept callbacks of all servers are serialized, and no early return or
\* error path of the callback keeps the lock.
MutexDiscipline ==
  \A t \in Threads :
    mutex = t <=> Accepting(t) /\ ~At(t, "relate")

\* The accepts of server s: those the operating system holds and those in the hands of a
\* thread that will start the next.
Slots(s) == armed[s] + Cardinality({t \in Threads : Accepting(t) /\ frame[t].s = s})

\* A slot of a running server is never replaced once it is lost, and at 0 the server is
\* deaf.  An accept that ends in an error costs exactly one (its handler does not call
\* accept() again); nothing else does, neither an accept callback that is refused memory
\* or whose link is closed under it, nor the start of the server or the close of another.
SlotsLostToErrorsOnly ==
  [][\A s \in Servers :
       /\ server[s] \in {"listening", "registered"}
       /\ server'[s] \in {"listening", "registered"}
       /\ Slots(s)' # Slots(s)
       => Slots(s)' = Slots(s) - 1 /\ \E t \in Workers : AcceptError(t, s)]_vars

\* A handler reads its TcpLink without owning it, and after a short write sends through
\* it.  As long as the link an operation was begun for is registered, the operation and
\* the callback it runs work on that link: only those of a link that is closed, for good,
\* ever work on another link or on none.
OnlyOrphansStray ==
  /\ \A o \in Ops : ops[o].h # ops[o].own => ops[o].own \notin links
  /\ \A t \in Threads :
       LET o == frame[t].op IN
       o # None /\ frame[t].h # ops[o].own => ops[o].own \notin links

\* A link leaves links_ only at the hands of the thread that runs a callback of that
\* link, of the application, or of close_server: never by the callback of another.
OnlyOwnLinksClosed ==
  [][\A t \in Threads :
       LET o == frame[t].op IN
       EraseLink(t) /\ o # None => frame[t].h \in {ops[o].own, None}]_vars

\* Every receive and send is answered, by the socket or by its timer.
OperationsAnswered ==
  \A o \in Ops :
    ops[o].io = "pending" ~> ops[o].io = "done" \/ ops[o].timer = "fired"
=============================================================================
