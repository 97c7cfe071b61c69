------------------------------ MODULE Accounts ------------------------------
(***************************************************************************)
(* Users and sessions of the news application (plug/NewPublish): every      *)
(* request passes the session and permission filters and then its handler,  *)
(* and each reads and writes the tables one SQL statement at a time, with   *)
(* no transaction.  A statement is one step; the workers' statements        *)
(* interleave.  What a request carries is chosen where the code first uses  *)
(* it.  Passwords, addresses and texts are left out: a password is right or *)
(* wrong, and only an enabled account's can be right.                       *)
(***************************************************************************)
EXTENDS Naturals

CONSTANTS
  Workers,      \* the threads that serve requests
  Names,        \* user names
  Admin,        \* the name "admin"
  NoName,       \* the empty name
  Levels,       \* permissions a request asks for: 0 is all, 3 that of a guest
  MaxSessions,  \* bound: sessions created; the next INSERT fails
  DbErrors      \* TRUE: a writing statement may fail

ASSUME AccountsAssumption ==
  /\ Admin \in Names /\ NoName \notin Names
  /\ Levels \subseteq Nat
  /\ MaxSessions \in Nat
  /\ DbErrors \in BOOLEAN

VARIABLES
  users,      \* table user: a function from its names
  sessions,   \* table session: a function from its codes
  lastCode,   \* codes issued so far; 0 is the code of no session
  job,        \* [Workers -> Job], the request each worker serves
  outlived    \* history: sessions that a known window leaves open without an account

tables == <<users, sessions, lastCode>>
vars == <<users, sessions, lastCode, job, outlived>>

Account == [level : Nat, enabled : BOOLEAN]
Session == [user : Names, level : Nat, open : BOOLEAN, fresh : BOOLEAN]

\* The next statement of a worker.
Points == {"idle", "check", "active", "who", "rights",
           "logout_own", "password", "login_rights", "insert",
           "taken", "creator", "creator_rights", "creator_password", "create",
           "logout", "logout_other", "status", "toggle", "close_all",
           "delete_user", "delete_all", "now", "reset_rights", "old_password", "edit",
           "set_permission", "clear", "expired", "purge", "act", "acting"}
Job == [pc : Points, cookie : 0..MaxSessions,
        admitted : Names \cup {NoName},   \* whom the filter found
        who : Names \cup {NoName},        \* whom the handler found
        name : Names \cup {NoName},       \* the account the request is about
        level : Nat, enable : BOOLEAN, codes : SUBSET (1..MaxSessions)]
NoJob == [pc |-> "idle", cookie |-> 0, admitted |-> NoName,
          who |-> NoName, name |-> NoName, level |-> 3, enable |-> FALSE, codes |-> {}]

AccountsTypeOK ==
  /\ DOMAIN users \subseteq Names
  /\ users \in [DOMAIN users -> Account]
  /\ lastCode \in 0..MaxSessions
  /\ DOMAIN sessions \subseteq 1..lastCode
  /\ sessions \in [DOMAIN sessions -> Session]
  /\ job \in [Workers -> Job]
  /\ outlived \subseteq 1..lastCode

\* UserMgr::init on an empty database.
Init ==
  /\ users = [n \in {Admin} |-> [level |-> 0, enabled |-> TRUE]]
  /\ sessions = [c \in {} |-> c]
  /\ lastCode = 0
  /\ job = [w \in Workers |-> NoJob]
  /\ outlived = {}
-----------------------------------------------------------------------------
(* What the statements read and write.                                     *)

Enabled(n) == n \in DOMAIN users /\ users[n].enabled
RightsOrNone(n) == IF n \in DOMAIN users THEN users[n].level ELSE 0 - 1   \* seeded fault
RightsOf(n) == IF n \in DOMAIN users THEN users[n].level ELSE 3
UserOf(c) == IF c \in DOMAIN sessions THEN sessions[c].user ELSE NoName
SessionRights(c) == IF c \in DOMAIN sessions THEN sessions[c].level ELSE 3
Live(c) == c \in DOMAIN sessions /\ sessions[c].open
FreshSessionsOf(n) ==                          \* seeded fault: the expired are kept
  {c \in DOMAIN sessions : sessions[c].user = n /\ sessions[c].fresh}
SessionsOf(n) == {c \in DOMAIN sessions : sessions[c].user = n}

AllNames == Names                              \* seeded fault: the guard is missing
\* The names that can be removed, deleted or given other rights.
Others == Names \ {Admin}

FreeCode == CHOOSE c \in 1..(MaxSessions + 1) : c \notin DOMAIN sessions  \* seeded fault
\* get_unique_code
NewCode == lastCode + 1

Reopened(s) == [s EXCEPT !.fresh = TRUE, !.open = TRUE]   \* seeded fault
\* What active() makes of a session.
Refreshed(s) == IF s.open THEN [s EXCEPT !.fresh = TRUE] ELSE s

SetUser(n, row) == users' = [users EXCEPT ![n] = row]
CloseThese(C) ==
  sessions' = [c \in DOMAIN sessions |->
                 IF c \in C THEN [sessions[c] EXCEPT !.open = FALSE] ELSE sessions[c]]
DeleteThese(C) == sessions' = [c \in DOMAIN sessions \ C |-> sessions[c]]

At(w, pc) == job[w].pc = pc
Become(w, j) == job' = [job EXCEPT ![w] = j]
Goto(w, pc) == Become(w, [job[w] EXCEPT !.pc = pc])
Answer(w) == Become(w, NoJob)
Reads == UNCHANGED <<tables, outlived>>
\* A statement that fails; the handler answers WEB_DATA_OPERATION.
Fails(w) == DbErrors /\ Answer(w) /\ Reads
-----------------------------------------------------------------------------
(* The filters.                                                            *)

\* A request and the cookie it comes with: of a session issued once, or of none.
Arrive(w) ==
  /\ At(w, "idle")
  /\ \E c \in 0..lastCode :
       Become(w, [NoJob EXCEPT !.pc = IF c = 0 THEN "who" ELSE "check", !.cookie = c])
  /\ Reads

\* filter_session: check_session, then active; an unknown, closed or expired session
\* only has the client's cookie cleared.
CheckSession(w) ==
  /\ At(w, "check")
  /\ LET c == job[w].cookie
     IN  Goto(w, IF Live(c) /\ sessions[c].fresh THEN "active" ELSE "who")
  /\ Reads

ActiveSession(w) ==
  /\ At(w, "active") /\ Goto(w, "who")
  /\ \/ sessions' = [c \in DOMAIN sessions |->
                       IF c = job[w].cookie THEN Refreshed(sessions[c]) ELSE sessions[c]]
     \/ DbErrors /\ UNCHANGED sessions
  /\ UNCHANGED <<users, lastCode, outlived>>

\* filter_permission: the user of the cookie's session, then the user's rights.
FilterUser(w) ==
  /\ At(w, "who")
  /\ Become(w, [job[w] EXCEPT !.pc = "rights", !.admitted = UserOf(job[w].cookie)])
  /\ Reads

\* permission.json, by the first statement of the handler; of the pages whose handlers
\* act in the user's name ("act") the one that asks for least.
PageLevel(pc) ==
  IF pc \in {"status", "delete_user", "set_permission", "clear"} THEN 0
  ELSE IF pc = "now" THEN 2 ELSE 3

Handlers == {"logout_own", "taken", "logout", "status", "delete_user", "now",
             "set_permission", "clear", "act"}

FilterPermission(w) ==
  /\ At(w, "rights")
  /\ \E pc \in Handlers :
       IF RightsOf(job[w].admitted) <= PageLevel(pc) THEN Goto(w, pc) ELSE Answer(w)
  /\ Reads

\* A handler finds no body, or a parameter missing, out of range or naming the
\* administrator.
BadRequest(w) ==
  /\ job[w].pc \in {"password", "taken", "logout", "status", "delete_user", "now",
                    "set_permission", "act"}
  /\ Answer(w) /\ Reads
-----------------------------------------------------------------------------
(* deal_login                                                              *)

LogoutOwn(w) ==
  /\ At(w, "logout_own") /\ Goto(w, "password")
  /\ CloseThese({job[w].cookie}) \/ (DbErrors /\ UNCHANGED sessions)
  /\ UNCHANGED <<users, lastCode, outlived>>

CheckPassword(w) ==
  /\ At(w, "password")
  /\ \/ \E n \in Names :
          Enabled(n) /\ Become(w, [job[w] EXCEPT !.pc = "login_rights", !.name = n])
     \/ Answer(w)
  /\ Reads

LoginRights(w) ==
  /\ At(w, "login_rights")
  /\ Become(w, [job[w] EXCEPT !.pc = "insert", !.level = RightsOf(job[w].name)])
  /\ Reads

InsertSession(w) ==
  /\ At(w, "insert") /\ Answer(w)
  /\ \/ /\ lastCode < MaxSessions
        /\ lastCode' = NewCode
        /\ sessions' = [c \in DOMAIN sessions \cup {NewCode} |->
                          IF c = NewCode
                          THEN [user |-> job[w].name, level |-> job[w].level,
                                open |-> TRUE, fresh |-> TRUE]
                          ELSE sessions[c]]
        /\ outlived' = IF Enabled(job[w].name) THEN outlived
                       ELSE outlived \cup {NewCode}
     \/ (DbErrors \/ lastCode = MaxSessions) /\ UNCHANGED <<sessions, lastCode, outlived>>
  /\ UNCHANGED users
-----------------------------------------------------------------------------
(* deal_register.  Accounts with more rights than a reader's are created by *)
(* an administrator who gives the password.                                *)

NameTaken(w) ==
  /\ At(w, "taken")
  /\ \E n \in Names, l \in Levels :
       \/ Enabled(n) /\ Answer(w)
       \/ /\ ~Enabled(n)
          /\ Become(w, [job[w] EXCEPT !.name = n, !.level = l,
                                      !.pc = IF l < 2 THEN "creator" ELSE "create"])
  /\ Reads

Creator(w) ==
  /\ At(w, "creator")
  /\ Become(w, [job[w] EXCEPT !.pc = "creator_rights", !.who = UserOf(job[w].cookie)])
  /\ Reads

CreatorRights(w) ==
  /\ At(w, "creator_rights")
  /\ \/ SessionRights(job[w].cookie) = 0 /\ Goto(w, "creator_password")
     \/ SessionRights(job[w].cookie) # 0 /\ Answer(w)
  /\ Reads

CreatorPassword(w) ==
  /\ At(w, "creator_password")
  /\ (Enabled(job[w].who) /\ Goto(w, "create")) \/ Answer(w)
  /\ Reads

\* The primary key refuses a name that is in the table, enabled or not.
CreateUser(w) ==
  /\ At(w, "create") /\ Answer(w)
  /\ LET n == job[w].name IN
     \/ /\ n \notin DOMAIN users
        /\ users' = [m \in DOMAIN users \cup {n} |->
                       IF m = n THEN [level |-> job[w].level, enabled |-> TRUE] ELSE users[m]]
     \/ (DbErrors \/ n \in DOMAIN users) /\ UNCHANGED users
  /\ UNCHANGED <<sessions, lastCode, outlived>>
-----------------------------------------------------------------------------
(* deal_logout: the own session, or another one by an administrator.       *)

Logout(w) ==
  /\ At(w, "logout")
  /\ \/ Answer(w) /\ CloseThese({job[w].cookie}) /\ UNCHANGED <<users, lastCode, outlived>>
     \/ Fails(w)
     \/ /\ \E c \in 1..lastCode :
             /\ c # job[w].cookie
             /\ IF SessionRights(job[w].cookie) = 0
                THEN Become(w, [job[w] EXCEPT !.pc = "logout_other", !.codes = {c}])
                ELSE Answer(w)
        /\ Reads

LogoutOther(w) ==
  /\ At(w, "logout_other")
  /\ \/ Answer(w) /\ CloseThese(job[w].codes) /\ UNCHANGED <<users, lastCode, outlived>>
     \/ Fails(w)
-----------------------------------------------------------------------------
(* deal_remove_user (which enables a disabled account again) and            *)
(* deal_delete_user: the account first, then its sessions.                  *)

ReadStatus(w) ==
  /\ At(w, "status")
  /\ \E n \in Others :
       Become(w, [job[w] EXCEPT !.pc = "toggle", !.name = n, !.enable = ~Enabled(n)])
  /\ Reads

ToggleUser(w) ==
  /\ At(w, "toggle")
  /\ \/ /\ Goto(w, "close_all")
        /\ LET n == job[w].name
           IN  IF n \in DOMAIN users
               THEN SetUser(n, [users[n] EXCEPT !.enabled = job[w].enable])
               ELSE UNCHANGED users
        /\ UNCHANGED <<sessions, lastCode, outlived>>
     \/ Fails(w)

DeleteUser(w) ==
  /\ At(w, "delete_user")
  /\ \/ \E n \in Others :
          /\ Become(w, [job[w] EXCEPT !.pc = "delete_all", !.name = n])
          /\ users' = [m \in DOMAIN users \ {n} |-> users[m]]
          /\ UNCHANGED <<sessions, lastCode, outlived>>
     \/ Fails(w)

\* remove_session_by_username, delete_session_by_username
CloseSessions(w) ==
  /\ job[w].pc \in {"close_all", "delete_all"} /\ Answer(w)
  /\ LET C == SessionsOf(job[w].name) IN
     \/ /\ IF At(w, "close_all") THEN CloseThese(C) ELSE DeleteThese(C)
        /\ UNCHANGED outlived
     \/ DbErrors /\ outlived' = outlived \cup C /\ UNCHANGED sessions
  /\ UNCHANGED <<users, lastCode>>
-----------------------------------------------------------------------------
(* deal_reset_password, deal_reset_user_permission, and the handlers that   *)
(* do something in the user's name.                                        *)

Whoami(w) ==
  /\ job[w].pc \in {"now", "act"}
  /\ \E pc \in IF At(w, "act") THEN {"acting"} ELSE {"old_password", "reset_rights"} :
       Become(w, [job[w] EXCEPT !.pc = pc, !.who = UserOf(job[w].cookie)])
  /\ Reads

\* Another user's password: only an administrator.
ResetRights(w) ==
  /\ At(w, "reset_rights")
  /\ \/ RightsOf(job[w].who) = 0 /\ Goto(w, "old_password")
     \/ RightsOf(job[w].who) # 0 /\ Answer(w)
  /\ Reads

OldPassword(w) ==
  /\ At(w, "old_password")
  /\ (Enabled(job[w].who) /\ Goto(w, "edit")) \/ Answer(w)
  /\ Reads

\* Ends a request: edit_password, or the statements of a handler of another part.
Finish(w) == job[w].pc \in {"edit", "acting"} /\ Answer(w) /\ Reads

SetPermission(w) ==
  /\ At(w, "set_permission")
  /\ \/ /\ Answer(w)
        /\ \E n \in Names \ {Admin}, l \in Levels :
             IF n \in DOMAIN users THEN SetUser(n, [users[n] EXCEPT !.level = l])
             ELSE UNCHANGED users
        /\ UNCHANGED <<sessions, lastCode, outlived>>
     \/ Fails(w)
-----------------------------------------------------------------------------
(* deal_detele_sessions: clear() logs out what its snapshot shows expired,  *)
(* one statement each, and the closed sessions are deleted.                *)

Snapshot(w) ==
  /\ At(w, "clear")
  /\ Become(w, [job[w] EXCEPT !.pc = "expired",
       !.codes = {c \in DOMAIN sessions : sessions[c].open /\ ~sessions[c].fresh}])
  /\ Reads

LogoutExpired(w) ==
  /\ At(w, "expired")
  /\ \/ \E c \in job[w].codes :
          /\ Become(w, [job[w] EXCEPT !.codes = @ \ {c}])
          /\ CloseThese({c}) \/ (DbErrors /\ UNCHANGED sessions)
     \/ job[w].codes = {} /\ Goto(w, "purge") /\ UNCHANGED sessions
  /\ UNCHANGED <<users, lastCode, outlived>>

Purge(w) ==
  /\ At(w, "purge")
  /\ \/ /\ Answer(w)
        /\ DeleteThese({c \in DOMAIN sessions : ~sessions[c].open})
        /\ UNCHANGED <<users, lastCode, outlived>>
     \/ Fails(w)
-----------------------------------------------------------------------------
\* Time passes: a session not used for time_out_ seconds is no longer fresh.
Expire ==
  /\ \E c \in DOMAIN sessions :
       sessions[c].fresh /\ sessions' = [sessions EXCEPT ![c].fresh = FALSE]
  /\ UNCHANGED <<users, lastCode, job, outlived>>

Cleaning(w, n) == job[w].pc \in {"close_all", "delete_all"} /\ job[w].name = n

\* UserMgr::init: the administrator is created if he is not enabled, then clear()
\* deletes the accounts with a guest's rights.
WithAdmin ==
  IF Admin \in DOMAIN users THEN users
  ELSE [n \in DOMAIN users \cup {Admin} |->
          IF n = Admin THEN [level |-> 0, enabled |-> TRUE] ELSE users[n]]
Kept == {n \in DOMAIN WithAdmin : WithAdmin[n].level # 3}

\* The process ends and starts again; an end by "q" runs ~SessionMgr, which closes the
\* expired sessions.
Restart ==
  /\ users' = [n \in Kept |-> WithAdmin[n]]
  /\ outlived' = outlived \cup
       {c \in DOMAIN sessions : \/ sessions[c].user \notin Kept
                                \/ \E w \in Workers : Cleaning(w, sessions[c].user)}
  /\ CloseThese({c \in DOMAIN sessions : ~sessions[c].fresh}) \/ UNCHANGED sessions
  /\ job' = [w \in Workers |-> NoJob]
  /\ UNCHANGED lastCode

Serve(w) ==
  \/ Arrive(w) \/ CheckSession(w) \/ ActiveSession(w) \/ FilterUser(w)
  \/ FilterPermission(w) \/ BadRequest(w)
  \/ LogoutOwn(w) \/ CheckPassword(w) \/ LoginRights(w) \/ InsertSession(w)
  \/ NameTaken(w) \/ Creator(w) \/ CreatorRights(w) \/ CreatorPassword(w) \/ CreateUser(w)
  \/ Logout(w) \/ LogoutOther(w)
  \/ ReadStatus(w) \/ ToggleUser(w) \/ DeleteUser(w) \/ CloseSessions(w)
  \/ Whoami(w) \/ ResetRights(w) \/ OldPassword(w) \/ Finish(w) \/ SetPermission(w)
  \/ Snapshot(w) \/ LogoutExpired(w) \/ Purge(w)

Next == (\E w \in Workers : Serve(w)) \/ Expire \/ Restart

Spec == Init /\ [][Next]_vars
-----------------------------------------------------------------------------
\* There is always an enabled administrator: no sequence of registrations, removals,
\* deletions, changes of rights and restarts takes the account or its rights away,
\* however their statements interleave (deal_*_user, UserMgr::init).
AdminKept == Enabled(Admin) /\ users[Admin].level = 0

\* A handler acts for the user its filter admitted or, if the session was deleted in
\* between, for nobody: two look-ups of one cookie at different times never find
\* two users (filter_permission, get_username in the handlers).
ActsAsSelf == \A w \in Workers : job[w].who \in {NoName, job[w].admitted}

\* A session that is closed or deleted stays so: a request that was admitted before,
\* and refreshes the session after, does not open it again (SessionMgr::active).
ClosedForGood == [][\A c \in 1..lastCode : Live(c)' => Live(c)]_vars

\* The sessions of an account that is disabled or deleted are closed, or will be by the
\* request that is at it.  Those that are not are in "outlived": they were inserted by a
\* login that checked the password before the account went, or a restart or a failed
\* statement came between account and sessions (deal_remove_user, deal_delete_user).
ClosedWithAccount ==
  \A c \in DOMAIN sessions \ outlived :
    sessions[c].open =>
      Enabled(sessions[c].user) \/ \E w \in Workers : Cleaning(w, sessions[c].user)
=============================================================================
