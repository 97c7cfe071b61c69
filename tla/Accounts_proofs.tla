-------------------------- MODULE Accounts_proofs --------------------------
(***************************************************************************)
(* What holds of the accounts and sessions of the news application for      *)
(* every set of workers and names and every number of sessions.            *)
(***************************************************************************)
EXTENDS Accounts, TLAPS

\* Where a job has the name of an account, and a name other than the administrator's.
NamedPoints == {"login_rights", "insert", "creator", "creator_rights", "creator_password",
                "create", "toggle", "close_all", "delete_all"}
GoodJob == {j \in Job : /\ j.pc \in NamedPoints => j.name \in Names
                        /\ j.pc = "toggle" => j.name # Admin}
JobsOK == job \in [Workers -> GoodJob]

TablesOK ==
  /\ DOMAIN users \subseteq Names
  /\ users \in [DOMAIN users -> Account]
  /\ lastCode \in 0..MaxSessions
  /\ DOMAIN sessions \subseteq 1..lastCode
  /\ sessions \in [DOMAIN sessions -> Session]
  /\ outlived \subseteq 1..lastCode

Typed == TablesOK /\ JobsOK

LEMMA TypedTypes == Typed => AccountsTypeOK
BY DEF Typed, TablesOK, JobsOK, GoodJob, AccountsTypeOK

LEMMA NoJobGood == NoJob \in GoodJob
BY AccountsAssumption DEF NoJob, GoodJob, Job, Points, NamedPoints

\* A worker takes a good job.
LEMMA BecomeGood ==
  ASSUME JobsOK, NEW w \in Workers, NEW j \in GoodJob, Become(w, j)
  PROVE  JobsOK'
BY DEF Become, JobsOK

LEMMA AnswerGood ==
  ASSUME JobsOK, NEW w \in Workers, Answer(w)
  PROVE  JobsOK'
BY NoJobGood, BecomeGood DEF Answer

\* It goes on to a point for which the job needs no more than it has.
LEMMA GotoGood ==
  ASSUME JobsOK, NEW w \in Workers, NEW pc \in Points, pc # "toggle",
         pc \in NamedPoints => job[w].pc \in NamedPoints, Goto(w, pc)
  PROVE  JobsOK'
<1>1. [job[w] EXCEPT !.pc = pc] \in GoodJob
  BY DEF JobsOK, GoodJob, Job
<1> QED
  BY <1>1, BecomeGood DEF Goto

\* Sessions are closed or deleted, and nothing else happens to the tables.
LEMMA CloseTyped ==
  ASSUME TablesOK, UNCHANGED <<users, lastCode>>, outlived' \subseteq 1..lastCode,
         NEW C, CloseThese(C) \/ DeleteThese(C) \/ UNCHANGED sessions
  PROVE  TablesOK'
BY DEF TablesOK, CloseThese, DeleteThese, Session

LEMMA ReadsKeep == TablesOK /\ Reads => TablesOK'
BY DEF TablesOK, Reads, tables

\* What the statements read has its type.
LEMMA ReadsTyped ==
  ASSUME TablesOK
  PROVE  /\ \A n : RightsOf(n) \in Nat
         /\ \A c : UserOf(c) \in Names \cup {NoName}
         /\ \A c : SessionRights(c) \in Nat
BY DEF TablesOK, RightsOf, UserOf, SessionRights, Account, Session

LEMMA FailsTyped ==
  ASSUME Typed, NEW w \in Workers, Fails(w)
  PROVE  Typed'
BY AnswerGood, ReadsKeep DEF Fails, Typed

LEMMA FilterTyped ==
  ASSUME Typed, NEW w \in Workers,
         \/ Arrive(w) \/ CheckSession(w) \/ ActiveSession(w) \/ FilterUser(w)
         \/ FilterPermission(w) \/ BadRequest(w)
  PROVE  Typed'
<1>0. TablesOK /\ JobsOK /\ job[w] \in GoodJob
  BY DEF Typed, JobsOK
<1>1. CASE Arrive(w)
  <2>1. PICK c \in 0..lastCode :
          Become(w, [NoJob EXCEPT !.pc = IF c = 0 THEN "who" ELSE "check", !.cookie = c])
    BY <1>1 DEF Arrive
  <2>2. c \in 0..MaxSessions
    BY <1>0, AccountsAssumption DEF TablesOK
  <2>3. [NoJob EXCEPT !.pc = IF c = 0 THEN "who" ELSE "check", !.cookie = c] \in GoodJob
    BY <2>2, AccountsAssumption DEF NoJob, GoodJob, Job, Points, NamedPoints
  <2> QED
    BY <1>0, <1>1, <2>1, <2>3, BecomeGood, ReadsKeep DEF Arrive, Typed
<1>2. CASE CheckSession(w)
  <2> DEFINE pc == IF Live(job[w].cookie) /\ sessions[job[w].cookie].fresh
                   THEN "active" ELSE "who"
  <2>1. Goto(w, pc)
    BY <1>2 DEF CheckSession
  <2>2. pc \in Points /\ pc \notin NamedPoints /\ pc # "toggle"
    BY DEF Points, NamedPoints
  <2> QED
    BY <1>0, <1>2, <2>1, <2>2, GotoGood, ReadsKeep DEF CheckSession, Typed
<1>3. CASE ActiveSession(w)
  <2>1. JobsOK'
    <3>1. "who" \in Points \ NamedPoints
      BY DEF Points, NamedPoints
    <3> QED
      BY <1>0, <1>3, <3>1, GotoGood DEF ActiveSession
  <2>2. TablesOK'
    BY <1>0, <1>3 DEF ActiveSession, TablesOK, Refreshed, Session
  <2> QED
    BY <2>1, <2>2 DEF Typed
<1>4. CASE FilterUser(w)
  <2>1. [job[w] EXCEPT !.pc = "rights", !.admitted = UserOf(job[w].cookie)] \in GoodJob
    BY <1>0, ReadsTyped DEF GoodJob, Job, Points, NamedPoints
  <2> QED
    BY <1>0, <1>4, <2>1, BecomeGood, ReadsKeep DEF FilterUser, Typed
<1>5. CASE FilterPermission(w)
  <2>1. PICK pc \in Handlers : Goto(w, pc) \/ Answer(w)
    BY <1>5 DEF FilterPermission
  <2>2. pc \in Points /\ pc \notin NamedPoints /\ pc # "toggle"
    BY DEF Handlers, Points, NamedPoints
  <2> QED
    BY <1>0, <1>5, <2>1, <2>2, GotoGood, AnswerGood, ReadsKeep DEF FilterPermission, Typed
<1>6. CASE BadRequest(w)
  BY <1>0, <1>6, AnswerGood, ReadsKeep DEF BadRequest, Typed
<1> QED
  BY <1>1, <1>2, <1>3, <1>4, <1>5, <1>6

LEMMA LoginTyped ==
  ASSUME Typed, NEW w \in Workers,
         LogoutOwn(w) \/ CheckPassword(w) \/ LoginRights(w) \/ InsertSession(w)
  PROVE  Typed'
<1>0. TablesOK /\ JobsOK /\ job[w] \in GoodJob
  BY DEF Typed, JobsOK
<1>1. CASE LogoutOwn(w)
  <2>1. "password" \in Points \ NamedPoints
    BY DEF Points, NamedPoints
  <2>2. JobsOK'
    BY <1>0, <1>1, <2>1, GotoGood DEF LogoutOwn, NamedPoints
  <2>3. TablesOK'
    BY <1>0, <1>1, CloseTyped DEF LogoutOwn, TablesOK
  <2> QED
    BY <2>2, <2>3 DEF Typed
<1>2. CASE CheckPassword(w)
  <2>1. CASE Answer(w)
    BY <1>0, <1>2, <2>1, AnswerGood, ReadsKeep DEF CheckPassword, Typed
  <2>2. ASSUME NEW n \in Names, Become(w, [job[w] EXCEPT !.pc = "login_rights", !.name = n])
        PROVE  Typed'
    <3>1. [job[w] EXCEPT !.pc = "login_rights", !.name = n] \in GoodJob
      BY <1>0 DEF GoodJob, Job, Points
    <3> QED
      BY <1>0, <1>2, <2>2, <3>1, BecomeGood, ReadsKeep DEF CheckPassword, Typed
  <2> QED
    BY <1>2, <2>1, <2>2 DEF CheckPassword
<1>3. CASE LoginRights(w)
  <2>1. [job[w] EXCEPT !.pc = "insert", !.level = RightsOf(job[w].name)] \in GoodJob
    BY <1>0, <1>3, ReadsTyped DEF LoginRights, At, GoodJob, Job, Points, NamedPoints
  <2> QED
    BY <1>0, <1>3, <2>1, BecomeGood, ReadsKeep DEF LoginRights, Typed
<1>4. CASE InsertSession(w)
  <2>1. JobsOK'
    BY <1>0, <1>4, AnswerGood DEF InsertSession
  <2>2. job[w].level \in Nat /\ job[w].name \in Names
    <3>1. job[w].pc \in NamedPoints
      BY <1>4 DEF InsertSession, At, NamedPoints
    <3>2. job[w] \in Job /\ job[w].name \in Names
      BY <1>0, <3>1 DEF GoodJob
    <3> QED
      BY <3>2 DEF Job
  <2>3. TablesOK'
    <3>1. CASE UNCHANGED <<sessions, lastCode, outlived>>
      BY <1>0, <1>4, <3>1 DEF InsertSession, TablesOK
    <3>2. CASE /\ lastCode < MaxSessions /\ lastCode' = lastCode + 1
               /\ sessions' = [c \in DOMAIN sessions \cup {lastCode + 1} |->
                                IF c = lastCode + 1
                                THEN [user |-> job[w].name, level |-> job[w].level,
                                      open |-> TRUE, fresh |-> TRUE]
                                ELSE sessions[c]]
               /\ outlived' \subseteq outlived \cup {lastCode + 1}
      BY <1>0, <1>4, <2>2, <3>2, AccountsAssumption DEF InsertSession, TablesOK, Session
    <3> QED
      BY <1>4, <3>1, <3>2 DEF InsertSession, NewCode
  <2> QED
    BY <2>1, <2>3 DEF Typed
<1> QED
  BY <1>1, <1>2, <1>3, <1>4

LEMMA RegisterTyped ==
  ASSUME Typed, NEW w \in Workers,
         \/ NameTaken(w) \/ Creator(w) \/ CreatorRights(w) \/ CreatorPassword(w)
         \/ CreateUser(w)
  PROVE  Typed'
<1>0. TablesOK /\ JobsOK /\ job[w] \in GoodJob
  BY DEF Typed, JobsOK
<1>1. CASE NameTaken(w)
  <2>1. CASE Answer(w)
    BY <1>0, <1>1, <2>1, AnswerGood, ReadsKeep DEF NameTaken, Typed
  <2>2. ASSUME NEW n \in Names, NEW l \in Levels,
               Become(w, [job[w] EXCEPT !.name = n, !.level = l,
                                        !.pc = IF l < 2 THEN "creator" ELSE "create"])
        PROVE  Typed'
    <3>1. [job[w] EXCEPT !.name = n, !.level = l,
                         !.pc = IF l < 2 THEN "creator" ELSE "create"] \in GoodJob
      BY <1>0, AccountsAssumption DEF GoodJob, Job, Points
    <3> QED
      BY <1>0, <1>1, <2>2, <3>1, BecomeGood, ReadsKeep DEF NameTaken, Typed
  <2> QED
    BY <1>1, <2>1, <2>2 DEF NameTaken
<1>2. CASE Creator(w)
  <2>1. [job[w] EXCEPT !.pc = "creator_rights", !.who = UserOf(job[w].cookie)] \in GoodJob
    BY <1>0, <1>2, ReadsTyped DEF Creator, At, GoodJob, Job, Points, NamedPoints
  <2> QED
    BY <1>0, <1>2, <2>1, BecomeGood, ReadsKeep DEF Creator, Typed
<1>3. CASE CreatorRights(w)
  <2>1. "creator_password" \in Points /\ job[w].pc \in NamedPoints
    BY <1>3 DEF CreatorRights, At, Points, NamedPoints
  <2> QED
    BY <1>0, <1>3, <2>1, GotoGood, AnswerGood, ReadsKeep DEF CreatorRights, Typed
<1>4. CASE CreatorPassword(w)
  <2>1. "create" \in Points /\ job[w].pc \in NamedPoints
    BY <1>4 DEF CreatorPassword, At, Points, NamedPoints
  <2> QED
    BY <1>0, <1>4, <2>1, GotoGood, AnswerGood, ReadsKeep DEF CreatorPassword, Typed
<1>5. CASE CreateUser(w)
  <2>1. JobsOK'
    BY <1>0, <1>5, AnswerGood DEF CreateUser
  <2>2. job[w].name \in Names /\ job[w].level \in Nat
    <3>1. job[w].pc \in NamedPoints
      BY <1>5 DEF CreateUser, At, NamedPoints
    <3>2. job[w] \in Job /\ job[w].name \in Names
      BY <1>0, <3>1 DEF GoodJob
    <3> QED
      BY <3>2 DEF Job
  <2>3. TablesOK'
    <3> DEFINE n == job[w].name
    <3>1. CASE UNCHANGED users
      BY <1>0, <1>5, <3>1 DEF CreateUser, TablesOK
    <3>2. CASE users' = [m \in DOMAIN users \cup {n} |->
                 IF m = n THEN [level |-> job[w].level, enabled |-> TRUE] ELSE users[m]]
      BY <1>0, <1>5, <2>2, <3>2 DEF CreateUser, TablesOK, Account
    <3> QED
      BY <1>5, <3>1, <3>2 DEF CreateUser
  <2> QED
    BY <2>1, <2>3 DEF Typed
<1> QED
  BY <1>1, <1>2, <1>3, <1>4, <1>5

LEMMA LogoutTyped ==
  ASSUME Typed, NEW w \in Workers, Logout(w) \/ LogoutOther(w)
  PROVE  Typed'
<1>0. TablesOK /\ JobsOK /\ job[w] \in GoodJob
  BY DEF Typed, JobsOK
<1>1. CASE Logout(w)
  <2>1. CASE Answer(w) /\ CloseThese({job[w].cookie}) /\ UNCHANGED <<users, lastCode, outlived>>
    BY <1>0, <2>1, AnswerGood, CloseTyped DEF Typed, TablesOK
  <2>2. CASE Answer(w) /\ Reads
    BY <1>0, <2>2, AnswerGood, ReadsKeep DEF Typed
  <2>3. ASSUME NEW c \in 1..lastCode, Reads,
               Become(w, [job[w] EXCEPT !.pc = "logout_other", !.codes = {c}])
        PROVE  Typed'
    <3>1. {c} \in SUBSET (1..MaxSessions)
      BY <1>0, AccountsAssumption DEF TablesOK
    <3>2. [job[w] EXCEPT !.pc = "logout_other", !.codes = {c}] \in GoodJob
      BY <1>0, <3>1 DEF GoodJob, Job, Points, NamedPoints
    <3> QED
      BY <1>0, <2>3, <3>2, BecomeGood, ReadsKeep DEF Typed
  <2> QED
    BY <1>1, <2>1, <2>2, <2>3, FailsTyped DEF Logout
<1>2. CASE LogoutOther(w)
  <2>1. CASE Answer(w) /\ CloseThese(job[w].codes) /\ UNCHANGED <<users, lastCode, outlived>>
    BY <1>0, <2>1, AnswerGood, CloseTyped DEF Typed, TablesOK
  <2> QED
    BY <1>2, <2>1, FailsTyped DEF LogoutOther
<1> QED
  BY <1>1, <1>2

LEMMA RemoveTyped ==
  ASSUME Typed, NEW w \in Workers,
         ReadStatus(w) \/ ToggleUser(w) \/ DeleteUser(w) \/ CloseSessions(w)
  PROVE  Typed'
<1>0. TablesOK /\ JobsOK /\ job[w] \in GoodJob
  BY DEF Typed, JobsOK
<1>1. CASE ReadStatus(w)
  <2>1. PICK n \in Others :
          Become(w, [job[w] EXCEPT !.pc = "toggle", !.name = n, !.enable = ~Enabled(n)])
    BY <1>1 DEF ReadStatus
  <2>2. (~Enabled(n)) \in BOOLEAN
    OBVIOUS
  <2>3. [job[w] EXCEPT !.pc = "toggle", !.name = n, !.enable = ~Enabled(n)] \in GoodJob
    BY <1>0, <2>2 DEF GoodJob, Job, Points, Others
  <2> QED
    BY <1>0, <1>1, <2>1, <2>3, BecomeGood, ReadsKeep DEF ReadStatus, Typed
<1>2. CASE ToggleUser(w)
  <2>1. CASE Fails(w)
    BY <2>1, FailsTyped
  <2>2. CASE ~Fails(w)
    <3>1. JobsOK'
      <4>1. "close_all" \in Points /\ job[w].pc \in NamedPoints
        BY <1>2 DEF ToggleUser, At, Points, NamedPoints
      <4> QED
        BY <1>0, <1>2, <2>2, <4>1, GotoGood DEF ToggleUser
    <3>2. job[w].enable \in BOOLEAN
      BY <1>0 DEF GoodJob, Job
    <3>3. TablesOK'
      BY <1>0, <1>2, <2>2, <3>2 DEF ToggleUser, SetUser, TablesOK, Account
    <3> QED
      BY <3>1, <3>3 DEF Typed
  <2> QED
    BY <2>1, <2>2
<1>3. CASE DeleteUser(w)
  <2>1. ASSUME NEW n \in Others,
               Become(w, [job[w] EXCEPT !.pc = "delete_all", !.name = n]),
               users' = [m \in DOMAIN users \ {n} |-> users[m]],
               UNCHANGED <<sessions, lastCode, outlived>>
        PROVE  Typed'
    <3>1. [job[w] EXCEPT !.pc = "delete_all", !.name = n] \in GoodJob
      BY <1>0 DEF GoodJob, Job, Points, Others
    <3>2. TablesOK'
      BY <1>0, <2>1 DEF TablesOK
    <3> QED
      BY <1>0, <2>1, <3>1, <3>2, BecomeGood DEF Typed
  <2> QED
    BY <1>3, <2>1, FailsTyped DEF DeleteUser
<1>4. CASE CloseSessions(w)
  <2>1. JobsOK'
    BY <1>0, <1>4, AnswerGood DEF CloseSessions
  <2>2. SessionsOf(job[w].name) \subseteq 1..lastCode
    BY <1>0 DEF SessionsOf, TablesOK
  <2>3. outlived' \subseteq 1..lastCode
    BY <1>0, <1>4, <2>2 DEF CloseSessions, TablesOK
  <2>4. \/ CloseThese(SessionsOf(job[w].name))
        \/ DeleteThese(SessionsOf(job[w].name))
        \/ UNCHANGED sessions
    BY <1>4 DEF CloseSessions
  <2>5. TablesOK'
    BY <1>0, <1>4, <2>3, <2>4, CloseTyped DEF CloseSessions
  <2> QED
    BY <2>1, <2>5 DEF Typed
<1> QED
  BY <1>1, <1>2, <1>3, <1>4

LEMMA PasswordTyped ==
  ASSUME Typed, NEW w \in Workers,
         Whoami(w) \/ ResetRights(w) \/ OldPassword(w) \/ Finish(w) \/ SetPermission(w)
  PROVE  Typed'
<1>0. TablesOK /\ JobsOK /\ job[w] \in GoodJob
  BY DEF Typed, JobsOK
<1>1. CASE Whoami(w)
  <2>1. PICK pc \in {"acting", "old_password", "reset_rights"} :
          Become(w, [job[w] EXCEPT !.pc = pc, !.who = UserOf(job[w].cookie)])
    BY <1>1 DEF Whoami
  <2>2. [job[w] EXCEPT !.pc = pc, !.who = UserOf(job[w].cookie)] \in GoodJob
    BY <1>0, ReadsTyped DEF GoodJob, Job, Points, NamedPoints
  <2> QED
    BY <1>0, <1>1, <2>1, <2>2, BecomeGood, ReadsKeep DEF Whoami, Typed
<1>2. CASE ResetRights(w)
  <2>1. "old_password" \in Points \ NamedPoints
    BY DEF Points, NamedPoints
  <2> QED
    BY <1>0, <1>2, <2>1, GotoGood, AnswerGood, ReadsKeep DEF ResetRights, Typed
<1>3. CASE OldPassword(w)
  <2>1. "edit" \in Points \ NamedPoints
    BY DEF Points, NamedPoints
  <2> QED
    BY <1>0, <1>3, <2>1, GotoGood, AnswerGood, ReadsKeep DEF OldPassword, Typed
<1>4. CASE Finish(w)
  BY <1>0, <1>4, AnswerGood, ReadsKeep DEF Finish, Typed
<1>5. CASE SetPermission(w)
  <2>1. CASE Fails(w)
    BY <2>1, FailsTyped
  <2>2. CASE ~Fails(w)
    <3>1. JobsOK'
      BY <1>0, <1>5, <2>2, AnswerGood DEF SetPermission
    <3>2. TablesOK'
      BY <1>0, <1>5, <2>2, AccountsAssumption DEF SetPermission, SetUser, TablesOK, Account
    <3> QED
      BY <3>1, <3>2 DEF Typed
  <2> QED
    BY <2>1, <2>2
<1> QED
  BY <1>1, <1>2, <1>3, <1>4, <1>5

LEMMA DeleteTyped ==
  ASSUME Typed, NEW w \in Workers, Snapshot(w) \/ LogoutExpired(w) \/ Purge(w)
  PROVE  Typed'
<1>0. TablesOK /\ JobsOK /\ job[w] \in GoodJob
  BY DEF Typed, JobsOK
<1>1. CASE Snapshot(w)
  <2> DEFINE C == {c \in DOMAIN sessions : sessions[c].open /\ ~sessions[c].fresh}
  <2>1. C \in SUBSET (1..MaxSessions)
    BY <1>0, AccountsAssumption DEF TablesOK
  <2>2. [job[w] EXCEPT !.pc = "expired", !.codes = C] \in GoodJob
    BY <1>0, <2>1 DEF GoodJob, Job, Points, NamedPoints
  <2> QED
    BY <1>0, <1>1, <2>2, BecomeGood, ReadsKeep DEF Snapshot, Typed
<1>2. CASE LogoutExpired(w)
  <2>1. CASE job[w].codes = {} /\ Goto(w, "purge") /\ UNCHANGED sessions
    <3>1. "purge" \in Points \ NamedPoints
      BY DEF Points, NamedPoints
    <3>2. JobsOK'
      BY <1>0, <2>1, <3>1, GotoGood
    <3>3. TablesOK'
      BY <1>0, <1>2, <2>1 DEF LogoutExpired, TablesOK
    <3> QED
      BY <3>2, <3>3 DEF Typed
  <2>2. ASSUME NEW c \in job[w].codes, Become(w, [job[w] EXCEPT !.codes = @ \ {c}]),
               CloseThese({c}) \/ UNCHANGED sessions
        PROVE  Typed'
    <3>1. [job[w] EXCEPT !.codes = @ \ {c}] \in GoodJob
      BY <1>0 DEF GoodJob, Job
    <3>2. TablesOK'
      BY <1>0, <1>2, <2>2, CloseTyped DEF LogoutExpired, TablesOK
    <3> QED
      BY <1>0, <2>2, <3>1, <3>2, BecomeGood DEF Typed
  <2> QED
    BY <1>2, <2>1, <2>2 DEF LogoutExpired
<1>3. CASE Purge(w)
  <2>1. CASE Fails(w)
    BY <2>1, FailsTyped
  <2>2. CASE ~Fails(w)
    <3>1. JobsOK'
      BY <1>0, <1>3, <2>2, AnswerGood DEF Purge
    <3>2. TablesOK'
      BY <1>0, <1>3, <2>2, CloseTyped DEF Purge, TablesOK
    <3> QED
      BY <3>1, <3>2 DEF Typed
  <2> QED
    BY <2>1, <2>2
<1> QED
  BY <1>1, <1>2, <1>3

LEMMA RestartSessions ==
  ASSUME Restart
  PROVE  \E C : CloseThese(C) \/ UNCHANGED sessions
BY DEF Restart

\* UserMgr::init leaves a table of users.
LEMMA RestartUsers ==
  ASSUME TablesOK
  PROVE  /\ DOMAIN WithAdmin = DOMAIN users \cup {Admin}
         /\ WithAdmin \in [DOMAIN users \cup {Admin} -> Account]
         /\ \A n \in DOMAIN users : WithAdmin[n] = users[n]
BY AccountsAssumption DEF WithAdmin, TablesOK, Account

LEMMA RestartTables ==
  ASSUME TablesOK, Restart
  PROVE  TablesOK'
<1>1. /\ Kept \subseteq Names
      /\ users' = [n \in Kept |-> WithAdmin[n]]
      /\ \A n \in Kept : WithAdmin[n] \in Account
  BY RestartUsers, AccountsAssumption DEF Restart, Kept, TablesOK
<1>2. users' \in [DOMAIN users' -> Account] /\ DOMAIN users' \subseteq Names
  BY <1>1
<1>3. DOMAIN sessions' \subseteq 1..lastCode' /\ sessions' \in [DOMAIN sessions' -> Session]
  BY RestartSessions DEF Restart, TablesOK, CloseThese, Session
<1>4. lastCode' = lastCode /\ outlived' \subseteq 1..lastCode
  BY DEF Restart, TablesOK
<1> QED
  BY <1>2, <1>3, <1>4 DEF TablesOK

LEMMA NextTyped ==
  ASSUME Typed, [Next]_vars
  PROVE  Typed'
<1>1. CASE UNCHANGED vars
  BY <1>1 DEF Typed, TablesOK, JobsOK, vars
<1>2. ASSUME NEW w \in Workers, Serve(w)
      PROVE  Typed'
  BY <1>2, FilterTyped, LoginTyped, RegisterTyped, LogoutTyped, RemoveTyped, PasswordTyped,
     DeleteTyped DEF Serve
<1>3. CASE Expire
  <2>1. TablesOK'
    <3>1. PICK c \in DOMAIN sessions : sessions' = [sessions EXCEPT ![c].fresh = FALSE]
      BY <1>3 DEF Expire
    <3>2. [sessions[c] EXCEPT !.fresh = FALSE] \in Session
      BY DEF Typed, TablesOK, Session
    <3> QED
      BY <1>3, <3>1, <3>2 DEF Expire, Typed, TablesOK
  <2> QED
    BY <1>3, <2>1 DEF Expire, Typed, JobsOK
<1>4. CASE Restart
  <2>1. JobsOK'
    BY <1>4, NoJobGood DEF Restart, JobsOK
  <2>2. TablesOK'
    BY <1>4, RestartTables DEF Typed
  <2> QED
    BY <2>1, <2>2 DEF Typed
<1> QED
  BY <1>1, <1>2, <1>3, <1>4 DEF Next

LEMMA InitTyped == Init => Typed
<1> SUFFICES ASSUME Init PROVE Typed
  OBVIOUS
<1>1. JobsOK
  BY NoJobGood DEF Init, JobsOK
<1>2. TablesOK
  BY AccountsAssumption DEF Init, TablesOK, Account
<1> QED
  BY <1>1, <1>2 DEF Typed

LEMMA AlwaysTyped == Spec => []Typed
BY InitTyped, NextTyped, PTL DEF Spec

\* The tables and the jobs keep their types (all of new_publish_impl.cpp's account
\* handlers and filters).
THEOREM AccountsTyped == Spec => []AccountsTypeOK
BY AlwaysTyped, TypedTypes, PTL
-----------------------------------------------------------------------------
(* The administrator.                                                      *)

\* The steps that change accounts.
LEMMA UsersSteps ==
  ASSUME NEW w \in Workers, Serve(w), users' # users
  PROVE  CreateUser(w) \/ ToggleUser(w) \/ DeleteUser(w) \/ SetPermission(w)
BY DEF Serve, Reads, tables, Fails, Arrive, CheckSession, ActiveSession, FilterUser,
       FilterPermission, BadRequest, LogoutOwn, CheckPassword, LoginRights, InsertSession,
       NameTaken, Creator, CreatorRights, CreatorPassword, Logout, LogoutOther, ReadStatus,
       CloseSessions, Whoami, ResetRights, OldPassword, Finish, Snapshot, LogoutExpired, Purge

\* What they do to them: an account in the table stays as it is, unless the request is
\* about it.
LEMMA ServeKeepsAdmin ==
  ASSUME Typed, AdminKept, NEW w \in Workers, Serve(w)
  PROVE  AdminKept'
<1>0. TablesOK /\ job[w] \in GoodJob
  BY DEF Typed, JobsOK
<1>1. CASE users' = users
  BY <1>1 DEF AdminKept, Enabled
<1>2. CASE CreateUser(w)
  BY <1>0, <1>2 DEF CreateUser, AdminKept, Enabled, TablesOK
<1>3. CASE ToggleUser(w)
  <2>1. job[w].name # Admin
    BY <1>0, <1>3 DEF ToggleUser, At, GoodJob
  <2> QED
    BY <1>0, <1>3, <2>1 DEF ToggleUser, SetUser, Fails, Reads, tables, AdminKept, Enabled, TablesOK
<1>4. CASE DeleteUser(w)
  BY <1>0, <1>4 DEF DeleteUser, Others, Fails, Reads, tables, AdminKept, Enabled
<1>5. CASE SetPermission(w)
  BY <1>0, <1>5 DEF SetPermission, Others, SetUser, Fails, Reads, tables, AdminKept, Enabled, TablesOK
<1> QED
  BY <1>1, <1>2, <1>3, <1>4, <1>5, UsersSteps

\* There is always an enabled administrator with all rights, whatever requests and
\* restarts interleave (deal_*_user, UserMgr::init).
THEOREM AdminStays == Spec => []AdminKept
<1>1. Init => AdminKept
  BY DEF Init, AdminKept, Enabled
<1>2. Typed /\ AdminKept /\ [Next]_vars => AdminKept'
  <2> SUFFICES ASSUME Typed, AdminKept, [Next]_vars PROVE AdminKept'
    OBVIOUS
  <2>1. CASE UNCHANGED vars
    BY <2>1 DEF vars, AdminKept, Enabled
  <2>2. CASE Expire
    BY <2>2 DEF Expire, AdminKept, Enabled
  <2>3. CASE Restart
    BY <2>3, RestartUsers DEF Restart, Kept, AdminKept, Enabled, Typed
  <2> QED
    BY <2>1, <2>2, <2>3, ServeKeepsAdmin DEF Next
<1> QED
  BY <1>1, <1>2, AlwaysTyped, PTL DEF Spec
-----------------------------------------------------------------------------
(* Sessions only age.                                                      *)

\* A session in the table keeps its user, and is not opened again; nothing comes back.
OnlyAge ==
  \A c \in 1..lastCode :
    c \in DOMAIN sessions' =>
      /\ c \in DOMAIN sessions
      /\ sessions'[c].user = sessions[c].user
      /\ sessions'[c].open => sessions[c].open

LEMMA CloseAges ==
  ASSUME TablesOK, NEW C, CloseThese(C) \/ DeleteThese(C) \/ UNCHANGED sessions
  PROVE  OnlyAge
BY DEF TablesOK, Session, CloseThese, DeleteThese, OnlyAge

LEMMA NextAges ==
  ASSUME Typed, [Next]_vars
  PROVE  OnlyAge /\ lastCode' >= lastCode
<1>0. TablesOK
  BY DEF Typed
<1>1. CASE UNCHANGED sessions /\ UNCHANGED lastCode
  BY <1>0, <1>1, CloseAges, AccountsAssumption DEF TablesOK
<1>2. ASSUME NEW w \in Workers, ActiveSession(w)
      PROVE  OnlyAge /\ lastCode' >= lastCode
  BY <1>0, <1>2, AccountsAssumption DEF ActiveSession, TablesOK, Session, Refreshed, OnlyAge
<1>3. ASSUME NEW w \in Workers, InsertSession(w)
      PROVE  OnlyAge /\ lastCode' >= lastCode
  BY <1>0, <1>3, AccountsAssumption DEF InsertSession, NewCode, TablesOK, OnlyAge
<1>4. ASSUME NEW w \in Workers,
             \/ LogoutOwn(w) \/ Logout(w) \/ LogoutOther(w) \/ CloseSessions(w)
             \/ LogoutExpired(w) \/ Purge(w)
      PROVE  OnlyAge /\ lastCode' >= lastCode
  <2>1. \E C : CloseThese(C) \/ DeleteThese(C) \/ UNCHANGED sessions
    BY <1>4 DEF LogoutOwn, Logout, LogoutOther, CloseSessions, LogoutExpired, Purge, Fails,
                Reads, tables
  <2>2. UNCHANGED lastCode
    BY <1>4 DEF LogoutOwn, Logout, LogoutOther, CloseSessions, LogoutExpired, Purge, Fails,
                Reads, tables
  <2> QED
    BY <1>0, <2>1, <2>2, CloseAges, AccountsAssumption DEF TablesOK
<1>5. CASE Expire
  BY <1>0, <1>5, AccountsAssumption DEF Expire, TablesOK, Session, OnlyAge
<1>6. ASSUME NEW w \in Workers, Serve(w)
      PROVE  OnlyAge /\ lastCode' >= lastCode
  <2>1. \/ UNCHANGED sessions /\ UNCHANGED lastCode
        \/ ActiveSession(w) \/ InsertSession(w)
        \/ LogoutOwn(w) \/ Logout(w) \/ LogoutOther(w) \/ CloseSessions(w)
        \/ LogoutExpired(w) \/ Purge(w)
    BY <1>6 DEF Serve, Reads, tables, Fails, Arrive, CheckSession, FilterUser,
       FilterPermission, BadRequest, CheckPassword, LoginRights,
       NameTaken, Creator, CreatorRights, CreatorPassword, CreateUser, ReadStatus, ToggleUser,
       DeleteUser, Whoami, ResetRights, OldPassword, Finish, SetPermission, Snapshot
  <2> QED
    BY <1>1, <1>2, <1>3, <1>4, <2>1
<1>7. CASE Restart
  <2>1. UNCHANGED lastCode
    BY <1>7 DEF Restart
  <2> QED
    BY <1>0, <1>7, <2>1, RestartSessions, CloseAges, AccountsAssumption DEF TablesOK
<1> QED
  BY <1>1, <1>5, <1>6, <1>7 DEF Next, vars

\* A closed or deleted session stays so (SessionMgr::active, the unique codes of login).
THEOREM ForGood == Spec => ClosedForGood
<1>1. Typed /\ [Next]_vars => [\A c \in 1..lastCode : Live(c)' => Live(c)]_vars
  BY NextAges DEF OnlyAge, Live
<1> QED
  BY <1>1, AlwaysTyped, PTL DEF Spec, ClosedForGood
-----------------------------------------------------------------------------
(* A handler acts for the user its filter admitted.                        *)

\* Before the filter has looked up the user.
Early == {"idle", "check", "active", "who"}

\* The cookie's session is of the user the filter found, or is gone.
Admitted(j) ==
  /\ j.cookie \in 0..lastCode
  /\ j.pc \in Early => j.who = NoName
  /\ j.pc \notin Early => UserOf(j.cookie) \in {NoName, j.admitted}
  /\ j.who \in {NoName, j.admitted}
AllAdmitted == \A w \in Workers : Admitted(job[w])

\* Where a step takes the job of its worker.
Advance(j, k) ==
  \/ k = NoJob
  \/ k.pc \in Early /\ k.who = NoName /\ k.cookie \in 0..lastCode
  \/ /\ k.cookie = j.cookie /\ k.pc \notin Early
     /\ \/ j.pc = "who" /\ k.admitted = UserOf(j.cookie) /\ k.who = j.who
        \/ j.pc \notin Early /\ k.admitted = j.admitted /\ k.who \in {j.who, UserOf(j.cookie)}
Advances(w) == \E k : Become(w, k) /\ Advance(job[w], k)

LEMMA AnswerAdvances ==
  ASSUME NEW w \in Workers, Answer(w)
  PROVE  Advances(w)
BY DEF Answer, Advances, Advance

LEMMA GotoAdvances ==
  ASSUME Typed, NEW w \in Workers, NEW pc, pc \notin Early, job[w].pc \notin Early, Goto(w, pc)
  PROVE  Advances(w)
<1>1. job[w] \in Job
  BY DEF Typed, JobsOK, GoodJob
<1>2. Advance(job[w], [job[w] EXCEPT !.pc = pc])
  BY <1>1 DEF Advance, Job
<1> QED
  BY <1>2 DEF Goto, Advances

LEMMA FilterAdvances ==
  ASSUME Typed, AllAdmitted, NEW w \in Workers,
         \/ Arrive(w) \/ CheckSession(w) \/ ActiveSession(w) \/ FilterUser(w)
         \/ FilterPermission(w) \/ BadRequest(w)
  PROVE  Advances(w)
<1>0. job[w] \in Job /\ Admitted(job[w])
  BY DEF Typed, JobsOK, GoodJob, AllAdmitted
<1>1. CASE Arrive(w)
  <2>1. PICK c \in 0..lastCode :
          Become(w, [NoJob EXCEPT !.pc = IF c = 0 THEN "who" ELSE "check", !.cookie = c])
    BY <1>1 DEF Arrive
  <2>2. Advance(job[w], [NoJob EXCEPT !.pc = IF c = 0 THEN "who" ELSE "check", !.cookie = c])
    BY DEF Advance, NoJob, Early
  <2> QED
    BY <2>1, <2>2 DEF Advances
<1>2. CASE CheckSession(w) \/ ActiveSession(w)
  <2>1. PICK pc \in {"active", "who"} : Goto(w, pc)
    <3>1. CASE CheckSession(w)
      <4> DEFINE pc == IF Live(job[w].cookie) /\ sessions[job[w].cookie].fresh
                       THEN "active" ELSE "who"
      <4>1. Goto(w, pc)
        BY <3>1 DEF CheckSession
      <4> QED
        BY <4>1
    <3>2. CASE ActiveSession(w)
      BY <3>2 DEF ActiveSession
    <3> QED
      BY <1>2, <3>1, <3>2
  <2>2. job[w].pc \in Early
    BY <1>2 DEF CheckSession, ActiveSession, At, Early
  <2>3. Advance(job[w], [job[w] EXCEPT !.pc = pc])
    BY <1>0, <2>2 DEF Advance, Admitted, Early, Job
  <2> QED
    BY <2>1, <2>3 DEF Advances, Goto
<1>3. CASE FilterUser(w)
  <2>1. Advance(job[w], [job[w] EXCEPT !.pc = "rights", !.admitted = UserOf(job[w].cookie)])
    BY <1>0, <1>3 DEF Advance, FilterUser, At, Early, Job
  <2> QED
    BY <1>3, <2>1 DEF FilterUser, Advances
<1>4. CASE FilterPermission(w)
  <2>1. PICK pc \in Handlers : Goto(w, pc) \/ Answer(w)
    BY <1>4 DEF FilterPermission
  <2>2. pc \notin Early /\ job[w].pc \notin Early
    BY <1>4 DEF FilterPermission, At, Handlers, Early
  <2> QED
    BY <2>1, <2>2, GotoAdvances, AnswerAdvances
<1>5. CASE BadRequest(w)
  BY <1>5, AnswerAdvances DEF BadRequest
<1> QED
  BY <1>1, <1>2, <1>3, <1>4, <1>5

\* A handler looks the user up, or leaves filter and user alone.
LEMMA HandlerAdvances ==
  ASSUME Typed, NEW w \in Workers, job[w].pc \notin Early, NEW k, Become(w, k),
         k.pc \notin Early, k.cookie = job[w].cookie, k.admitted = job[w].admitted,
         k.who \in {job[w].who, UserOf(job[w].cookie)}
  PROVE  Advances(w)
BY DEF Advances, Advance

LEMMA ServeAdvances ==
  ASSUME Typed, AllAdmitted, NEW w \in Workers, Serve(w)
  PROVE  Advances(w)
<1>0. job[w] \in Job
  BY DEF Typed, JobsOK, GoodJob
<1>1. CASE Answer(w)
  BY <1>1, AnswerAdvances
<1>2. CASE LogoutOwn(w) \/ CreatorRights(w) \/ CreatorPassword(w) \/ ToggleUser(w)
           \/ ResetRights(w) \/ OldPassword(w)
  <2>1. job[w].pc \notin Early
    BY <1>2 DEF LogoutOwn, CreatorRights, CreatorPassword, ToggleUser, ResetRights,
                OldPassword, At, Early
  <2>2. \/ Answer(w)
        \/ \E pc \in {"password", "creator_password", "create", "close_all",
                      "old_password", "edit"} : Goto(w, pc)
    BY <1>2 DEF LogoutOwn, CreatorRights, CreatorPassword, ToggleUser, ResetRights,
                OldPassword, Fails
  <2> QED
    BY <2>1, <2>2, GotoAdvances, AnswerAdvances DEF Early
<1>3. CASE CheckPassword(w) \/ LoginRights(w) \/ NameTaken(w)
  <2>1. job[w].pc \notin Early
    BY <1>3 DEF CheckPassword, LoginRights, NameTaken, At, Early
  <2>2. ASSUME NEW n \in Names, Become(w, [job[w] EXCEPT !.pc = "login_rights", !.name = n])
        PROVE  Advances(w)
    BY <1>0, <2>1, <2>2, HandlerAdvances DEF Job, Early
  <2>3. ASSUME Become(w, [job[w] EXCEPT !.pc = "insert", !.level = RightsOf(job[w].name)])
        PROVE  Advances(w)
    BY <1>0, <2>1, <2>3, HandlerAdvances DEF Job, Early
  <2>4. ASSUME NEW n \in Names, NEW l \in Levels,
               Become(w, [job[w] EXCEPT !.name = n, !.level = l,
                                        !.pc = IF l < 2 THEN "creator" ELSE "create"])
        PROVE  Advances(w)
    BY <1>0, <2>1, <2>4, HandlerAdvances DEF Job, Early
  <2> QED
    BY <1>3, <2>2, <2>3, <2>4, AnswerAdvances DEF CheckPassword, LoginRights, NameTaken
<1>4. CASE Creator(w) \/ Whoami(w)
  <2>1. job[w].pc \notin Early
    BY <1>4 DEF Creator, Whoami, At, Early
  <2>2. PICK pc \in {"creator_rights", "acting", "old_password", "reset_rights"} :
          Become(w, [job[w] EXCEPT !.pc = pc, !.who = UserOf(job[w].cookie)])
    BY <1>4 DEF Creator, Whoami
  <2> QED
    BY <1>0, <2>1, <2>2, HandlerAdvances DEF Job, Early
<1>5. CASE Logout(w) \/ Snapshot(w) \/ ReadStatus(w) \/ DeleteUser(w) \/ LogoutExpired(w)
  <2>1. job[w].pc \notin Early
    BY <1>5 DEF Logout, Snapshot, ReadStatus, DeleteUser, LogoutExpired, At, Early
  <2>2. ASSUME NEW C, NEW pc \in {"logout_other", "expired"},
               Become(w, [job[w] EXCEPT !.pc = pc, !.codes = C])
        PROVE  Advances(w)
    BY <1>0, <2>1, <2>2, HandlerAdvances DEF Job, Early
  <2>3. ASSUME NEW n, Become(w, [job[w] EXCEPT !.pc = "toggle", !.name = n,
                                               !.enable = ~Enabled(n)])
        PROVE  Advances(w)
    BY <1>0, <2>1, <2>3, HandlerAdvances DEF Job, Early
  <2>4. ASSUME NEW n, Become(w, [job[w] EXCEPT !.pc = "delete_all", !.name = n])
        PROVE  Advances(w)
    BY <1>0, <2>1, <2>4, HandlerAdvances DEF Job, Early
  <2>5. ASSUME NEW C, Become(w, [job[w] EXCEPT !.codes = C])
        PROVE  Advances(w)
    BY <1>0, <2>1, <2>5, HandlerAdvances DEF Job
  <2>6. ASSUME Goto(w, "purge")
        PROVE  Advances(w)
    BY <2>1, <2>6, GotoAdvances DEF Early
  <2>7. CASE Logout(w)
    BY <2>2, <2>7, AnswerAdvances DEF Logout, Fails
  <2>8. CASE Snapshot(w)
    BY <2>2, <2>8 DEF Snapshot
  <2>9. CASE ReadStatus(w)
    BY <2>3, <2>9 DEF ReadStatus
  <2>10. CASE DeleteUser(w)
    BY <2>4, <2>10, AnswerAdvances DEF DeleteUser, Fails
  <2>11. CASE LogoutExpired(w)
    BY <2>5, <2>6, <2>11 DEF LogoutExpired
  <2> QED
    BY <1>5, <2>7, <2>8, <2>9, <2>10, <2>11
<1>6. InsertSession(w) \/ CreateUser(w) \/ LogoutOther(w) \/ CloseSessions(w) \/ Finish(w)
      \/ SetPermission(w) \/ Purge(w) => Answer(w)
  BY DEF InsertSession, CreateUser, LogoutOther, CloseSessions, Finish, SetPermission, Purge,
         Fails
<1> QED
  BY <1>1, <1>2, <1>3, <1>4, <1>5, <1>6, FilterAdvances DEF Serve

\* The same session, looked up later, is of the same user or gone.
LEMMA LookUpAgain ==
  ASSUME Typed, [Next]_vars, NEW c \in 0..lastCode
  PROVE  /\ UserOf(c)' \in {NoName, UserOf(c)}
         /\ c \in 0..lastCode'
<1>1. TablesOK /\ TablesOK' /\ OnlyAge /\ lastCode' >= lastCode
  BY NextTyped, NextAges DEF Typed
<1>2. c \in 0..lastCode'
  BY <1>1, AccountsAssumption DEF TablesOK
<1>3. CASE c = 0
  BY <1>1, <1>3, AccountsAssumption DEF UserOf, TablesOK
<1>4. CASE c \in 1..lastCode
  <2>1. CASE c \in DOMAIN sessions'
    <3>1. c \in DOMAIN sessions /\ sessions'[c].user = sessions[c].user
      BY <1>1, <1>4, <2>1 DEF OnlyAge
    <3> QED
      BY <1>2, <2>1, <3>1 DEF UserOf
  <2>2. CASE c \notin DOMAIN sessions'
    BY <1>2, <2>2 DEF UserOf
  <2> QED
    BY <2>1, <2>2
<1> QED
  BY <1>1, <1>2, <1>3, <1>4, AccountsAssumption DEF TablesOK

LEMMA NoJobAdmitted == Typed => Admitted(NoJob)
BY AccountsAssumption DEF Typed, TablesOK, Admitted, NoJob, Early

LEMMA AdmittedStays ==
  ASSUME Typed, [Next]_vars, NEW j, Admitted(j)
  PROVE  /\ j.cookie \in 0..lastCode'
         /\ j.pc \in Early => j.who = NoName
         /\ j.pc \notin Early => UserOf(j.cookie)' \in {NoName, j.admitted}
         /\ j.who \in {NoName, j.admitted}
BY LookUpAgain DEF Admitted

LEMMA AdvanceAdmitted ==
  ASSUME Typed, NEW j, NEW k, Admitted(j), Advance(j, k)
  PROVE  Admitted(k)
<1>1. CASE k = NoJob
  BY <1>1, NoJobAdmitted
<1>2. CASE k.pc \in Early /\ k.who = NoName /\ k.cookie \in 0..lastCode
  BY <1>2 DEF Admitted
<1>3. CASE /\ k.cookie = j.cookie /\ k.pc \notin Early
           /\ j.pc = "who" /\ k.admitted = UserOf(j.cookie) /\ k.who = j.who
  BY <1>3 DEF Admitted, Early
<1>4. CASE /\ k.cookie = j.cookie /\ k.pc \notin Early
           /\ j.pc \notin Early /\ k.admitted = j.admitted
           /\ k.who \in {j.who, UserOf(j.cookie)}
  BY <1>4 DEF Admitted
<1> QED
  BY <1>1, <1>2, <1>3, <1>4 DEF Advance

LEMMA NextAdmitted ==
  ASSUME Typed, AllAdmitted, [Next]_vars
  PROVE  AllAdmitted'
<1> SUFFICES ASSUME NEW v \in Workers PROVE Admitted(job[v])'
  BY DEF AllAdmitted
<1>1. Typed'
  BY NextTyped
<1>2. Admitted(job[v])
  BY DEF AllAdmitted
<1>3. CASE job'[v] = job[v]
  BY <1>2, <1>3, AdmittedStays DEF Admitted
<1>4. CASE Restart
  <2>1. job'[v] = NoJob
    BY <1>4 DEF Restart
  <2> QED
    BY <2>1, NoJobAdmitted, AdmittedStays DEF Admitted
<1>5. ASSUME NEW w \in Workers, Serve(w), job'[v] # job[v]
      PROVE  Admitted(job[v])'
  <2>1. PICK k : Become(w, k) /\ Advance(job[w], k)
    BY <1>5, ServeAdvances DEF Advances
  <2>2. v = w /\ job'[v] = k
    BY <1>5, <2>1 DEF Become, Typed, JobsOK
  <2>3. Admitted(k)
    BY <1>2, <2>1, <2>2, AdvanceAdmitted
  <2> QED
    BY <2>2, <2>3, AdmittedStays DEF Admitted
<1>6. CASE UNCHANGED vars \/ Expire
  BY <1>3, <1>6 DEF vars, Expire
<1> QED
  BY <1>3, <1>4, <1>5, <1>6 DEF Next

\* Two look-ups of one cookie at different times never find two users
\* (filter_permission, get_username in the handlers).
THEOREM OneUser == Spec => []ActsAsSelf
<1>1. Init => AllAdmitted
  BY InitTyped, NoJobAdmitted DEF Init, AllAdmitted
<1>2. Typed /\ AllAdmitted /\ [Next]_vars => AllAdmitted'
  BY NextAdmitted
<1>3. AllAdmitted => ActsAsSelf
  BY DEF AllAdmitted, Admitted, ActsAsSelf
<1> QED
  BY <1>1, <1>2, <1>3, AlwaysTyped, PTL DEF Spec
-----------------------------------------------------------------------------
(* The sessions of an account that went.                                   *)

\* An account is disabled or deleted by a request that goes on to its sessions.
LEMMA DisabledBy ==
  ASSUME Typed, NEW w \in Workers, Serve(w), NEW n \in Names, Enabled(n), ~Enabled(n)'
  PROVE  Cleaning(w, n)'
<1>0. TablesOK /\ job[w] \in Job /\ job \in [Workers -> GoodJob]
  BY DEF Typed, JobsOK, GoodJob
<1>1. users' # users
  BY DEF Enabled
<1>2. CASE CreateUser(w)
  BY <1>0, <1>2 DEF CreateUser, Enabled, TablesOK
<1>3. CASE ToggleUser(w)
  <2>1. ~Fails(w)
    BY <1>1 DEF Fails, Reads, tables
  <2>2. job[w].name = n
    BY <1>0, <1>3, <2>1 DEF ToggleUser, SetUser, Enabled, TablesOK
  <2>3. job'[w] = [job[w] EXCEPT !.pc = "close_all"]
    BY <1>0, <1>3, <2>1 DEF ToggleUser, Goto, Become
  <2> QED
    BY <1>0, <2>2, <2>3 DEF Cleaning, Job
<1>4. CASE DeleteUser(w)
  <2>1. PICK m \in Others :
          /\ Become(w, [job[w] EXCEPT !.pc = "delete_all", !.name = m])
          /\ users' = [u \in DOMAIN users \ {m} |-> users[u]]
    BY <1>1, <1>4 DEF DeleteUser, Fails, Reads, tables
  <2>2. m = n
    BY <2>1 DEF Enabled
  <2>3. job'[w] = [job[w] EXCEPT !.pc = "delete_all", !.name = n]
    BY <1>0, <2>1, <2>2 DEF Become
  <2> QED
    BY <1>0, <2>3 DEF Cleaning, Job
<1>5. CASE SetPermission(w)
  <2>1. PICK m \in Others, l \in Levels :
          IF m \in DOMAIN users THEN SetUser(m, [users[m] EXCEPT !.level = l])
          ELSE UNCHANGED users
    BY <1>1, <1>5 DEF SetPermission, Others, Fails, Reads, tables
  <2> QED
    BY <1>0, <2>1 DEF SetUser, Enabled, TablesOK, Account
<1> QED
  BY <1>1, <1>2, <1>3, <1>4, <1>5, UsersSteps

\* Such a request ends with the sessions closed, deleted or known to outlive the account.
LEMMA CleanedBy ==
  ASSUME Typed, NEW w \in Workers, Serve(w), NEW n, Cleaning(w, n), ~Cleaning(w, n)',
         NEW c \in DOMAIN sessions, sessions[c].user = n,
         c \in DOMAIN sessions', sessions'[c].open
  PROVE  c \in outlived'
<1>0. TablesOK
  BY DEF Typed
<1>1. CloseSessions(w)
  BY DEF Serve, Cleaning, At, Arrive, CheckSession, ActiveSession, FilterUser,
       FilterPermission, BadRequest, LogoutOwn, CheckPassword, LoginRights, InsertSession,
       NameTaken, Creator, CreatorRights, CreatorPassword, CreateUser, Logout, LogoutOther,
       ReadStatus, ToggleUser, DeleteUser, Whoami, ResetRights, OldPassword, Finish,
       SetPermission, Snapshot, LogoutExpired, Purge
<1>2. job[w].name = n /\ c \in SessionsOf(n)
  BY DEF Cleaning, SessionsOf
<1>3. ~CloseThese(SessionsOf(n)) /\ ~DeleteThese(SessionsOf(n))
  BY <1>0, <1>2 DEF CloseThese, DeleteThese, TablesOK, Session
<1> QED
  BY <1>1, <1>2, <1>3 DEF CloseSessions

LEMMA OutlivedGrows == [Next]_vars => outlived \subseteq outlived'
<1>1. ASSUME NEW w \in Workers, Serve(w) PROVE outlived \subseteq outlived'
  BY <1>1 DEF Serve, Reads, tables, Fails, Arrive, CheckSession, ActiveSession, FilterUser,
       FilterPermission, BadRequest, LogoutOwn, CheckPassword, LoginRights, InsertSession,
       NameTaken, Creator, CreatorRights, CreatorPassword, CreateUser, Logout, LogoutOther,
       ReadStatus, ToggleUser, DeleteUser, CloseSessions, Whoami, ResetRights, OldPassword,
       Finish, SetPermission, Snapshot, LogoutExpired, Purge
<1> QED
  BY <1>1 DEF Next, Expire, Restart, vars

\* A session of a code that was not issued before: a login inserts it.
LEMMA NewSession ==
  ASSUME Typed, [Next]_vars, NEW c \in DOMAIN sessions', c \notin DOMAIN sessions
  PROVE  c \in outlived' \/ Enabled(sessions[c].user)'
<1>1. PICK w \in Workers : InsertSession(w)
  <2>1. ASSUME NEW w \in Workers, Serve(w) PROVE InsertSession(w)
    BY <2>1 DEF Serve, Reads, tables, Fails, Arrive, CheckSession, ActiveSession, FilterUser,
       FilterPermission, BadRequest, LogoutOwn, CheckPassword, LoginRights,
       NameTaken, Creator, CreatorRights, CreatorPassword, CreateUser, Logout, LogoutOther,
       ReadStatus, ToggleUser, DeleteUser, CloseSessions, Whoami, ResetRights, OldPassword,
       Finish, SetPermission, Snapshot, LogoutExpired, Purge, CloseThese, DeleteThese
  <2> QED
    BY <2>1, RestartSessions DEF Next, Expire, CloseThese, vars
<1>2. /\ sessions'[c].user = job[w].name
      /\ outlived' = IF Enabled(job[w].name) THEN outlived ELSE outlived \cup {c}
      /\ users' = users
  BY <1>1 DEF InsertSession, NewCode
<1>3. Enabled(job[w].name) => Enabled(sessions[c].user)'
  BY <1>2 DEF Enabled
<1> QED
  BY <1>2, <1>3

LEMMA NextClosed ==
  ASSUME Typed, ClosedWithAccount, [Next]_vars
  PROVE  ClosedWithAccount'
<1> SUFFICES ASSUME NEW c \in DOMAIN sessions', c \notin outlived', sessions'[c].open,
                    ~Enabled(sessions[c].user)'
             PROVE  \E w \in Workers : Cleaning(w, sessions[c].user)'
  BY DEF ClosedWithAccount
<1>0. TablesOK /\ OnlyAge /\ c \notin outlived
  BY NextAges, OutlivedGrows DEF Typed
<1>1. c \in DOMAIN sessions
  BY NewSession
<1>2. sessions'[c].user = sessions[c].user /\ sessions[c].open /\ sessions[c].user \in Names
  BY <1>0, <1>1 DEF OnlyAge, TablesOK, Session
<1>n. PICK n \in Names : n = sessions[c].user
  BY <1>2
<1>3. Enabled(n) \/ \E w \in Workers : Cleaning(w, n)
  BY <1>0, <1>1, <1>2, <1>n DEF ClosedWithAccount
<1>4. ~Enabled(n)'
  BY <1>2, <1>n DEF Enabled
<1>5. CASE UNCHANGED vars \/ Expire
  <2>1. users' = users /\ job' = job
    BY <1>5 DEF vars, Expire
  <2> QED
    BY <1>n, <1>2, <1>3, <1>4, <2>1 DEF Enabled, Cleaning
<1>6. ASSUME NEW w \in Workers, Serve(w)
      PROVE  \E v \in Workers : Cleaning(v, n)'
  <2>1. CASE Enabled(n)
    BY <1>n, <1>2, <1>4, <1>6, <2>1, DisabledBy
  <2>2. ASSUME NEW v \in Workers, Cleaning(v, n)
        PROVE  Cleaning(v, n)'
    <3>1. CASE v = w
      BY <1>n, <1>0, <1>1, <1>6, <2>2, <3>1, CleanedBy
    <3>2. CASE v # w
      <4>1. PICK k : job' = [job EXCEPT ![w] = k]
        BY <1>6 DEF Serve, Arrive, CheckSession, ActiveSession, FilterUser,
           FilterPermission, BadRequest, LogoutOwn, CheckPassword, LoginRights, InsertSession,
           NameTaken, Creator, CreatorRights, CreatorPassword, CreateUser, Logout, LogoutOther,
           ReadStatus, ToggleUser, DeleteUser, CloseSessions, Whoami, ResetRights, OldPassword,
           Finish, SetPermission, Snapshot, LogoutExpired, Purge, Fails, Goto, Answer, Become
      <4>2. job'[v] = job[v]
        BY <3>2, <4>1 DEF Typed, JobsOK
      <4> QED
        BY <2>2, <4>2 DEF Cleaning
    <3> QED
      BY <3>1, <3>2
  <2> QED
    BY <1>3, <2>1, <2>2
<1>7. CASE Restart
  <2>1. n \in Kept /\ ~\E w \in Workers : Cleaning(w, n)
    BY <1>n, <1>0, <1>1, <1>7 DEF Restart
  <2>2. WithAdmin[n].enabled
    BY <1>0, <1>3, <2>1 DEF Kept, WithAdmin, Enabled
  <2> QED
    BY <1>4, <1>7, <2>1, <2>2 DEF Restart, Enabled
<1> QED
  BY <1>n, <1>2, <1>5, <1>6, <1>7 DEF Next

\* The sessions of an account that is disabled or deleted are closed, except those of a
\* login in progress, a restart or a failed statement in between (deal_remove_user,
\* deal_delete_user).
THEOREM SessionsGoToo == Spec => []ClosedWithAccount
<1>1. Init => ClosedWithAccount
  BY DEF Init, ClosedWithAccount
<1>2. Typed /\ ClosedWithAccount /\ [Next]_vars => ClosedWithAccount'
  BY NextClosed
<1> QED
  BY <1>1, <1>2, AlwaysTyped, PTL DEF Spec
=============================================================================
