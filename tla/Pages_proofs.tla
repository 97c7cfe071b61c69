---------------------------- MODULE Pages_proofs ----------------------------
(***************************************************************************)
(* Theorems about the pages of the browser: type correctness, that a page   *)
(* shows what the server has once nothing is in flight, and that leaving    *)
(* the page that edits deletes only what was never saved.                   *)
(***************************************************************************)
EXTENDS Pages, News_proofs

USE NewsAssumption, BrowserAssumption

-----------------------------------------------------------------------------
(* What a statement of News does to what the pages look at.                *)

Frame(w) ==
  /\ \E j : job' = [job EXCEPT ![w] = j]
  /\ Issued \subseteq Issued' /\ torn \subseteq torn'
  /\ votes' = votes \/ WriteVote(w) \/ DeleteLikes(w)

LEMMA StatementFrame == ASSUME TypeInv, NEW w \in Workers, AnyStatement(w) PROVE Frame(w)
<1>j. job = [job EXCEPT ![w] = job[w]] /\ created \in Int
  BY DEF TypeInv, JobsOK, RowsOK
<1>1. CASE CreateNew(w)
  BY <1>1, <1>j DEF Frame, Issued, CreateNew, Create, NewCode, history
<1>5. CASE TakeSave(w) \/ SaveContent(w)
  BY <1>5, <1>j DEF Frame, Issued, TakeSave, StoreInfo, SaveContent, WriteStatus, Fails, Reads,
     tables, history, Answer, Become
<1>6. CASE TakePublish(w) \/ Publish(w) \/ ResetStatus(w)
  BY <1>6, <1>j DEF Frame, Issued, TakePublish, BeginPublish, Publish, ResetStatus, WriteStatus,
     Fails, Reads, tables, history, Answer, Become
<1>2. CASE TakeLike(w) \/ ReadTally(w) \/ WriteVote(w) \/ VoteFails(w) \/ WriteTally(w)
             \/ TallyFails(w)
  BY <1>2, <1>j DEF Frame, Issued, TakeLike, ReadVote, ReadTally, WriteVote, VoteFails,
     WriteTally, TallyFails, Reads, tables, history, Answer, Become
<1>3. CASE CreateComment(w)
  <2>1. UNCHANGED <<votes, torn>>
    BY <1>3 DEF CreateComment, history
  <2>3. created' = created + 1
    <3>1. \E b, p : Create(b, p)
      BY <1>3, Zenon DEF CreateComment
    <3> QED BY <3>1 DEF Create, NewCode
  <2>2. \E j : job' = [job EXCEPT ![w] = j]
    BY <1>3 DEF CreateComment, Become
  <2>4. Issued \subseteq Issued'
    BY <1>j, <2>3 DEF Issued
  <2> QED BY <2>1, <2>2, <2>4 DEF Frame
<1>9. CASE CheckComment(w) \/ PostComment(w) \/ ReadParent(w) \/ CountComment(w)
  BY <1>9, <1>j DEF Frame, Issued, CheckComment, PostComment, ReadParent, CountComment, Fails,
     Reads, tables, history, Answer, Become, Goto
<1>4. CASE TakeRemove(w)
  <2>1. PICK c \in Issued : BeginRemove(w, c)
    BY <1>4 DEF TakeRemove
  <2>2. \E j : job' = [job EXCEPT ![w] = j]
    BY <2>1 DEF BeginRemove, Become
  <2>3. UNCHANGED <<votes, created, torn>>
    BY <2>1 DEF BeginRemove, tables
  <2> QED BY <2>2, <2>3 DEF Frame, Issued
<1>7. CASE ReadComments(w) \/ DropComment(w) \/ Hide(w)
  BY <1>7, <1>j DEF Frame, Issued, ReadComments, DropComment, Hide, Fails, Reads, tables, history,
     Answer, Become, Goto
<1>8. CASE TakeDelete(w) \/ DeleteLikes(w) \/ DeleteRow(w)
  BY <1>8, <1>j DEF Frame, Issued, TakeDelete, BeginDelete, DeleteLikes, DeleteRow, Fails, Reads,
     tables, history, Answer, Become, Goto
<1> QED BY <1>1, <1>2, <1>3, <1>4, <1>5, <1>6, <1>7, <1>8, <1>9 DEF AnyStatement

LEMMA RestartFrame ==
  ASSUME Restart PROVE UNCHANGED <<votes, created>> /\ torn \subseteq torn'
BY DEF Restart

LEMMA FrameOfOthers ==
  ASSUME TypeInv, NEW w \in Workers, Frame(w), NEW v \in Workers \ {w} PROVE job'[v] = job[v]
BY DEF Frame, TypeInv, JobsOK

-----------------------------------------------------------------------------
(* The browser.                                                            *)

LEMMA StoredTyped ==
  ASSUME BrowserTypeOK, NEW k \in Connections, Stored(k), serving' \in [Workers -> Connections \cup {NoConnection}]
  PROVE  BrowserTypeOK'
BY DEF BrowserTypeOK, Stored, IsStored

LEMMA ForgottenTyped ==
  ASSUME BrowserTypeOK, NEW K, Forgotten(K), serving' \in [Workers -> Connections \cup {NoConnection}]
  PROVE  BrowserTypeOK'
BY DEF BrowserTypeOK, Forgotten

LEMMA DisconnectTyped == ASSUME BrowserTypeOK, NEW K, Disconnect(K) PROVE BrowserTypeOK'
BY ForgottenTyped DEF BrowserTypeOK, Disconnect

LEMMA ServesTyped ==
  ASSUME BrowserTypeOK, NEW w \in Workers, NEW k \in Connections \cup {NoConnection}, Serves(w, k)
  PROVE  serving' \in [Workers -> Connections \cup {NoConnection}]
BY DEF BrowserTypeOK, Serves

-----------------------------------------------------------------------------
(* The page of an entry: what is in flight, and who serves it.             *)

InStore == {k \in Connections : IsStored(k)}
\* Nothing is in flight but from an open page, and the page is about an entry.
PageOK ==
  /\ page.state # "closed" => Shown \in Issued
  /\ page.state # "open" => \A k \in Connections : click[k] = NoClick
\* A worker that serves a click votes for it; the vote is stored from its statement on.
Served(w) ==
  LET k == serving[w] IN
  /\ click[k].state = "served"
  /\ job[w].user = Me /\ job[w].code = Shown /\ job[w].vote = click[k].vote
  /\ job[w].pc \in {"tally", "vote", "count"}
  /\ IsStored(k) <=> job[w].pc = "count"
ClickOK(k) ==
  /\ click[k].state = "served" => \E w \in Workers : serving[w] = k
  /\ IsStored(k) => k \in stored[k] /\ click[k].state \in {"served", "ok"}
ServiceOK ==
  /\ \A w \in Workers : serving[w] # NoConnection => Served(w)
  /\ \A v, w \in Workers : serving[v] = serving[w] /\ serving[w] # NoConnection => v = w
  /\ \A k \in Connections : ClickOK(k)
PageTyped == TypeInv /\ PageTypeOK /\ PageOK

LEMMA ClickedOpen ==
  ASSUME PageTyped, NEW k \in Connections, click[k].state # "none"
  PROVE  page.state = "open" /\ Shown \in Issued
BY DEF PageTyped, PageTypeOK, PageOK, NoClick, Page

\* Every step of the page is a step of the news, by the server or by none.
LEMMA PageStepFrame ==
  ASSUME PageTyped, PageNext
  PROVE  \/ UNCHANGED vars
         \/ Restart
         \/ \E w \in Workers : AnyStatement(w)
<1>1. ASSUME NEW w \in Workers, NEW k \in Connections, ServeClick(w, k) PROVE AnyStatement(w)
  <2>1. Shown \in Issued /\ click[k].vote \in {-1, 1}
    BY <1>1, ClickedOpen DEF ServeClick, PageTyped, PageTypeOK, Click
  <2> QED BY <1>1, <2>1, PageAssumption DEF ServeClick, AnyStatement, TakeLike, ReadVote
<1>2. ASSUME NEW w \in Workers, ServeStatement(w) PROVE AnyStatement(w)
  BY <1>2 DEF ServeStatement, AnyStatement
<1>3. ASSUME NEW w \in Workers, Elsewhere(w) PROVE AnyStatement(w)
  BY <1>3, StatementTaken DEF Elsewhere
<1>4. AskEntry \/ LoadPage \/ LeavePage => UNCHANGED vars
  BY DEF AskEntry, LoadPage, LeavePage
<1>5. ASSUME NEW k \in Connections PROVE Deliver(k) \/ ConnectionFails(k) => UNCHANGED vars
  BY DEF Deliver, ConnectionFails
<1>6. ASSUME NEW k \in Connections, NEW v PROVE ClickVote(k, v) => UNCHANGED vars
  BY DEF ClickVote
<1>7. PageRestart => Restart
  BY DEF PageRestart
<1> QED BY <1>1, <1>2, <1>3, <1>4, <1>5, <1>6, <1>7 DEF PageNext

LEMMA PageStepTaken == PageTyped /\ [PageNext]_allVars => [AnyNext]_vars
BY PageStepFrame DEF AnyNext, allVars, vars

LEMMA IssuedStay == ASSUME TypeInv, [AnyNext]_vars PROVE Issued \subseteq Issued'
<1>1. CASE UNCHANGED vars
  BY <1>1 DEF vars, Issued
<1>2. CASE Restart
  BY <1>2, RestartFrame DEF Issued
<1>3. CASE \E w \in Workers : AnyStatement(w)
  BY <1>3, StatementFrame DEF Frame
<1> QED BY <1>1, <1>2, <1>3 DEF AnyNext

LEMMA EstrangeTyped ==
  ASSUME estranged \subseteq {"vote", "counters"},
         NEW what \in {"vote", "counters"}, NEW condition, Estrange(what, condition)
  PROVE  estranged' \subseteq {"vote", "counters"}
BY DEF Estrange

LEMMA SetClickTyped ==
  ASSUME click \in [Connections -> Click], NEW k \in Connections,
         NEW state \in {"none", "sent", "served", "ok", "failed"}, SetClick(k, state)
  PROVE  click' \in [Connections -> Click]
BY DEF SetClick, Click

LEMMA DetachTyped ==
  ASSUME PageTyped, NEW K, Detach(K)
  PROVE  click' \in [Connections -> Click] /\ BrowserTypeOK'
<1>1. NoClick \in Click
  BY DEF NoClick, Click
<1> QED BY <1>1, DisconnectTyped DEF Detach, PageTyped, PageTypeOK

LEMMA ToggledTyped ==
  ASSUME NEW p \in Page, NEW v \in {-1, 1}
  PROVE  /\ Toggled(p, v) \in Page /\ Toggled(p, v).state = p.state
         /\ Toggled(p, v).status = NewVote(p.status, v)
         /\ Toggled(p, v).like = Counted(p.like, 1, p.status, v)
         /\ Toggled(p, v).unlike = Counted(p.unlike, -1, p.status, v)
<1> DEFINE s == NewVote(p.status, v)
           a == Counted(p.like, 1, p.status, v)
           b == Counted(p.unlike, -1, p.status, v)
<1>1. s \in -1..1
  BY NewVoteRange DEF Page
<1>2. a \in Int /\ b \in Int
  BY DEF Counted, Page
<1>3. Toggled(p, v) = [p EXCEPT !.status = s, !.like = a, !.unlike = b]
  BY DEF Toggled
<1> HIDE DEF s, a, b
<1>4. /\ Toggled(p, v) \in Page /\ Toggled(p, v).state = p.state
      /\ Toggled(p, v).status = s /\ Toggled(p, v).like = a /\ Toggled(p, v).unlike = b
  BY <1>1, <1>2, <1>3 DEF Page
<1> QED BY <1>4 DEF s, a, b

LEMMA ServeClickTyped ==
  ASSUME PageTyped, NEW w \in Workers, NEW k \in Connections, ServeClick(w, k)
  PROVE  PageTypeOK' /\ page' = page /\ \A c \in Connections : click[c] = NoClick => click'[c] = NoClick
<1>1. click' \in [Connections -> Click]
  BY SetClickTyped DEF ServeClick, PageTyped, PageTypeOK
<1>2. serving' \in [Workers -> Connections \cup {NoConnection}]
  BY ServesTyped DEF ServeClick, PageTyped, PageTypeOK
<1>3. \A c \in Connections : click[c] = NoClick => click'[c] = NoClick
  BY DEF ServeClick, SetClick, NoClick, PageTyped, PageTypeOK, Click
<1> QED BY <1>1, <1>2, <1>3 DEF ServeClick, PageTyped, PageTypeOK, BrowserTypeOK

LEMMA ServeStatementTyped ==
  ASSUME PageTyped, NEW w \in Workers, ServeStatement(w)
  PROVE  PageTypeOK' /\ page' = page /\ \A c \in Connections \ {serving[w]} : click'[c] = click[c]
<1>k. PICK k \in Connections : k = serving[w]
  BY DEF ServeStatement, PageTyped, PageTypeOK, BrowserTypeOK
<1>t. PageTypeOK /\ page' = page
  BY DEF ServeStatement, PageTyped
<1>s. ASSUME Serves(w, NoConnection) PROVE serving' \in [Workers -> Connections \cup {NoConnection}]
  BY <1>s, <1>t, ServesTyped DEF PageTypeOK
<1>c. ASSUME NEW state \in {"ok", "failed"}, SetClick(k, state)
      PROVE  click' \in [Connections -> Click] /\ \A c \in Connections \ {k} : click'[c] = click[c]
  BY <1>c, <1>t, SetClickTyped DEF PageTypeOK, SetClick
<1>1. CASE ReadTally(w) /\ UNCHANGED <<click, serving, stored, estranged>>
  BY <1>1, <1>t DEF PageTypeOK, BrowserTypeOK
<1>2. CASE /\ Stored(serving[w]) /\ Estrange("vote", votes[Shown][Me] # job[w].old)
           /\ UNCHANGED <<click, serving>>
  <2>1. BrowserTypeOK'
    BY <1>2, <1>t, <1>k, StoredTyped DEF PageTypeOK, BrowserTypeOK
  <2> QED BY <1>2, <1>t, <2>1, EstrangeTyped DEF PageTypeOK
<1>3. CASE Answered(w, "failed") /\ UNCHANGED <<stored, estranged>>
  BY <1>3, <1>t, <1>k, <1>s, <1>c DEF PageTypeOK, BrowserTypeOK, Answered
<1>4. CASE Answered(w, "ok") /\ UNCHANGED <<stored, estranged>>
  BY <1>4, <1>t, <1>k, <1>s, <1>c DEF PageTypeOK, BrowserTypeOK, Answered
<1>5. CASE /\ Answered(w, "failed") /\ Estrange("vote", TRUE) /\ Delivered(serving[w])
  <2>1. BrowserTypeOK'
    BY <1>5, <1>t, <1>s, ForgottenTyped DEF PageTypeOK, Answered, Delivered
  <2>2. estranged' \subseteq {"vote", "counters"}
    BY <1>5, <1>t, EstrangeTyped DEF PageTypeOK
  <2> QED BY <1>5, <1>t, <1>k, <1>c, <2>1, <2>2 DEF PageTypeOK, Answered
<1> QED BY <1>1, <1>2, <1>3, <1>4, <1>5 DEF ServeStatement

LEMMA DeliverTyped ==
  ASSUME PageTyped, NEW k \in Connections, Deliver(k)
  PROVE  PageTypeOK' /\ page'.state = page.state
<1>t. PageTypeOK /\ click[k].vote \in {-1, 1}
  BY DEF PageTyped, PageTypeOK, Click
<1>c. click' \in [Connections -> Click]
  BY <1>t DEF Deliver, PageTypeOK, Click, NoClick
<1>1. CASE click[k].state = "ok" /\ page' = Toggled(page, click[k].vote)
           /\ Estrange("vote", Overtakes(k)) /\ Delivered(k)
  <2>1. page' \in Page /\ page'.state = page.state
    BY <1>1, <1>t, ToggledTyped DEF PageTypeOK
  <2>2. BrowserTypeOK'
    BY <1>1, <1>t, ForgottenTyped DEF Deliver, PageTypeOK, Delivered, BrowserTypeOK
  <2> QED BY <1>1, <1>t, <1>c, <2>1, <2>2, EstrangeTyped DEF PageTypeOK
<1>2. CASE click[k].state = "failed" /\ UNCHANGED <<page, stored, estranged>>
  BY <1>2, <1>t, <1>c DEF Deliver, PageTypeOK, BrowserTypeOK
<1> QED BY <1>1, <1>2 DEF Deliver

LEMMA PageStepTyped == PageTyped /\ [PageNext]_allVars => PageTypeOK'
<1> SUFFICES ASSUME PageTyped, [PageNext]_allVars PROVE PageTypeOK'
  OBVIOUS
<1>t. PageTypeOK
  BY DEF PageTyped
<1>0. CASE UNCHANGED allVars
  BY <1>0, <1>t DEF allVars, browserVars, pageVars, PageTypeOK, BrowserTypeOK
<1>1. CASE AskEntry
  <2>1. news[Shown] \in Entry
    BY <1>1 DEF AskEntry, Visible, Exists, PageTyped, TypeInv, RowsOK
  <2>2. page' \in Page
    BY <1>1, <1>t, <2>1 DEF AskEntry, PageTypeOK, Page, Entry
  <2> QED BY <1>1, <1>t, <2>2 DEF AskEntry, PageTypeOK, browserVars, BrowserTypeOK
<1>2. CASE LoadPage
  <2>1. votes[Shown][Me] \in -1..1
    BY PageAssumption DEF PageTyped, TypeInv, VotesOK
  <2>2. page' \in Page
    BY <1>2, <1>t, <2>1 DEF LoadPage, PageTypeOK, Page
  <2> QED BY <1>2, <1>t, <2>2 DEF LoadPage, PageTypeOK, browserVars, BrowserTypeOK
<1>3. ASSUME NEW k \in Connections, NEW v \in {-1, 1}, ClickVote(k, v) PROVE PageTypeOK'
  <2>1. click' \in [Connections -> Click]
    BY <1>3, <1>t DEF ClickVote, PageTypeOK, Click
  <2> QED BY <1>3, <1>t, <2>1 DEF ClickVote, PageTypeOK, browserVars, BrowserTypeOK
<1>4. ASSUME NEW k \in Connections, ConnectionFails(k) PROVE PageTypeOK'
  BY <1>4, <1>t, DetachTyped, EstrangeTyped DEF ConnectionFails, PageTypeOK
<1>5. CASE LeavePage
  <2>1. Closed \in Page
    BY DEF Closed, Page
  <2> QED BY <1>5, <1>t, <2>1, DetachTyped DEF LeavePage, PageTypeOK
<1>6. CASE PageRestart
  <2>1. click' \in [Connections -> Click] /\ BrowserTypeOK'
    BY <1>6, DetachTyped DEF PageRestart
  <2> QED BY <1>6, <1>t, <2>1, EstrangeTyped DEF PageRestart, PageTypeOK
<1>7. ASSUME NEW w \in Workers, Elsewhere(w) PROVE PageTypeOK'
  BY <1>7, <1>t DEF Elsewhere, PageTypeOK, browserVars, BrowserTypeOK
<1> QED
  BY <1>0, <1>1, <1>2, <1>3, <1>4, <1>5, <1>6, <1>7, ServeClickTyped, ServeStatementTyped, DeliverTyped
  DEF PageNext

PageCore == PageTyped /\ ServiceOK

LEMMA ServedClick ==
  ASSUME PageCore, NEW w \in Workers, serving[w] # NoConnection
  PROVE  serving[w] \in Connections /\ Served(w) /\ page.state = "open" /\ Shown \in Issued
<1>1. serving[w] \in Connections /\ Served(w)
  BY DEF PageCore, PageTyped, PageTypeOK, BrowserTypeOK, ServiceOK
<1>2. click[serving[w]].state # "none"
  BY <1>1 DEF Served
<1> QED BY <1>1, <1>2, ClickedOpen DEF PageCore

LEMMA PageOKKept == PageCore /\ [PageNext]_allVars => PageOK'
<1> SUFFICES ASSUME PageCore, [PageNext]_allVars PROVE PageOK'
  OBVIOUS
<1>t. PageTyped /\ PageTypeOK /\ PageOK
  BY DEF PageCore, PageTyped
<1>i. Issued \subseteq Issued'
  BY <1>t, PageStepTaken, IssuedStay DEF PageTyped
<1>o. ASSUME page'.state = page.state,
             page.state # "open" => \A k \in Connections : click[k] = NoClick => click'[k] = NoClick
      PROVE  PageOK'
  BY <1>o, <1>t, <1>i DEF PageOK
<1>d. ASSUME NEW K, Detach(K), NEW k \in Connections, click[k] = NoClick PROVE click'[k] = NoClick
  BY <1>d DEF Detach
<1>0. CASE UNCHANGED allVars
  BY <1>0, <1>o DEF allVars, pageVars
<1>1. CASE AskEntry
  <2>1. Shown \in Issued
    BY <1>1, <1>t DEF AskEntry, Visible, Exists, PageTyped, TypeInv, RowsOK
  <2>2. \A k \in Connections : click'[k] = NoClick
    BY <1>1, <1>t DEF AskEntry, PageOK
  <2> QED BY <1>i, <2>1, <2>2 DEF PageOK
<1>2. CASE LoadPage
  <2>1. page'.state = "open"
    BY <1>2, <1>t DEF LoadPage, PageTypeOK, Page
  <2> QED BY <1>2, <1>t, <1>i, <2>1 DEF LoadPage, PageOK
<1>3. ASSUME NEW k \in Connections, NEW v \in {-1, 1}, ClickVote(k, v) PROVE PageOK'
  BY <1>3, <1>o DEF ClickVote
<1>4. ASSUME NEW k \in Connections, ConnectionFails(k) PROVE PageOK'
  BY <1>4, <1>o, <1>d DEF ConnectionFails
<1>5. CASE LeavePage
  <2>1. page'.state = "closed" /\ \A k \in Connections : click'[k] = NoClick
    BY <1>5 DEF LeavePage, Closed, Detach
  <2> QED BY <2>1 DEF PageOK
<1>6. CASE PageRestart
  BY <1>6, <1>o, <1>d DEF PageRestart
<1>7. ASSUME NEW w \in Workers, Elsewhere(w) PROVE PageOK'
  BY <1>7, <1>o DEF Elsewhere
<1>8. ASSUME NEW k \in Connections, Deliver(k) PROVE PageOK'
  <2>1. page'.state = page.state
    BY <1>8, <1>t, DeliverTyped
  <2>2. \A c \in Connections : click[c] = NoClick => click'[c] = NoClick
    BY <1>8, <1>t DEF Deliver, PageTypeOK
  <2> QED BY <1>o, <2>1, <2>2
<1>9. ASSUME NEW w \in Workers, ServeStatement(w) PROVE PageOK'
  <2>1. page.state = "open"
    BY <1>9, ServedClick DEF ServeStatement
  <2> QED BY <1>9, <1>o, <2>1 DEF ServeStatement
<1>10. ASSUME NEW w \in Workers, NEW k \in Connections, ServeClick(w, k) PROVE PageOK'
  BY <1>10, <1>o, <1>t, ServeClickTyped
<1> QED
  BY <1>0, <1>1, <1>2, <1>3, <1>4, <1>5, <1>6, <1>7, <1>8, <1>9, <1>10 DEF PageNext

-----------------------------------------------------------------------------
(* Who serves what.                                                        *)

\* A worker of a click that goes on, and the others.
SameService(w) ==
  /\ serving'[w] = serving[w]
  /\ serving[w] # NoConnection =>
       /\ job'[w] = job[w] /\ click'[serving[w]] = click[serving[w]]
       /\ stored'[serving[w]] = {} <=> stored[serving[w]] = {}

LEMMA SameServed == ASSUME NEW w, SameService(w), serving[w] # NoConnection, Served(w) PROVE Served(w)'
BY DEF SameService, Served, IsStored

LEMMA ServeClickServes ==
  ASSUME PageCore, NEW w \in Workers, NEW k \in Connections, ServeClick(w, k) PROVE ServiceOK'
<1>t. /\ PageTypeOK /\ click \in [Connections -> Click]
      /\ serving \in [Workers -> Connections \cup {NoConnection}]
      /\ job \in [Workers -> Job]
  BY DEF PageCore, PageTyped, PageTypeOK, BrowserTypeOK, TypeInv, JobsOK
<1>1. /\ click[k].state = "sent" /\ ReadVote(w, Me, Shown, click[k].vote)
      /\ click' = [click EXCEPT ![k].state = "served"] /\ serving' = [serving EXCEPT ![w] = k]
      /\ stored' = stored
  BY DEF ServeClick, SetClick, Serves
<1>2. job'[w] = [NoJob EXCEPT !.pc = "tally", !.user = Me, !.code = Shown,
                              !.vote = click[k].vote, !.old = votes[Shown][Me]]
      /\ \A v \in Workers \ {w} : job'[v] = job[v]
  BY <1>1, <1>t DEF ReadVote, Become
<1>3. serving[w] = NoConnection
  BY <1>1, ServedClick DEF ReadVote, At, Served
<1>4. ~IsStored(k) /\ \A v \in Workers : serving[v] # k
  BY <1>1, <1>t, ServedClick DEF PageCore, ServiceOK, ClickOK, Served
<1>5. click'[k].state = "served" /\ click'[k].vote = click[k].vote
      /\ \A c \in Connections \ {k} : click'[c] = click[c]
  BY <1>1, <1>t DEF Click
<1>6. Served(w)'
  <2>1. /\ job'[w].user = Me /\ job'[w].code = Shown /\ job'[w].vote = click[k].vote
        /\ job'[w].pc = "tally"
    BY <1>2 DEF NoJob
  <2> QED BY <1>1, <1>t, <1>4, <1>5, <2>1 DEF Served, IsStored
<1>7. ASSUME NEW v \in Workers \ {w}, serving'[v] # NoConnection PROVE Served(v)'
  <2>1. SameService(v)
    BY <1>1, <1>2, <1>4, <1>5, <1>7, <1>t DEF SameService
  <2> QED BY <2>1, <1>7, SameServed DEF SameService, PageCore, ServiceOK
<1>8. ASSUME NEW u \in Workers, NEW v \in Workers, serving'[u] = serving'[v],
             serving'[u] # NoConnection
      PROVE  u = v
  BY <1>8, <1>1, <1>3, <1>4, <1>t DEF PageCore, ServiceOK
<1>9. ASSUME NEW c \in Connections PROVE ClickOK(c)'
  <2>1. CASE c = k
    BY <2>1, <1>1, <1>4, <1>5, <1>t DEF ClickOK, IsStored
  <2>2. CASE c # k
    <3>1. click'[c] = click[c] /\ ClickOK(c)
      BY <2>2, <1>5 DEF PageCore, ServiceOK
    <3>2. ASSUME NEW v \in Workers, serving[v] = c PROVE serving'[v] = c
      BY <3>2, <1>1, <1>3, <1>t, BrowserAssumption
    <3> QED BY <3>1, <3>2, <1>1 DEF ClickOK, IsStored
  <2> QED BY <2>1, <2>2
<1> QED BY <1>6, <1>7, <1>8, <1>9 DEF ServiceOK

\* A step without a change of who serves what.
LEMMA ServiceKept ==
  ASSUME PageCore, UNCHANGED serving,
         \A w \in Workers : SameService(w),
         \A k \in Connections : click'[k].state = "served" => click[k].state = "served",
         \A k \in Connections :
           stored'[k] # {} => /\ k \in stored'[k]
                              /\ click'[k].state \in {"served", "ok"}
  PROVE  ServiceOK'
<1>1. ASSUME NEW w \in Workers, serving'[w] # NoConnection PROVE Served(w)'
  BY <1>1, SameServed DEF SameService, PageCore, ServiceOK
<1>2. ASSUME NEW k \in Connections PROVE ClickOK(k)'
  BY DEF ClickOK, PageCore, ServiceOK, IsStored
<1> QED BY <1>1, <1>2 DEF PageCore, ServiceOK

\* The worker of connection k answers, or k fails: nobody serves it any more.
LEMMA ServiceEnds ==
  ASSUME PageCore, NEW K \in SUBSET Connections, 
         \A w \in Workers : IF serving[w] \in K THEN serving'[w] = NoConnection ELSE SameService(w),
         \A k \in K : click'[k].state # "served",
         \A k \in K : stored'[k] # {} => click'[k].state = "ok" /\ k \in stored'[k],
         \A k \in Connections \ K : click'[k] = click[k],
         \A k \in Connections \ K : stored'[k] # {} => stored[k] # {} /\ k \in stored'[k]
  PROVE  ServiceOK'
<1>t. serving \in [Workers -> Connections \cup {NoConnection}]
  BY DEF PageCore, PageTyped, PageTypeOK, BrowserTypeOK
<1>1. ASSUME NEW w \in Workers, serving'[w] # NoConnection PROVE Served(w)'
  BY <1>1, SameServed DEF SameService, PageCore, ServiceOK
<1>2. ASSUME NEW k \in Connections PROVE ClickOK(k)'
  <2>1. CASE k \in K
    BY <2>1 DEF ClickOK, IsStored
  <2>2. CASE k \notin K
    <3>1. ASSUME NEW w \in Workers, serving[w] = k PROVE serving'[w] = k
      BY <3>1, <2>2 DEF SameService
    <3> QED BY <2>2, <3>1 DEF ClickOK, PageCore, ServiceOK, IsStored
  <2> QED BY <2>1, <2>2
<1>3. ASSUME NEW v \in Workers, NEW w \in Workers, serving'[v] = serving'[w],
             serving'[v] # NoConnection
      PROVE  v = w
  BY <1>3, <1>t DEF SameService, PageCore, ServiceOK
<1> QED BY <1>1, <1>2, <1>3 DEF ServiceOK

\* The worker goes on with its click.
LEMMA ServiceMoves ==
  ASSUME PageCore, NEW w \in Workers, NEW k \in Connections, k = serving[w],
         UNCHANGED <<serving, click>>,
         job'[w].user = Me, job'[w].code = Shown, job'[w].vote = click[k].vote,
         job'[w].pc \in {"tally", "vote", "count"}, stored'[k] # {} <=> job'[w].pc = "count",
         stored'[k] # {} => k \in stored'[k],
         \A v \in Workers \ {w} : job'[v] = job[v],
         \A c \in Connections \ {k} : stored'[c] = stored[c]
  PROVE  ServiceOK'
<1>s. k # NoConnection /\ Served(w) /\ click[k].state = "served"
  BY ServedClick DEF Served
<1>1. Served(w)'
  BY <1>s DEF Served, IsStored
<1>2. ASSUME NEW v \in Workers \ {w}, serving'[v] # NoConnection PROVE Served(v)'
  <2>1. serving[v] \in Connections \ {k}
    BY <1>2, <1>s, ServedClick DEF PageCore, ServiceOK
  <2> QED BY <1>2, <2>1, SameServed DEF SameService, PageCore, ServiceOK
<1>3. ASSUME NEW c \in Connections PROVE ClickOK(c)'
  <2>1. c = k => ClickOK(c)'
    BY <1>s DEF ClickOK, IsStored
  <2>2. c # k => ClickOK(c)'
    BY DEF ClickOK, IsStored, PageCore, ServiceOK
  <2> QED BY <2>1, <2>2
<1> QED BY <1>1, <1>2, <1>3 DEF PageCore, ServiceOK

LEMMA ServeStatementServes ==
  ASSUME PageCore, NEW w \in Workers, ServeStatement(w) PROVE ServiceOK'
<1>k. PICK k \in Connections : k = serving[w]
  BY ServedClick DEF ServeStatement
<1>t. /\ k # NoConnection /\ Served(w) /\ stored[k] \subseteq Connections
      /\ click \in [Connections -> Click] /\ stored \in [Connections -> SUBSET Connections]
      /\ serving \in [Workers -> Connections \cup {NoConnection}]
      /\ job \in [Workers -> Job] /\ job[w] \in Job
  BY <1>k, ServedClick, BrowserAssumption
  DEF PageCore, PageTyped, PageTypeOK, BrowserTypeOK, TypeInv, JobsOK
<1>j. \A v \in Workers \ {w} : job'[v] = job[v]
  <2>1. AnyStatement(w)
    BY DEF ServeStatement, AnyStatement
  <2> QED BY <2>1, StatementFrame, FrameOfOthers DEF PageCore, PageTyped
<1>u. \A v \in Workers : serving[v] = k => v = w
  BY <1>k, <1>t DEF PageCore, ServiceOK
<1>1. CASE ReadTally(w) /\ UNCHANGED <<click, serving, stored, estranged>>
  <2>1. /\ job'[w].user = Me /\ job'[w].code = Shown /\ job'[w].vote = click[k].vote
        /\ job'[w].pc = "vote" /\ job[w].pc = "tally"
    BY <1>1, <1>k, <1>t DEF ReadTally, At, Become, Served, Job
  <2>2. stored[k] = {}
    BY <2>1, <1>k, <1>t DEF Served, IsStored
  <2> QED BY <1>1, <1>k, <1>j, <2>1, <2>2, ServiceMoves
<1>2. CASE WriteVote(w) /\ Stored(serving[w]) /\ UNCHANGED <<click, serving>>
  <2>1. /\ job'[w].user = Me /\ job'[w].code = Shown /\ job'[w].vote = click[k].vote
        /\ job'[w].pc = "count"
    BY <1>2, <1>k, <1>t DEF WriteVote, At, Become, Served, Job
  <2>2. k \in stored'[k] /\ \A c \in Connections \ {k} : stored'[c] = stored[c]
    BY <1>2, <1>k, <1>t DEF Stored
  <2> QED BY <1>2, <1>k, <1>j, <2>1, <2>2, ServiceMoves
<1>a. ASSUME NEW state \in {"ok", "failed"}, Answered(w, state),
             stored' = stored \/ Delivered(k),
             state = "failed" => stored'[k] = {}
      PROVE  ServiceOK'
  <2>1. /\ click'[k].state = state
        /\ \A c \in Connections \ {k} : click'[c] = click[c]
    BY <1>a, <1>k, <1>t DEF Answered, SetClick, Click
  <2>2. serving'[w] = NoConnection /\ \A v \in Workers \ {w} : serving'[v] = serving[v]
    BY <1>a, <1>t DEF Answered, Serves
  <2>3. \A c \in Connections : stored[c] # {} => c \in stored[c]
    BY DEF PageCore, ServiceOK, ClickOK, IsStored
  <2>4. \A c \in Connections \ {k} :
          /\ stored'[c] # {} => stored[c] # {} /\ c \in stored'[c]
          /\ stored'[c] = {} <=> stored[c] = {}
    <3>1. CASE stored' = stored
      BY <2>3, <3>1
    <3>2. CASE Delivered(k)
      BY <2>3, <3>2, <1>t DEF Delivered, Forgotten
    <3> QED BY <1>a, <3>1, <3>2
  <2>5. stored'[k] # {} => state = "ok" /\ k \in stored'[k]
    <3>1. CASE stored' = stored
      BY <2>3, <3>1, <1>a
    <3>2. CASE Delivered(k)
      BY <3>2, <1>t DEF Delivered, Forgotten
    <3> QED BY <1>a, <3>1, <3>2
  <2>6. ASSUME NEW v \in Workers
        PROVE  IF serving[v] \in {k} THEN serving'[v] = NoConnection ELSE SameService(v)
    <3>1. CASE v = w
      BY <3>1, <1>k, <2>2
    <3>2. CASE v # w
      <4>1. serving[v] # k /\ serving'[v] = serving[v] /\ job'[v] = job[v]
        BY <3>2, <1>u, <1>j, <2>2
      <4>2. ASSUME serving[v] # NoConnection
            PROVE  /\ click'[serving[v]] = click[serving[v]]
                   /\ stored'[serving[v]] = {} <=> stored[serving[v]] = {}
        <5>1. serving[v] \in Connections \ {k}
          BY <4>1, <4>2, <1>t
        <5> QED BY <5>1, <2>1, <2>4
      <4>3. SameService(v)
        BY <4>1, <4>2 DEF SameService
      <4> QED BY <4>1, <4>3
    <3> QED BY <3>1, <3>2
  <2>7. PICK K \in SUBSET Connections : K = {k}
    OBVIOUS
  <2>8. \A c \in K : click'[c].state # "served"
    BY <1>a, <2>1, <2>7
  <2>9. \A c \in K : stored'[c] # {} => click'[c].state = "ok" /\ c \in stored'[c]
    BY <2>1, <2>5, <2>7
  <2>10. /\ \A c \in Connections \ K : click'[c] = click[c]
         /\ \A c \in Connections \ K : stored'[c] # {} => stored[c] # {} /\ c \in stored'[c]
    BY <2>1, <2>4, <2>7
  <2> QED BY <2>6, <2>7, <2>8, <2>9, <2>10, ServiceEnds
<1>n. job[w].pc # "count" => stored[k] = {}
  BY <1>k, <1>t DEF Served, IsStored
<1>3. CASE VoteFails(w) /\ Answered(w, "failed") /\ UNCHANGED <<stored, estranged>>
  <2>1. stored'[k] = {}
    BY <1>3, <1>n DEF VoteFails, At
  <2> QED BY <1>3, <1>a, <2>1
<1>4. CASE WriteTally(w) /\ Answered(w, "ok") /\ UNCHANGED <<stored, estranged>>
  BY <1>4, <1>a
<1>5. CASE TallyFails(w) /\ Answered(w, "failed") /\ Delivered(serving[w])
  <2>1. stored'[k] = {}
    BY <1>5, <1>k, <1>t DEF Delivered, Forgotten
  <2> QED BY <1>5, <1>k, <1>a, <2>1
<1> QED BY <1>1, <1>2, <1>3, <1>4, <1>5 DEF ServeStatement

\* The connections K fail: their workers serve nobody.
LEMMA DetachServes ==
  ASSUME PageCore, NEW K \in SUBSET Connections, Detach(K),
         \A w \in Workers : serving[w] # NoConnection /\ serving[w] \notin K => job'[w] = job[w]
  PROVE  ServiceOK'
<1>t. /\ stored \in [Connections -> SUBSET Connections]
      /\ serving \in [Workers -> Connections \cup {NoConnection}]
  BY DEF PageCore, PageTyped, PageTypeOK, BrowserTypeOK
<1>1. \A k \in Connections : click'[k] = IF k \in K THEN NoClick ELSE click[k]
  BY DEF Detach
<1>2. \A k \in Connections : stored'[k] = IF k \in K THEN {} ELSE stored[k] \ K
  BY DEF Detach, Disconnect, Forgotten
<1>3. \A k \in Connections : stored[k] # {} => k \in stored[k]
  BY DEF PageCore, ServiceOK, ClickOK, IsStored
<1>4. \A k \in K : click'[k].state # "served" /\ stored'[k] = {}
  <2>1. NoClick.state = "none"
    BY DEF NoClick
  <2>2. \A k \in K : click'[k] = NoClick /\ stored'[k] = {}
    BY <1>1, <1>2
  <2> QED BY <2>1, <2>2
<1>5. \A k \in Connections \ K : /\ stored'[k] # {} => stored[k] # {} /\ k \in stored'[k]
                                 /\ stored'[k] = {} <=> stored[k] = {}
  BY <1>2, <1>3
<1>6. ASSUME NEW w \in Workers
      PROVE  IF serving[w] \in K THEN serving'[w] = NoConnection ELSE SameService(w)
  <2>1. serving'[w] = IF serving[w] \in K THEN NoConnection ELSE serving[w]
    BY DEF Detach, Disconnect
  <2>2. CASE serving[w] \in K
    BY <2>1, <2>2
  <2>3. CASE serving[w] \notin K
    <3>1. ASSUME serving[w] # NoConnection
          PROVE  /\ job'[w] = job[w] /\ click'[serving[w]] = click[serving[w]]
                 /\ stored'[serving[w]] = {} <=> stored[serving[w]] = {}
      BY <2>3, <3>1, <1>1, <1>5, <1>t
    <3>2. SameService(w)
      BY <2>1, <2>3, <3>1 DEF SameService
    <3> QED BY <2>3, <3>2
  <2> QED BY <2>2, <2>3
<1>7. \A k \in Connections \ K : click'[k] = click[k]
  BY <1>1
<1>8. /\ \A k \in K : click'[k].state # "served"
      /\ \A k \in K : stored'[k] # {} => click'[k].state = "ok" /\ k \in stored'[k]
  BY <1>4
<1>9. \A k \in Connections \ K : stored'[k] # {} => stored[k] # {} /\ k \in stored'[k]
  BY <1>5
<1> QED BY <1>6, <1>7, <1>8, <1>9, ServiceEnds

LEMMA DeliverServes ==
  ASSUME PageCore, NEW k \in Connections, Deliver(k) PROVE ServiceOK'
<1>t. /\ stored \in [Connections -> SUBSET Connections] /\ click \in [Connections -> Click]
      /\ serving \in [Workers -> Connections \cup {NoConnection}]
  BY DEF PageCore, PageTyped, PageTypeOK, BrowserTypeOK
<1>1. /\ click'[k] = NoClick /\ \A c \in Connections \ {k} : click'[c] = click[c]
      /\ serving' = serving /\ job' = job
      /\ click[k].state \in {"ok", "failed"}
  BY <1>t DEF Deliver, vars
<1>2. \A w \in Workers : serving[w] # k
  BY <1>1, ServedClick, BrowserAssumption DEF Served
<1>3. \A c \in Connections : stored[c] # {} => c \in stored[c] /\ click[c].state \in {"served", "ok"}
  BY DEF PageCore, ServiceOK, ClickOK, IsStored
<1>4. /\ stored'[k] = {}
      /\ \A c \in Connections \ {k} :
           stored'[c] # {} <=> stored[c] # {} /\ c \in stored'[c]
  <2>1. CASE Delivered(k)
    BY <2>1, <1>3, <1>t DEF Delivered, Forgotten
  <2>2. CASE click[k].state = "failed" /\ stored' = stored
    BY <2>2, <1>3
  <2> QED BY <2>1, <2>2 DEF Deliver
<1>5. ASSUME NEW w \in Workers PROVE SameService(w)
  <2>1. ASSUME serving[w] # NoConnection
        PROVE  /\ job'[w] = job[w] /\ click'[serving[w]] = click[serving[w]]
               /\ stored'[serving[w]] = {} <=> stored[serving[w]] = {}
    <3>1. serving[w] \in Connections \ {k}
      BY <2>1, <1>2, <1>t
    <3>2. stored[serving[w]] # {} => serving[w] \in stored'[serving[w]]
      <4>1. CASE Delivered(k)
        BY <3>1, <4>1, <1>3, <1>t DEF Delivered, Forgotten
      <4>2. CASE stored' = stored
        BY <3>1, <4>2, <1>3
      <4> QED BY <4>1, <4>2 DEF Deliver
    <3> QED BY <3>1, <3>2, <1>1, <1>4
  <2> QED BY <1>1, <2>1 DEF SameService
<1>6. ASSUME NEW c \in Connections
      PROVE  /\ click'[c].state = "served" => click[c].state = "served"
             /\ stored'[c] # {} => c \in stored'[c] /\ click'[c].state \in {"served", "ok"}
  <2>1. CASE c = k
    BY <2>1, <1>1, <1>4 DEF NoClick
  <2>2. CASE c # k
    BY <2>2, <1>1, <1>3, <1>4
  <2> QED BY <2>1, <2>2
<1> QED BY <1>1, <1>5, <1>6, ServiceKept

LEMMA ServiceStays == PageCore /\ [PageNext]_allVars => ServiceOK'
<1> SUFFICES ASSUME PageCore, [PageNext]_allVars PROVE ServiceOK'
  OBVIOUS
<1>t. /\ PageTyped /\ PageTypeOK /\ PageOK /\ click \in [Connections -> Click]
      /\ serving \in [Workers -> Connections \cup {NoConnection}]
  BY DEF PageCore, PageTyped, PageTypeOK, BrowserTypeOK
<1>s. \A c \in Connections : stored[c] # {} => c \in stored[c] /\ click[c].state \in {"served", "ok"}
  BY DEF PageCore, ServiceOK, ClickOK, IsStored
<1>a. ASSUME UNCHANGED <<job, browserVars, click>> PROVE ServiceOK'
  BY <1>a, <1>s, ServiceKept DEF SameService, browserVars
<1>0. CASE UNCHANGED allVars
  BY <1>0, <1>a DEF allVars, vars, pageVars
<1>1. CASE AskEntry \/ LoadPage
  BY <1>1, <1>a DEF AskEntry, LoadPage, vars
<1>2. ASSUME NEW k \in Connections, NEW v \in {-1, 1}, ClickVote(k, v) PROVE ServiceOK'
  <2>1. /\ UNCHANGED <<job, serving, stored>> /\ click[k] = NoClick /\ click'[k].state = "sent"
        /\ \A c \in Connections \ {k} : click'[c] = click[c]
    BY <1>2, <1>t DEF ClickVote, vars, browserVars
  <2>2. ASSUME NEW w \in Workers PROVE SameService(w)
    <3>1. serving[w] # k
      BY <2>1, ServedClick, BrowserAssumption DEF NoClick, Served
    <3> QED BY <2>1, <3>1, <1>t DEF SameService
  <2>3. \A c \in Connections : stored[c] # {} => c # k
    BY <2>1, <1>s DEF NoClick
  <2> QED BY <2>1, <2>2, <2>3, <1>s, ServiceKept
<1>3. ASSUME NEW k \in Connections, ConnectionFails(k) PROVE ServiceOK'
  BY <1>3, DetachServes DEF ConnectionFails, vars
<1>4. CASE LeavePage
  BY <1>4, DetachServes DEF LeavePage, vars
<1>5. CASE PageRestart
  <2>1. PICK K \in SUBSET Connections : Detach(K) /\ K = {k \in Connections : click[k].state \in {"sent", "served"}}
    BY <1>5 DEF PageRestart
  <2>2. ASSUME NEW w \in Workers, serving[w] # NoConnection PROVE serving[w] \in K
    BY <2>1, <2>2, ServedClick DEF Served
  <2> QED BY <2>1, <2>2, DetachServes
<1>6. ASSUME NEW w \in Workers, Elsewhere(w) PROVE ServiceOK'
  <2>1. serving[w] = NoConnection /\ UNCHANGED <<serving, stored, click>>
    BY <1>6 DEF Elsewhere, browserVars
  <2>2. \A v \in Workers \ {w} : job'[v] = job[v]
    BY <1>6, <1>t, StatementTaken, StatementFrame, FrameOfOthers DEF Elsewhere, PageTyped
  <2>3. \A v \in Workers : SameService(v)
    BY <2>1, <2>2 DEF SameService
  <2> QED BY <2>1, <2>3, <1>s, ServiceKept
<1> QED
  BY <1>0, <1>1, <1>2, <1>3, <1>4, <1>5, <1>6, ServeClickServes, ServeStatementServes, DeliverServes
  DEF PageNext

-----------------------------------------------------------------------------
(* The user's vote.  The votes stored and not yet delivered form a chain:   *)
(* its first link was computed from what the page shows, each next one from *)
(* the one before, and the last one is what the server has.                 *)

Ordered ==
  /\ \A k \in InStore : k \in stored[k] /\ stored[k] \subseteq InStore
  /\ \A j, k \in InStore : j \in stored[k] \/ k \in stored[j]
\* h[k] is the vote that connection k stored.
Chain(h) ==
  /\ \A k \in InStore : stored[k] = {k} => h[k] = NewVote(page.status, click[k].vote)
  /\ \A j, k \in InStore :
       j # k /\ stored[k] = stored[j] \cup {k} => h[k] = NewVote(h[j], click[k].vote)
  /\ \A k \in InStore : stored[k] = InStore => votes[Shown][Me] = h[k]
  /\ InStore = {} => page.status = votes[Shown][Me]
Chained == Ordered /\ \E h \in [Connections -> -1..1] : Chain(h)
ChainInv == page.state = "open" /\ "vote" \notin estranged => Chained

\* Nothing that the chain is about changes.
LEMMA ChainKept ==
  ASSUME Chained, \A k \in Connections : stored'[k] = stored[k],
         page'.status = page.status, votes'[Shown][Me] = votes[Shown][Me],
         \A k \in InStore : click'[k].vote = click[k].vote
  PROVE  Chained'
<1>1. InStore' = InStore
  BY DEF InStore, IsStored
<1>2. Ordered'
  BY <1>1 DEF Chained, Ordered, InStore
<1>3. PICK h \in [Connections -> -1..1] : Chain(h)
  BY DEF Chained
<1>4. Chain(h)'
  BY <1>1, <1>3 DEF Chain, InStore
<1> QED BY <1>2, <1>4 DEF Chained

\* A vote is stored from what the server has.
LEMMA ChainGrows ==
  ASSUME PageCore, Chained, NEW k \in Connections, NEW v \in {-1, 1}, k \notin InStore, Stored(k),
         UNCHANGED <<page, click>>, v = click[k].vote,
         votes'[Shown][Me] = NewVote(votes[Shown][Me], v)
  PROVE  Chained'
<1>t. stored \in [Connections -> SUBSET Connections]
  BY DEF PageCore, PageTyped, PageTypeOK, BrowserTypeOK
<1>1. /\ stored'[k] = {k} \cup InStore
      /\ \A c \in Connections \ {k} : stored'[c] = stored[c]
  BY <1>t DEF Stored, InStore
<1>2. InStore' = InStore \cup {k}
  BY <1>1 DEF InStore, IsStored
<1>3. \A c \in InStore : c \in Connections /\ c # k /\ stored'[c] = stored[c] /\ stored[c] \subseteq InStore
  BY <1>1 DEF Chained, Ordered, InStore
<1>4. Ordered'
  BY <1>1, <1>2, <1>3 DEF Chained, Ordered
<1>5. PICK h \in [Connections -> -1..1] : Chain(h)
  BY DEF Chained
<1>6. NewVote(votes[Shown][Me], v) \in -1..1
  <2>1. votes[Shown][Me] \in -1..1
    BY PageAssumption, BrowserAssumption DEF PageCore, PageTyped, TypeInv, VotesOK
  <2> QED BY <2>1, NewVoteRange
<1>b. PICK b \in -1..1 : b = NewVote(votes[Shown][Me], v)
  BY <1>6
<1>7. PICK g \in [Connections -> -1..1] :
        g[k] = b /\ \A c \in Connections \ {k} : g[c] = h[c]
  <2>1. [h EXCEPT ![k] = b] \in [Connections -> -1..1]
    OBVIOUS
  <2> QED BY <2>1
<1>8. ASSUME NEW c \in InStore', stored'[c] = {c} PROVE g[c] = NewVote(page'.status, click'[c].vote)
  <2>1. CASE c = k
    <3>1. InStore = {}
      BY <2>1, <1>1, <1>3, <1>8
    <3> QED BY <2>1, <3>1, <1>b, <1>5, <1>7 DEF Chain
  <2>2. CASE c # k
    BY <2>2, <1>2, <1>3, <1>5, <1>7, <1>8 DEF Chain
  <2> QED BY <2>1, <2>2
<1>9. ASSUME NEW j \in InStore', NEW c \in InStore', j # c, stored'[c] = stored'[j] \cup {c}
      PROVE  g[c] = NewVote(g[j], click'[c].vote)
  <2>1. CASE c = k
    <3>1. j \in InStore /\ stored[j] \subseteq InStore /\ stored'[j] = stored[j]
      BY <2>1, <1>9, <1>2, <1>3
    <3>2. stored[j] = InStore
      BY <2>1, <3>1, <1>1, <1>9
    <3> QED BY <2>1, <3>1, <3>2, <1>3, <1>5, <1>7, <1>b DEF Chain
  <2>2. CASE j = k
    <3>1. c \in InStore /\ k \notin stored'[c] /\ k \in stored'[j]
      BY <2>2, <1>1, <1>2, <1>3, <1>9
    <3> QED BY <3>1, <1>9
  <2>3. CASE c # k /\ j # k
    BY <2>3, <1>2, <1>3, <1>5, <1>7, <1>9 DEF Chain
  <2> QED BY <2>1, <2>2, <2>3
<1>10. ASSUME NEW c \in InStore', stored'[c] = InStore' PROVE votes'[Shown][Me] = g[c]
  <2>1. c = k
    BY <1>2, <1>3, <1>10
  <2> QED BY <2>1, <1>7, <1>b
<1>11. InStore' # {}
  BY <1>2
<1>12. Chain(g)'
  BY <1>8, <1>9, <1>10, <1>11 DEF Chain
<1> QED BY <1>4, <1>7, <1>12 DEF Chained

\* The first vote of the chain is delivered.
LEMMA ChainShrinks ==
  ASSUME PageCore, Chained, NEW k \in InStore, stored[k] = {k}, Delivered(k),
         page'.status = NewVote(page.status, click[k].vote), UNCHANGED votes,
         \A c \in Connections \ {k} : click'[c] = click[c]
  PROVE  Chained'
<1>t. stored \in [Connections -> SUBSET Connections] /\ k \in Connections
  BY DEF PageCore, PageTyped, PageTypeOK, BrowserTypeOK, InStore
<1>1. \A c \in Connections : stored'[c] = IF c = k THEN {} ELSE stored[c] \ {k}
  BY DEF Delivered, Forgotten
<1>2. \A c \in InStore : c \in Connections /\ c \in stored[c] /\ k \in stored[c] /\ stored[c] \subseteq InStore
  BY DEF Chained, Ordered, InStore
<1>3. InStore' = InStore \ {k}
  <2>1. ASSUME NEW c \in Connections PROVE c \in InStore' <=> c \in InStore \ {k}
    BY <1>1, <1>2 DEF InStore, IsStored
  <2>2. InStore' \subseteq Connections /\ InStore \subseteq Connections
    BY DEF InStore
  <2> QED BY <2>1, <2>2
<1>4. Ordered'
  <2>1. ASSUME NEW j \in InStore' PROVE j \in stored'[j] /\ stored'[j] \subseteq InStore'
    BY <1>1, <1>2, <1>3
  <2>2. ASSUME NEW j \in InStore', NEW c \in InStore' PROVE j \in stored'[c] \/ c \in stored'[j]
    <3>1. j \in stored[c] \/ c \in stored[j]
      BY <1>3 DEF Chained, Ordered
    <3> QED BY <3>1, <1>1, <1>2, <1>3
  <2> QED BY <2>1, <2>2 DEF Ordered
<1>5. PICK h \in [Connections -> -1..1] : Chain(h)
  BY DEF Chained
<1>6. page'.status = h[k]
  BY <1>5 DEF Chain
<1>7. ASSUME NEW c \in InStore', stored'[c] = {c} PROVE h[c] = NewVote(page'.status, click'[c].vote)
  <2>1. c \in InStore /\ c # k /\ stored[c] = {k} \cup {c} /\ click'[c] = click[c]
    BY <1>1, <1>2, <1>3, <1>7
  <2> QED BY <2>1, <1>5, <1>6 DEF Chain
<1>8. ASSUME NEW j \in InStore', NEW c \in InStore', j # c, stored'[c] = stored'[j] \cup {c}
      PROVE  h[c] = NewVote(h[j], click'[c].vote)
  <2>1. /\ c \in InStore /\ j \in InStore /\ c # k /\ j # k /\ click'[c] = click[c]
        /\ stored'[c] = stored[c] \ {k} /\ stored'[j] = stored[j] \ {k}
        /\ k \in stored[c] /\ k \in stored[j]
    BY <1>1, <1>2, <1>3
  <2>2. stored[c] = stored[j] \cup {c}
    BY <2>1, <1>8
  <2> QED BY <2>1, <2>2, <1>5, <1>8 DEF Chain
<1>9. ASSUME NEW c \in InStore', stored'[c] = InStore' PROVE votes'[Shown][Me] = h[c]
  <2>1. c \in InStore /\ stored[c] = InStore
    BY <1>1, <1>2, <1>3, <1>9
  <2> QED BY <2>1, <1>5 DEF Chain
<1>10. InStore' = {} => page'.status = votes'[Shown][Me]
  <2>1. ASSUME InStore' = {} PROVE stored[k] = InStore
    <3>1. InStore = {k}
      BY <2>1, <1>3
    <3> QED BY <3>1
  <2> QED BY <2>1, <1>5, <1>6 DEF Chain
<1>11. Chain(h)'
  BY <1>7, <1>8, <1>9, <1>10 DEF Chain
<1> QED BY <1>4, <1>11 DEF Chained

LEMMA VoteWritten ==
  ASSUME TypeInv, NEW w \in Workers, WriteVote(w)
  PROVE  LET c == job[w].code
             u == job[w].user
         IN  /\ \A d \in Codes, x \in Users : d # c \/ x # u => votes'[d][x] = votes[d][x]
             /\ votes[c][u] = job[w].old => votes'[c][u] = NewVote(job[w].old, job[w].vote)
<1>1. votes \in [Codes -> [Users -> -1..1]] /\ job[w].code \in Codes /\ job[w].user \in Users
  BY IssuedCodes DEF TypeInv, VotesOK, JobsOK, GoodJob, WriteVote, At
<1> DEFINE b == IF job[w].old # 0 /\ votes[job[w].code][job[w].user] = 0
                THEN 0 ELSE NewVote(job[w].old, job[w].vote)
<1>2. votes' = [votes EXCEPT ![job[w].code][job[w].user] = b]
  BY DEF WriteVote
<1>3. votes[job[w].code][job[w].user] = job[w].old => b = NewVote(job[w].old, job[w].vote)
  OBVIOUS
<1> HIDE DEF b
<1> QED BY <1>1, <1>2, <1>3

LEMMA ServeStatementChained ==
  ASSUME PageCore, ChainInv, NEW w \in Workers, ServeStatement(w) PROVE ChainInv'
<1> SUFFICES ASSUME page'.state = "open", "vote" \notin estranged' PROVE Chained'
  BY DEF ChainInv
<1>k. PICK k \in Connections : k = serving[w]
  BY ServedClick DEF ServeStatement
<1>t. /\ k # NoConnection /\ Served(w) /\ click \in [Connections -> Click] /\ page' = page
      /\ Shown \in Codes /\ Me \in Users
  BY <1>k, ServedClick, BrowserAssumption, PageAssumption
  DEF ServeStatement, PageCore, PageTyped, PageTypeOK
<1>1. "vote" \notin estranged /\ Chained
  BY <1>t DEF ServeStatement, Estrange, ChainInv
<1>2. ASSUME UNCHANGED <<votes, stored>>, \A c \in Connections : click'[c].vote = click[c].vote
      PROVE  Chained'
  BY <1>1, <1>2, <1>t, ChainKept DEF InStore
<1>3. ASSUME NEW state, Answered(w, state), UNCHANGED <<votes, stored>> PROVE Chained'
  BY <1>2, <1>3, <1>k, <1>t DEF Answered, SetClick, Click
<1>4. CASE ReadTally(w) /\ UNCHANGED <<click, serving, stored, estranged>>
  BY <1>2, <1>4 DEF ReadTally, tables
<1>5. CASE /\ WriteVote(w) /\ Stored(serving[w]) /\ UNCHANGED <<click, serving>>
           /\ Estrange("vote", votes[Shown][Me] # job[w].old)
  <2>1. votes[Shown][Me] = job[w].old
    BY <1>5, <1>1 DEF Estrange
  <2>2. votes'[Shown][Me] = NewVote(votes[Shown][Me], click[k].vote)
    BY <2>1, <1>5, <1>k, <1>t, VoteWritten DEF Served, PageCore, PageTyped
  <2>3. k \notin InStore
    BY <1>5, <1>k, <1>t DEF Served, InStore, WriteVote, At
  <2>4. click[k].vote \in {-1, 1}
    BY <1>t DEF Click
  <2> QED BY <2>2, <2>3, <2>4, <1>1, <1>5, <1>k, <1>t, ChainGrows
<1>6. CASE VoteFails(w) /\ Answered(w, "failed") /\ UNCHANGED <<stored, estranged>>
  BY <1>3, <1>6 DEF VoteFails, Reads, tables
<1>7. CASE WriteTally(w) /\ Answered(w, "ok") /\ UNCHANGED <<stored, estranged>>
  BY <1>3, <1>7 DEF WriteTally
<1>8. CASE Estrange("vote", TRUE)
  BY <1>8 DEF Estrange
<1> QED BY <1>4, <1>5, <1>6, <1>7, <1>8 DEF ServeStatement

\* Connections fail without a vote in store.
LEMMA DetachChained ==
  ASSUME PageCore, Chained, NEW K \in SUBSET Connections, Detach(K), K \cap InStore = {},
         UNCHANGED <<page, votes>>
  PROVE  Chained'
<1>1. stored \in [Connections -> SUBSET Connections]
  BY DEF PageCore, PageTyped, PageTypeOK, BrowserTypeOK
<1>2. \A k \in Connections : stored[k] \subseteq InStore
  BY DEF Chained, Ordered, InStore, IsStored
<1>3. ASSUME NEW k \in Connections PROVE stored'[k] = stored[k]
  <2>1. stored'[k] = IF k \in K THEN {} ELSE stored[k] \ K
    BY DEF Detach, Disconnect, Forgotten
  <2>2. k \in K => stored[k] = {}
    BY DEF InStore, IsStored
  <2>3. stored[k] \ K = stored[k]
    BY <1>2
  <2> QED BY <2>1, <2>2, <2>3
<1>4. \A k \in InStore : click'[k].vote = click[k].vote
  BY DEF Detach, InStore
<1> QED BY <1>3, <1>4, ChainKept

LEMMA ChainStays == PageCore /\ ChainInv /\ [PageNext]_allVars => ChainInv'
<1> SUFFICES ASSUME PageCore, ChainInv, [PageNext]_allVars, page'.state = "open",
                    "vote" \notin estranged'
             PROVE  Chained'
  BY DEF ChainInv
<1>t. /\ PageTyped /\ PageTypeOK /\ PageOK /\ click \in [Connections -> Click]
      /\ Shown \in Codes /\ Me \in Users
  BY BrowserAssumption, PageAssumption DEF PageCore, PageTyped, PageTypeOK
<1>s. \A c \in InStore : click[c].state \in {"served", "ok"} /\ c \in Connections
  BY DEF PageCore, ServiceOK, ClickOK, InStore
<1>0. CASE UNCHANGED allVars
  BY <1>0, ChainKept DEF allVars, vars, browserVars, pageVars, ChainInv
<1>1. CASE AskEntry
  BY <1>1, <1>t DEF AskEntry, PageTypeOK, Page
<1>2. CASE LoadPage
  <2>1. \A k \in Connections : click[k] = NoClick
    BY <1>2, <1>t DEF LoadPage, PageOK
  <2>2. InStore = {} /\ InStore' = {}
    BY <2>1, <1>2, <1>s DEF NoClick, LoadPage, browserVars, InStore, IsStored
  <2>3. page'.status = votes'[Shown][Me]
    BY <1>2, <1>t DEF LoadPage, PageTypeOK, Page, vars
  <2>4. \A h : Chain(h)'
    BY <2>2, <2>3 DEF Chain
  <2>5. \E h \in [Connections -> -1..1] : TRUE
    <3>1. [k \in Connections |-> 0] \in [Connections -> -1..1]
      OBVIOUS
    <3> QED BY <3>1
  <2> QED BY <2>2, <2>4, <2>5 DEF Chained, Ordered
<1>3. ASSUME NEW k \in Connections, NEW v \in {-1, 1}, ClickVote(k, v) PROVE Chained'
  <2>1. \A c \in InStore : click'[c] = click[c]
    BY <1>3, <1>s DEF ClickVote, NoClick
  <2> QED BY <2>1, <1>3, ChainKept DEF ClickVote, vars, browserVars, ChainInv
<1>4. ASSUME NEW k \in Connections, ConnectionFails(k) PROVE Chained'
  <2>1. {k} \cap InStore = {} /\ "vote" \notin estranged
    BY <1>4 DEF ConnectionFails, Estrange, InStore
  <2> QED BY <2>1, <1>4, DetachChained DEF ConnectionFails, vars, ChainInv
<1>5. CASE LeavePage
  BY <1>5 DEF LeavePage, Closed
<1>6. CASE PageRestart
  <2>1. PICK K \in SUBSET Connections : Detach(K) /\ K = {k \in Connections : click[k].state \in {"sent", "served"}}
    BY <1>6 DEF PageRestart
  <2>2. "vote" \notin estranged /\ ~\E w \in Workers : serving[w] # NoConnection /\ At(w, "count")
    BY <1>6 DEF PageRestart, Estrange
  <2>3. ASSUME NEW k \in K, k \in InStore PROVE FALSE
    <3>1. click[k].state = "served"
      BY <2>1, <2>3, <1>s
    <3>2. PICK w \in Workers : serving[w] = k
      BY <2>1, <3>1 DEF PageCore, ServiceOK, ClickOK
    <3>3. serving[w] # NoConnection /\ Served(w)
      BY <2>1, <3>2, ServedClick, BrowserAssumption DEF PageCore, ServiceOK
    <3>4. At(w, "count")
      BY <2>3, <3>2, <3>3 DEF Served, InStore, At
    <3> QED BY <2>2, <3>3, <3>4
  <2> QED BY <2>1, <2>2, <2>3, <1>6, DetachChained DEF PageRestart, Restart, ChainInv
<1>7. ASSUME NEW w \in Workers, Elsewhere(w) PROVE Chained'
  <2>1. AnyStatement(w) /\ UNCHANGED <<page, click, stored>> /\ TypeInv
    BY <1>7, <1>t, StatementTaken DEF Elsewhere, browserVars, PageTyped
  <2>2. /\ "vote" \notin estranged
        /\ ~(job[w].code = Shown /\ job[w].pc \in {"vote", "likes"} /\ (job[w].pc = "likes" \/ job[w].user = Me))
    BY <1>7 DEF Elsewhere
  <2>3. votes'[Shown][Me] = votes[Shown][Me]
    <3>1. CASE WriteVote(w)
      BY <3>1, <2>1, <2>2, <1>t, VoteWritten DEF WriteVote, At
    <3>2. CASE DeleteLikes(w)
      BY <3>2, <2>1, <2>2, <1>t DEF DeleteLikes, At, TypeInv, VotesOK
    <3> QED BY <3>1, <3>2, <2>1, StatementFrame DEF Frame
  <2> QED BY <2>1, <2>2, <2>3, ChainKept DEF ChainInv
<1>8. ASSUME NEW k \in Connections, Deliver(k) PROVE Chained'
  <2>1. /\ UNCHANGED votes /\ \A c \in Connections \ {k} : click'[c] = click[c]
        /\ page.state = "open" /\ "vote" \notin estranged
    BY <1>8, <1>t, DeliverTyped DEF Deliver, vars, Estrange
  <2>2. CASE click[k].state = "ok" /\ page' = Toggled(page, click[k].vote)
             /\ Estrange("vote", Overtakes(k)) /\ Delivered(k)
    <3>1. stored[k] = {k}
      BY <2>2 DEF Estrange, Overtakes
    <3>2. k \in InStore
      BY <3>1 DEF InStore, IsStored
    <3>3. page'.status = NewVote(page.status, click[k].vote)
      BY <2>2, <1>t, ToggledTyped DEF PageTypeOK, Click
    <3> QED BY <2>1, <2>2, <3>1, <3>2, <3>3, ChainShrinks DEF ChainInv
  <2>3. CASE click[k].state = "failed" /\ UNCHANGED <<page, stored, estranged>>
    <3>1. k \notin InStore
      BY <2>3, <1>s
    <3> QED BY <2>1, <2>3, <3>1, ChainKept DEF ChainInv, InStore
  <2> QED BY <1>8, <2>2, <2>3 DEF Deliver
<1>9. ASSUME NEW w \in Workers, NEW k \in Connections, ServeClick(w, k) PROVE Chained'
  <2>1. UNCHANGED <<votes, stored, page, estranged>>
    BY <1>9 DEF ServeClick, ReadVote, tables
  <2>2. \A c \in InStore : click'[c].vote = click[c].vote
    BY <1>9, <1>t DEF ServeClick, SetClick, InStore, Click
  <2> QED BY <2>1, <2>2, ChainKept DEF ChainInv
<1>10. ASSUME NEW w \in Workers, ServeStatement(w) PROVE Chained'
  BY <1>10, ServeStatementChained DEF ChainInv
<1> QED
  BY <1>0, <1>1, <1>2, <1>3, <1>4, <1>5, <1>6, <1>7, <1>8, <1>9, <1>10 DEF PageNext

-----------------------------------------------------------------------------
(* The counters: but for the user's own vote, the page's are those of the   *)
(* votes of the others.                                                     *)

Others(value) == Cardinality({u \in Users \ {Me} : votes[Shown][u] = value})
Own(value) == IF page.status = value THEN 1 ELSE 0
CountersInv ==
  "counters" \notin estranged /\ Shown \notin torn =>
    /\ page.state = "asked" => page.like = Votes(Shown, 1) /\ page.unlike = Votes(Shown, -1)
    /\ page.state = "open" => /\ page.like = Others(1) + Own(1)
                              /\ page.unlike = Others(-1) + Own(-1)

LEMMA OthersAndMe ==
  ASSUME NEW value
  PROVE  Votes(Shown, value) = Others(value) + (IF votes[Shown][Me] = value THEN 1 ELSE 0)
<1> DEFINE S == {u \in Users \ {Me} : votes[Shown][u] = value}
           T == {u \in Users : votes[Shown][u] = value}
<1>1. IsFiniteSet(S) /\ Me \notin S
  <2>1. S \subseteq Users
    OBVIOUS
  <2> QED BY <2>1, FS_Subset
<1>2. CASE votes[Shown][Me] = value
  <2>1. T = S \cup {Me}
    BY <1>2, PageAssumption
  <2>2. Cardinality(T) = Cardinality(S) + 1
    BY <1>1, <2>1, FS_AddElement
  <2> QED BY <1>2, <2>2 DEF Votes, Others
<1>3. CASE votes[Shown][Me] # value
  <2>1. T = S
    BY <1>3
  <2>2. Cardinality(S) \in Nat
    BY <1>1, FS_CardinalityType
  <2>3. Votes(Shown, value) = Cardinality(T) /\ Others(value) = Cardinality(S)
    BY DEF Votes, Others
  <2> HIDE DEF S, T
  <2> QED BY <1>3, <2>1, <2>2, <2>3
<1> QED BY <1>2, <1>3

LEMMA OthersNat == ASSUME NEW value PROVE Others(value) \in Nat
<1> DEFINE S == {u \in Users \ {Me} : votes[Shown][u] = value}
<1>1. S \subseteq Users
  OBVIOUS
<1> QED BY <1>1, FS_Subset, FS_CardinalityType DEF Others

LEMMA OthersKept ==
  ASSUME NEW value, \A u \in Users \ {Me} : votes'[Shown][u] = votes[Shown][u]
  PROVE  Others(value)' = Others(value)
BY DEF Others

LEMMA CountersKept ==
  ASSUME PageCore, CountersInv, [PageNext]_allVars, UNCHANGED page, 
         page.state # "closed" /\ "counters" \notin estranged' =>
           /\ "counters" \notin estranged
           /\ \A u \in Users \ {Me} : votes'[Shown][u] = votes[Shown][u]
           /\ page.state = "asked" => votes'[Shown][Me] = votes[Shown][Me]
  PROVE  CountersInv'
<1> SUFFICES ASSUME page.state # "closed", "counters" \notin estranged', Shown \notin torn'
             PROVE  CountersInv'
  BY DEF CountersInv, PageCore, PageTyped, PageTypeOK
<1>1. torn \subseteq torn'
  <2>1. CASE UNCHANGED vars
    BY <2>1 DEF vars
  <2>2. CASE Restart
    BY <2>2 DEF Restart
  <2>3. ASSUME NEW w \in Workers, AnyStatement(w) PROVE torn \subseteq torn'
    BY <2>3, StatementFrame DEF Frame, PageCore, PageTyped
  <2> QED BY <2>1, <2>2, <2>3, PageStepFrame DEF PageCore, allVars, vars
<1>2. Others(1)' = Others(1) /\ Others(-1)' = Others(-1)
  BY OthersKept
<1>3. ASSUME page.state = "asked", NEW value PROVE Votes(Shown, value)' = Votes(Shown, value)
  <2>1. \A u \in Users : votes'[Shown][u] = votes[Shown][u]
    BY <1>3
  <2> QED BY <2>1 DEF Votes
<1>4. Own(1)' = Own(1) /\ Own(-1)' = Own(-1)
  BY DEF Own
<1> QED BY <1>1, <1>2, <1>3, <1>4 DEF CountersInv

LEMMA CountersStay == PageCore /\ TallyInv /\ CountersInv /\ [PageNext]_allVars => CountersInv'
<1> SUFFICES ASSUME PageCore, TallyInv, CountersInv, [PageNext]_allVars PROVE CountersInv'
  OBVIOUS
<1>t. /\ PageTyped /\ PageTypeOK /\ TypeInv /\ page \in Page /\ Shown \in Codes /\ Me \in Users
  BY BrowserAssumption, PageAssumption DEF PageCore, PageTyped, PageTypeOK
<1>c. ASSUME page'.state = "closed" PROVE CountersInv'
  BY <1>c DEF CountersInv
<1>0. CASE UNCHANGED allVars
  BY <1>0, CountersKept DEF allVars, vars, pageVars
<1>1. CASE AskEntry
  <2>1. SUFFICES ASSUME "counters" \notin estranged', Shown \notin torn'
                 PROVE  page'.like = Votes(Shown, 1)' /\ page'.unlike = Votes(Shown, -1)' /\ page'.state = "asked"
    BY DEF CountersInv
  <2>2. UNCHANGED vars /\ Shown \in DOMAIN news /\ Shown \notin torn /\ ~HalfCounted
    BY <1>1, <2>1 DEF AskEntry, vars, Visible, Exists
  <2>3. news[Shown].like = Votes(Shown, 1) /\ news[Shown].unlike = Votes(Shown, -1)
    BY <2>2, CountInvCounts DEF TallyInv, VotesCounted, HalfCounted
  <2>4. Votes(Shown, 1)' = Votes(Shown, 1) /\ Votes(Shown, -1)' = Votes(Shown, -1)
    BY <2>2 DEF Votes, vars
  <2>5. page'.like = news[Shown].like /\ page'.unlike = news[Shown].unlike /\ page'.state = "asked"
    BY <1>1, <1>t DEF AskEntry, Page
  <2> QED BY <2>3, <2>4, <2>5
<1>2. CASE LoadPage
  <2>1. SUFFICES ASSUME "counters" \notin estranged', Shown \notin torn'
                 PROVE  /\ page'.state = "open"
                        /\ page'.like = Others(1)' + Own(1)' /\ page'.unlike = Others(-1)' + Own(-1)'
    BY DEF CountersInv
  <2>2. UNCHANGED <<vars, estranged>> /\ page.state = "asked"
    BY <1>2 DEF LoadPage
  <2>3. page.like = Votes(Shown, 1) /\ page.unlike = Votes(Shown, -1)
    BY <2>1, <2>2 DEF CountersInv, vars
  <2>4. /\ page'.state = "open" /\ page'.status = votes[Shown][Me]
        /\ page'.like = page.like /\ page'.unlike = page.unlike
    BY <1>2, <1>t DEF LoadPage, Page
  <2>5. Others(1)' = Others(1) /\ Others(-1)' = Others(-1)
    BY <2>2, OthersKept DEF vars
  <2> QED BY <2>3, <2>4, <2>5, OthersAndMe DEF Own
<1>3. ASSUME NEW k \in Connections, NEW v \in {-1, 1}, ClickVote(k, v) PROVE CountersInv'
  BY <1>3, CountersKept DEF ClickVote, vars
<1>4. ASSUME NEW k \in Connections, ConnectionFails(k) PROVE CountersInv'
  BY <1>4, CountersKept DEF ConnectionFails, vars, Estrange
<1>5. CASE LeavePage
  BY <1>5, <1>c DEF LeavePage, Closed
<1>6. CASE PageRestart
  BY <1>6, CountersKept DEF PageRestart, Restart, Estrange
<1>7. ASSUME NEW w \in Workers, Elsewhere(w) PROVE CountersInv'
  <2>1. AnyStatement(w) /\ UNCHANGED page
    BY <1>7, StatementTaken DEF Elsewhere
  <2>2. ASSUME page.state # "closed", "counters" \notin estranged'
        PROVE  \A u \in Users : votes'[Shown][u] = votes[Shown][u]
    <3>1. ~(job[w].code = Shown /\ job[w].pc \in {"vote", "likes"}) /\ "counters" \notin estranged
      BY <1>7, <2>2 DEF Elsewhere
    <3>2. CASE WriteVote(w)
      BY <3>1, <3>2, <1>t, VoteWritten DEF WriteVote, At
    <3>3. CASE DeleteLikes(w)
      BY <3>1, <3>3, <1>t DEF DeleteLikes, At, TypeInv, VotesOK
    <3> QED BY <3>2, <3>3, <2>1, <1>t, StatementFrame DEF Frame
  <2>3. "counters" \in estranged => "counters" \in estranged'
    BY <1>7 DEF Elsewhere
  <2> QED BY <2>1, <2>2, <2>3, <1>t, CountersKept
<1>8. ASSUME NEW k \in Connections, Deliver(k) PROVE CountersInv'
  <2>1. CASE UNCHANGED <<page, estranged>>
    BY <1>8, <2>1, CountersKept DEF Deliver, vars
  <2>2. CASE click[k].state = "ok" /\ page' = Toggled(page, click[k].vote) /\ Estrange("vote", Overtakes(k))
    <3>1. /\ page.state = "open" /\ page'.state = "open" /\ UNCHANGED vars
      BY <1>8, <2>2, <1>t, ClickedOpen, DeliverTyped DEF Deliver
    <3>2. SUFFICES ASSUME "counters" \notin estranged', Shown \notin torn'
                   PROVE  page'.like = Others(1)' + Own(1)' /\ page'.unlike = Others(-1)' + Own(-1)'
      BY <3>1 DEF CountersInv
    <3>3. page.like = Others(1) + Own(1) /\ page.unlike = Others(-1) + Own(-1)
      BY <2>2, <3>1, <3>2 DEF CountersInv, Estrange, vars
    <3>4. Others(1)' = Others(1) /\ Others(-1)' = Others(-1)
      BY <3>1, OthersKept DEF vars
    <3>5. PICK v \in {-1, 1} : v = click[k].vote
      BY <1>t DEF PageTypeOK, Click
    <3>6. /\ page'.status = NewVote(page.status, v)
          /\ page'.like = Counted(page.like, 1, page.status, v)
          /\ page'.unlike = Counted(page.unlike, -1, page.status, v)
      BY <2>2, <3>5, <1>t, ToggledTyped
    <3>7. Own(1) \in 0..1 /\ Own(-1) \in 0..1
      BY DEF Own
    <3>8. Others(1) \in Nat /\ Others(-1) \in Nat
      BY OthersNat
    <3>9. page'.like = Others(1) + (IF page'.status = 1 THEN 1 ELSE 0)
      BY <3>3, <3>6, <3>7, <3>8 DEF Counted, Own
    <3>10. page'.unlike = Others(-1) + (IF page'.status = -1 THEN 1 ELSE 0)
      BY <3>3, <3>6, <3>7, <3>8 DEF Counted, Own
    <3> QED BY <3>4, <3>9, <3>10 DEF Own
  <2> QED BY <1>8, <2>1, <2>2 DEF Deliver
<1>9. ASSUME NEW w \in Workers, NEW k \in Connections, ServeClick(w, k) PROVE CountersInv'
  BY <1>9, CountersKept DEF ServeClick, ReadVote, tables
<1>10. ASSUME NEW w \in Workers, ServeStatement(w) PROVE CountersInv'
  <2>1. page.state = "open" /\ Served(w) /\ UNCHANGED page
    BY <1>10, ServedClick DEF ServeStatement
  <2>2. "counters" \in estranged => "counters" \in estranged'
    BY <1>10 DEF ServeStatement, Estrange
  <2>3. \A u \in Users \ {Me} : votes'[Shown][u] = votes[Shown][u]
    <3>1. CASE WriteVote(w)
      BY <3>1, <2>1, <1>t, VoteWritten DEF Served
    <3>2. CASE votes' = votes
      BY <3>2
    <3> QED BY <1>10, <3>1, <3>2
        DEF ServeStatement, ReadTally, VoteFails, WriteTally, TallyFails, Reads, tables
  <2> QED BY <2>1, <2>2, <2>3, CountersKept
<1> QED
  BY <1>0, <1>1, <1>2, <1>3, <1>4, <1>5, <1>6, <1>7, <1>8, <1>9, <1>10 DEF PageNext

-----------------------------------------------------------------------------
(* The page of an entry.                                                   *)

PageInv == PageCore /\ TallyInv /\ ChainInv /\ CountersInv

LEMMA InitTallied == Init => TallyInv
BY DEF Init, TallyInv, CountInv, FreshInv

LEMMA BrowserStarts == BrowserInit => TypeInv /\ TallyInv /\ BrowserTypeOK /\ InStore = {}
BY InitTyped, InitTallied DEF BrowserInit, BrowserTypeOK, InStore, IsStored

LEMMA PageStarts == PageInit => PageInv
<1> SUFFICES ASSUME PageInit PROVE PageInv
  OBVIOUS
<1>1. TypeInv /\ TallyInv /\ BrowserTypeOK /\ InStore = {}
  BY BrowserStarts DEF PageInit
<1>2. Closed \in Page /\ NoClick \in Click /\ Closed.state = "closed" /\ NoClick.state = "none"
  BY DEF Closed, Page, NoClick, Click
<1>3. PageTypeOK
  BY <1>1, <1>2 DEF PageInit, PageTypeOK
<1>4. PageOK
  BY <1>2 DEF PageInit, PageOK
<1>5. ServiceOK
  <2>1. \A w \in Workers : serving[w] = NoConnection
    BY DEF PageInit, BrowserInit
  <2>2. ASSUME NEW k \in Connections PROVE ClickOK(k)
    BY <1>1, <1>2 DEF PageInit, ClickOK, InStore
  <2> QED BY <2>1, <2>2 DEF ServiceOK
<1>6. ChainInv /\ CountersInv
  BY <1>2 DEF PageInit, ChainInv, CountersInv
<1> QED BY <1>1, <1>3, <1>4, <1>5, <1>6 DEF PageInv, PageCore, PageTyped

LEMMA PageStays == PageInv /\ [PageNext]_allVars => PageInv'
<1> SUFFICES ASSUME PageInv, [PageNext]_allVars PROVE PageInv'
  OBVIOUS
<1>1. [AnyNext]_vars
  BY PageStepTaken DEF PageInv, PageCore
<1>2. TypeInv' /\ TallyInv'
  BY <1>1, NextTyped, NextTallied DEF PageInv, PageCore, PageTyped
<1>3. PageTypeOK' /\ PageOK' /\ ServiceOK'
  BY PageStepTyped, PageOKKept, ServiceStays DEF PageInv, PageCore
<1> QED BY <1>2, <1>3, ChainStays, CountersStay DEF PageInv, PageCore, PageTyped

LEMMA PageInvAgrees == PageInv => PageTypeOK /\ PageAgrees
<1> SUFFICES ASSUME PageInv PROVE PageAgrees
  BY DEF PageInv, PageCore, PageTyped
<1> SUFFICES ASSUME page.state = "open", InFlight = {}, "vote" \notin estranged
             PROVE  /\ page.status = votes[Shown][Me]
                    /\ "counters" \notin estranged /\ Shown \notin torn =>
                         page.like = Votes(Shown, 1) /\ page.unlike = Votes(Shown, -1)
  BY DEF PageAgrees
<1>1. InStore = {}
  BY DEF PageInv, PageCore, ServiceOK, ClickOK, InStore, InFlight
<1>2. page.status = votes[Shown][Me]
  BY <1>1 DEF PageInv, ChainInv, Chained, Chain
<1>3. ASSUME "counters" \notin estranged, Shown \notin torn
      PROVE  page.like = Votes(Shown, 1) /\ page.unlike = Votes(Shown, -1)
  <2>1. page.like = Others(1) + Own(1) /\ page.unlike = Others(-1) + Own(-1)
    BY <1>3 DEF PageInv, CountersInv
  <2> QED BY <1>2, <2>1, OthersAndMe DEF Own
<1> QED BY <1>2, <1>3

LEMMA PageInvHolds == PageSpec => []PageInv
BY PageStarts, PageStays, PTL DEF PageSpec

\* Whatever is answered, lost or served elsewhere, the page of an entry keeps a vote of -1, 0
\* or 1 and whole numbers (new.html:58), and a connection has at most one vote in flight.
THEOREM PageTypeCorrect == PageSpec => []PageTypeOK
BY PageInvHolds, PageInvAgrees, PTL

\* The page that toggles its vote at every answer (new.html:58) and the server that toggles
\* the stored one (news_mgr.cpp:133) agree whenever no click is in flight, with the exceptions
\* that PageAgrees names: for any number of users, connections and requests elsewhere.
THEOREM PageFollows == PageSpec => []PageAgrees
BY PageInvHolds, PageInvAgrees, PTL

-----------------------------------------------------------------------------
(* The page that edits an entry: what is in flight, and who serves it.     *)

USE EditAssumption

\* Nothing is in flight but from an open page, and the page is about an entry.
EditOK ==
  /\ editor.state # "closed" => Shown \in Issued
  /\ editor.state = "asked" => ~editor.dirty
  /\ ~Open => \A k \in Connections : post[k] = NoPost
\* The worker of a request is where the request's kind leads it.
ServedPost(w) ==
  LET k == serving[w] IN
  /\ post[k].state = "served"
  /\ post[k].kind = "status" => At(w, "publish")
  /\ Saves(k) => At(w, "content") /\ carries[w] = post[k].text.content
  /\ post[k].kind = "remove" => job[w].pc \in {"hide", "comments"}
  /\ post[k].kind = "delete" => job[w].pc \in {"likes", "row"}
\* Stored are the saves and publications that are answered and not delivered.
PostOK(k) ==
  /\ post[k].state = "none" => post[k] = NoPost
  /\ post[k].state = "served" => \E w \in Workers : serving[w] = k
  /\ IsStored(k) <=> post[k].state = "ok" /\ post[k].kind \in {"save", "publish", "status"}
  /\ IsStored(k) => k \in stored[k]
AboutShown == \A w \in Workers : ~At(w, "idle") => job[w].code = Shown
PostsOK ==
  /\ \A w \in Workers : serving[w] # NoConnection => ServedPost(w)
  /\ \A v, w \in Workers : serving[v] = serving[w] /\ serving[w] # NoConnection => v = w
  /\ \A k \in Connections : PostOK(k)
EditTyped == TypeInv /\ EditTypeOK /\ EditOK
EditCore == EditTyped /\ AboutShown /\ PostsOK

LEMMA PostedOpen ==
  ASSUME EditTyped, NEW k \in Connections, post[k].state # "none"
  PROVE  Open /\ editor.state = "open" /\ Shown \in Issued /\ post[k] \in Post
<1>1. post[k] # NoPost
  BY DEF NoPost
<1>2. Open
  BY <1>1 DEF EditTyped, EditOK
<1>3. editor.state = "open"
  BY <1>2 DEF Open
<1> QED BY <1>2, <1>3 DEF EditTyped, EditTypeOK, EditOK

LEMMA ServedPosted ==
  ASSUME EditCore, NEW w \in Workers, serving[w] # NoConnection
  PROVE  /\ serving[w] \in Connections /\ ServedPost(w) /\ post[serving[w]].state = "served"
         /\ post[serving[w]] \in Post /\ editor.state = "open" /\ Shown \in Issued
         /\ ~At(w, "idle") /\ job[w].code = Shown
<1>1. serving[w] \in Connections /\ ServedPost(w) /\ post[serving[w]].state = "served"
  BY DEF EditCore, EditTyped, EditTypeOK, BrowserTypeOK, PostsOK, ServedPost
<1>2. post[serving[w]] \in Post /\ editor.state = "open" /\ Shown \in Issued
  BY <1>1, PostedOpen DEF EditCore
<1>3. ~At(w, "idle")
  BY <1>1, <1>2 DEF ServedPost, Post, Kinds, Saves, At
<1> QED BY <1>1, <1>2, <1>3 DEF EditCore, AboutShown

\* What the server does for the page are statements of the news.
LEMMA ServePostTakes ==
  ASSUME EditTyped, NEW w \in Workers, NEW k \in Connections, ServePost(w, k)
  PROVE  AnyStatement(w)
<1>1. Shown \in Issued /\ At(w, "idle")
  BY PostedOpen DEF ServePost
<1>2. CASE \E named \in BOOLEAN : StoreInfo(w, Shown, named)
  BY <1>1, <1>2 DEF AnyStatement, TakeSave
<1>3. CASE BeginPublish(w, Shown) \/ BeginRemove(w, Shown) \/ BeginDelete(w, Shown)
  BY <1>1, <1>3 DEF AnyStatement, TakePublish, TakeRemove, TakeDelete
<1>4. StoreInfo(w, Shown, post[k].text.info \notin Nameless) => \E named \in BOOLEAN : StoreInfo(w, Shown, named)
  BY Zenon
<1> QED BY <1>2, <1>3, <1>4 DEF ServePost

LEMMA ContentTakes ==
  ASSUME NEW w \in Workers, WritesContent(w) \/ LosesContent(w) PROVE AnyStatement(w)
BY DEF WritesContent, LosesContent, AnyStatement, SaveContent

LEMMA ServeEditTakes == ASSUME NEW w \in Workers, ServeEdit(w) PROVE AnyStatement(w)
<1>1. At(w, "publish") /\ (WriteStatus(w, 3) \/ Fails(w)) => AnyStatement(w)
  BY DEF AnyStatement, Publish
<1>2. Hide(w) \/ DeleteLikes(w) \/ DeleteRow(w) => AnyStatement(w)
  BY DEF AnyStatement
<1> QED BY <1>1, <1>2, ContentTakes DEF ServeEdit

LEMMA ElsewhereEditTakes == ASSUME NEW w \in Workers, ElsewhereEdit(w) PROVE AnyStatement(w)
BY ContentTakes DEF ElsewhereEdit, AnyStatement

LEMMA EditStepFrame ==
  ASSUME EditTyped, EditNext
  PROVE  UNCHANGED vars \/ Restart \/ \E w \in Workers : AnyStatement(w)
<1>1. AskEditor \/ LoadEditor \/ TypeText \/ LeaveEditor => UNCHANGED vars
  BY DEF AskEditor, LoadEditor, TypeText, LeaveEditor
<1>2. ASSUME NEW k \in Connections
      PROVE  ClickSave(k) \/ ClickPublish(k) \/ ClickRemove(k) \/ ClickBack(k) \/ RefusePost(k)
               \/ DeliverAnswer(k) \/ PostFails(k) => UNCHANGED vars
  BY DEF ClickSave, ClickPublish, ClickRemove, ClickBack, Send, RefusePost, DeliverAnswer, PostFails
<1>3. RestartEdit => Restart
  BY DEF RestartEdit
<1> QED BY <1>1, <1>2, <1>3, ServePostTakes, ServeEditTakes, ElsewhereEditTakes DEF EditNext

LEMMA EditStepTaken == EditTyped /\ [EditNext]_allEditVars => [AnyNext]_vars
BY EditStepFrame DEF AnyNext, allEditVars, vars

LEMMA PostTyped ==
  ASSUME EditTypeOK, NEW k \in Connections, NEW state \in {"none", "sent", "served", "ok", "failed"},
         SetPost(k, state)
  PROVE  /\ post' \in [Connections -> Post]
         /\ post'[k].state = state /\ post'[k].kind = post[k].kind /\ post'[k].text = post[k].text
         /\ \A c \in Connections \ {k} : post'[c] = post[c]
<1>1. post[k] \in Post /\ post \in [Connections -> Post] /\ post' = [post EXCEPT ![k].state = state]
  BY DEF EditTypeOK, SetPost
<1>2. [post[k] EXCEPT !.state = state] \in Post
  BY <1>1 DEF Post
<1> QED BY <1>1, <1>2 DEF Post

LEMMA NoPostTyped == NoPost \in Post /\ Blank \in Text /\ ClosedEditor \in Editor
BY DEF NoPost, Post, Kinds, Text, Texts, Blank, ClosedEditor, Editor

LEMMA StrayTyped ==
  ASSUME EditTypeOK, NEW things \in SUBSET {"status", "text", "draft"}, NEW condition,
         Stray(things, condition)
  PROVE  strayed' \subseteq {"status", "text", "draft"} /\ strayed \subseteq strayed'
BY DEF EditTypeOK, Stray

LEMMA UnheardTyped == ASSUME NEW k PROVE Unheard(k) \subseteq {"status", "text", "draft"}
BY DEF Unheard

\* A request is answered with its last statement.
LEMMA AnswerTyped ==
  ASSUME EditTypeOK, NEW w \in Workers, NEW k \in Connections, k = serving[w],
         Effect(w) \/ Failure(w)
           \/ (SetPost(k, "ok") /\ Serves(w, NoConnection) /\ UNCHANGED stored)
  PROVE  post' \in [Connections -> Post] /\ BrowserTypeOK'
<1>1. post' \in [Connections -> Post]
  BY PostTyped DEF Effect, Failure
<1>2. serving' \in [Workers -> Connections \cup {NoConnection}]
  BY ServesTyped DEF Effect, Failure, EditTypeOK
<1>3. BrowserTypeOK'
  BY <1>2, StoredTyped DEF Effect, Failure, EditTypeOK, BrowserTypeOK
<1> QED BY <1>1, <1>3

LEMMA ServePostTyped ==
  ASSUME EditTyped, NEW w \in Workers, NEW k \in Connections, ServePost(w, k)
  PROVE  EditTypeOK'
<1>t. EditTypeOK /\ post[k] \in Post /\ post[k].text \in Text
  BY DEF EditTyped, EditTypeOK, Post
<1>1. post' \in [Connections -> Post]
  BY <1>t, PostTyped DEF ServePost
<1>2. BrowserTypeOK'
  BY <1>t, ServesTyped DEF ServePost, EditTypeOK, BrowserTypeOK
<1>3. kept' \in Text /\ carries' \in [Workers -> Texts]
  <2>1. CASE UNCHANGED <<kept, carries>>
    BY <2>1, <1>t DEF EditTypeOK
  <2>2. CASE /\ kept' = [kept EXCEPT !.info = IF Exists(Shown) THEN post[k].text.info ELSE @]
             /\ carries' = [carries EXCEPT ![w] = post[k].text.content]
    BY <2>2, <1>t DEF EditTypeOK, Text
  <2> QED BY <2>1, <2>2 DEF ServePost
<1>4. strayed' \subseteq {"status", "text", "draft"}
  BY <1>t, StrayTyped DEF ServePost
<1> QED BY <1>1, <1>2, <1>3, <1>4, <1>t DEF ServePost, EditTypeOK

LEMMA ContentTyped ==
  ASSUME EditTypeOK, NEW w \in Workers, WritesContent(w) \/ LosesContent(w)
  PROVE  kept' \in Text /\ carries' \in [Workers -> Texts]
<1>1. kept \in Text /\ carries \in [Workers -> Texts] /\ 0 \in Texts
  BY DEF EditTypeOK, Texts
<1>2. kept' = [kept EXCEPT !.content = IF Exists(Shown) THEN carries[w] ELSE @] \/ kept' = kept
  BY DEF WritesContent, LosesContent
<1>3. carries' = [carries EXCEPT ![w] = 0]
  BY DEF WritesContent, LosesContent
<1> QED BY <1>1, <1>2, <1>3 DEF Text

LEMMA ServeEditTyped ==
  ASSUME EditTyped, NEW w \in Workers, ServeEdit(w) PROVE EditTypeOK'
<1>t. EditTypeOK /\ UNCHANGED <<editor, typed>>
  BY DEF EditTyped, ServeEdit
<1>k. PICK k \in Connections : k = serving[w]
  BY <1>t DEF ServeEdit, EditTypeOK, BrowserTypeOK
<1>1. post' \in [Connections -> Post] /\ BrowserTypeOK'
  <2>1. CASE UNCHANGED <<post, serving, stored>>
    BY <2>1, <1>t DEF EditTypeOK, BrowserTypeOK
  <2> QED BY <2>1, <1>t, <1>k, AnswerTyped DEF ServeEdit
<1>2. kept' \in Text /\ carries' \in [Workers -> Texts]
  <2>1. CASE UNCHANGED <<kept, carries>>
    BY <2>1, <1>t DEF EditTypeOK
  <2> QED BY <2>1, <1>t, ContentTyped DEF ServeEdit
<1>3. strayed' \subseteq {"status", "text", "draft"}
  <2>1. CASE UNCHANGED strayed
    BY <2>1, <1>t DEF EditTypeOK
  <2>2. CASE Stray(Unheard(serving[w]), TRUE)
    BY <2>2, <1>t, StrayTyped, UnheardTyped
  <2> QED BY <2>1, <2>2 DEF ServeEdit, Effect, NothingStrays
<1> QED BY <1>1, <1>2, <1>3, <1>t DEF EditTypeOK

LEMMA CloseTyped ==
  ASSUME EditTypeOK, CloseEditor
  PROVE  post' \in [Connections -> Post] /\ editor' \in Editor /\ BrowserTypeOK'
BY NoPostTyped, DisconnectTyped DEF CloseEditor, EditTypeOK

LEMMA SavedTyped ==
  ASSUME NEW e \in Editor, NEW kind
  PROVE  /\ Saved(e, kind) \in Editor /\ Saved(e, kind).state = e.state
         /\ Saved(e, kind).status = StatusAfter(kind) /\ Saved(e, kind).text = e.text
         /\ ~Saved(e, kind).dirty
<1>1. PICK s \in 0..3 : s = StatusAfter(kind)
  BY DEF StatusAfter
<1>2. Saved(e, kind) = [e EXCEPT !.status = s, !.dirty = FALSE]
  BY <1>1 DEF Saved
<1>3. DOMAIN e = {"state", "status", "dirty", "text"}
  BY DEF Editor
<1>4. Saved(e, kind) \in Editor
  BY <1>2 DEF Editor
<1> QED BY <1>1, <1>2, <1>3, <1>4

LEMMA DeliverAnswerTyped ==
  ASSUME EditTyped, NEW k \in Connections, DeliverAnswer(k) PROVE EditTypeOK'
<1>t. EditTypeOK /\ post[k] \in Post /\ UNCHANGED <<typed, kept, carries>>
  BY DEF EditTyped, EditTypeOK, DeliverAnswer
<1>1. CASE post[k].state = "ok" /\ editor' = Saved(editor, post[k].kind)
           /\ post' = [post EXCEPT ![k] = NoPost]
           /\ strayed' = strayed \cup {s \in {"status", "text"} : Overtakes(k)}
                                 \cup {s \in {"text"} : Outdated(k)}
           /\ Delivered(k) /\ UNCHANGED serving
  <2>1. BrowserTypeOK'
    BY <1>1, <1>t, ForgottenTyped DEF Delivered, EditTypeOK, BrowserTypeOK
  <2>2. editor' \in Editor /\ post' \in [Connections -> Post]
    BY <1>1, <1>t, SavedTyped, NoPostTyped DEF EditTypeOK
  <2> QED BY <2>1, <2>2, <1>1, <1>t DEF EditTypeOK
<1>2. CASE post[k].state = "ok" /\ post' = [post EXCEPT ![k].kind = "status", ![k].state = "sent"]
           /\ Stray({"text"}, Outdated(k)) /\ Delivered(k) /\ UNCHANGED <<serving, editor>>
  <2>1. BrowserTypeOK'
    BY <1>2, <1>t, ForgottenTyped DEF Delivered, EditTypeOK, BrowserTypeOK
  <2>2. [post[k] EXCEPT !.kind = "status", !.state = "sent"] \in Post
    BY <1>t DEF Post, Kinds
  <2>3. post' \in [Connections -> Post]
    BY <1>2, <1>t, <2>2 DEF EditTypeOK
  <2>4. strayed' \subseteq {"status", "text", "draft"}
    BY <1>2, <1>t, StrayTyped
  <2> QED BY <2>1, <2>3, <2>4, <1>2, <1>t DEF EditTypeOK
<1>3. CASE post' = [post EXCEPT ![k] = NoPost] /\ Stray(Unheard(k), TRUE) /\ UNCHANGED <<browserVars, editor>>
  <2>1. strayed' \subseteq {"status", "text", "draft"}
    BY <1>3, <1>t, StrayTyped, UnheardTyped
  <2> QED BY <2>1, <1>3, <1>t, NoPostTyped DEF EditTypeOK, browserVars, BrowserTypeOK
<1>4. CASE CloseEditor /\ NothingStrays
  BY <1>4, <1>t, CloseTyped DEF EditTypeOK, NothingStrays
<1> QED BY <1>1, <1>2, <1>3, <1>4 DEF DeliverAnswer

LEMMA SendTyped ==
  ASSUME EditTyped, NEW k \in Connections, NEW kind \in Kinds, Send(k, kind)
  PROVE  /\ EditTypeOK' /\ post'[k] = [state |-> "sent", kind |-> kind, text |-> editor.text]
         /\ \A c \in Connections \ {k} : post'[c] = post[c]
<1>t. EditTypeOK /\ editor.text \in Text
  BY DEF EditTyped, EditTypeOK, Editor
<1>1. [state |-> "sent", kind |-> kind, text |-> editor.text] \in Post
  BY <1>t DEF Post
<1>2. strayed' \subseteq {"status", "text", "draft"}
  BY <1>t, StrayTyped DEF Send
<1>3. BrowserTypeOK'
  BY <1>t DEF Send, browserVars, EditTypeOK, BrowserTypeOK
<1> QED BY <1>1, <1>2, <1>3, <1>t DEF Send, EditTypeOK

LEMMA EditStepTyped == EditTyped /\ [EditNext]_allEditVars => EditTypeOK'
<1> SUFFICES ASSUME EditTyped, [EditNext]_allEditVars PROVE EditTypeOK'
  OBVIOUS
<1>t. EditTypeOK
  BY DEF EditTyped
<1>0. CASE UNCHANGED allEditVars
  BY <1>0, <1>t DEF allEditVars, browserVars, editVars, EditTypeOK, BrowserTypeOK
<1>1. CASE AskEditor
  <2>1. news[Shown].status \in 0..3
    BY <1>1 DEF AskEditor, Visible, Exists, EditTyped, TypeInv, RowsOK, Entry
  <2>2. editor' \in Editor
    BY <1>1, <1>t, <2>1 DEF AskEditor, EditTypeOK, Editor
  <2> QED BY <1>1, <1>t, <2>2 DEF AskEditor, EditTypeOK, browserVars, BrowserTypeOK
<1>2. CASE LoadEditor
  <2>1. editor' \in Editor
    BY <1>2, <1>t DEF LoadEditor, EditTypeOK, Editor
  <2> QED BY <1>2, <1>t, <2>1 DEF LoadEditor, EditTypeOK, browserVars, BrowserTypeOK
<1>3. CASE TypeText
  <2>1. editor' \in Editor /\ typed' \in Texts
    <3>1. CASE /\ typed < MaxTexts /\ typed' = typed + 1
               /\ editor' = [editor EXCEPT !.text = [info |-> typed', content |-> typed'], !.dirty = TRUE]
      <4>1. typed' \in Texts
        BY <3>1, <1>t DEF EditTypeOK, Texts
      <4>2. [info |-> typed', content |-> typed'] \in Text
        BY <4>1 DEF Text
      <4> QED BY <3>1, <1>t, <4>1, <4>2 DEF EditTypeOK, Editor
    <3>2. CASE editor' = [editor EXCEPT !.dirty = TRUE] /\ UNCHANGED typed
      BY <3>2, <1>t DEF EditTypeOK, Editor
    <3> QED BY <1>3, <3>1, <3>2 DEF TypeText
  <2> QED BY <1>3, <1>t, <2>1 DEF TypeText, EditTypeOK, browserVars, BrowserTypeOK
<1>4. ASSUME NEW k \in Connections, ClickSave(k) \/ ClickPublish(k) \/ ClickRemove(k) \/ ClickBack(k)
      PROVE  EditTypeOK'
  BY <1>4, SendTyped DEF ClickSave, ClickPublish, ClickRemove, ClickBack, Kinds
<1>5. ASSUME NEW k \in Connections, RefusePost(k) PROVE EditTypeOK'
  BY <1>5, <1>t, PostTyped DEF RefusePost, EditTypeOK, browserVars, BrowserTypeOK
<1>6. ASSUME NEW k \in Connections, PostFails(k) PROVE EditTypeOK'
  <2>1. BrowserTypeOK' /\ strayed' \subseteq {"status", "text", "draft"}
    BY <1>6, <1>t, DisconnectTyped, StrayTyped, UnheardTyped DEF PostFails, EditTypeOK
  <2> QED BY <1>6, <1>t, <2>1, NoPostTyped DEF PostFails, EditTypeOK
<1>7. CASE LeaveEditor
  BY <1>7, <1>t, CloseTyped DEF LeaveEditor, EditTypeOK
<1>8. ASSUME NEW w \in Workers, ElsewhereEdit(w) PROVE EditTypeOK'
  <2>1. kept' \in Text /\ carries' \in [Workers -> Texts]
    BY <1>8, <1>t, ContentTyped DEF ElsewhereEdit, EditTypeOK
  <2>2. strayed' \subseteq {"status", "text", "draft"}
    BY <1>8, <1>t, StrayTyped DEF ElsewhereEdit
  <2> QED BY <1>8, <1>t, <2>1, <2>2 DEF ElsewhereEdit, EditTypeOK, browserVars, BrowserTypeOK
<1>9. CASE RestartEdit
  <2>1. PICK K \in SUBSET Connections :
          /\ Disconnect(K)
          /\ post' = [k \in Connections |-> IF k \in K THEN NoPost ELSE post[k]]
          /\ strayed' = strayed \cup {s \in {"status"} : news' # news} \cup UNION {Unheard(k) : k \in K}
    BY <1>9 DEF RestartEdit
  <2>2. BrowserTypeOK'
    BY <2>1, <1>t, DisconnectTyped DEF EditTypeOK
  <2>3. strayed' \subseteq {"status", "text", "draft"}
    <3>1. UNION {Unheard(k) : k \in K} \subseteq {"status", "text", "draft"}
      BY UnheardTyped
    <3> QED BY <2>1, <3>1, <1>t DEF EditTypeOK
  <2>4. carries' \in [Workers -> Texts]
    BY <1>9 DEF RestartEdit, Texts
  <2> QED BY <1>9, <1>t, <2>1, <2>2, <2>3, <2>4, NoPostTyped DEF RestartEdit, EditTypeOK
<1> QED
  BY <1>0, <1>1, <1>2, <1>3, <1>4, <1>5, <1>6, <1>7, <1>8, <1>9, ServePostTyped, ServeEditTyped,
     DeliverAnswerTyped
  DEF EditNext

\* A statement that ends a request leaves its worker idle.
LEMMA AnswerIdles ==
  ASSUME TypeInv, NEW w \in Workers, Answer(w)
  PROVE  At(w, "idle")' /\ \A v \in Workers \ {w} : job'[v] = job[v]
BY DEF TypeInv, JobsOK, Answer, Become, NoJob, At

LEMMA GotoKeeps ==
  ASSUME TypeInv, NEW w \in Workers, NEW pc \in Points, Goto(w, pc)
  PROVE  /\ job'[w].pc = pc /\ job'[w].code = job[w].code /\ job'[w].user = job[w].user
         /\ \A v \in Workers \ {w} : job'[v] = job[v]
<1>1. job[w] \in Job /\ job' = [job EXCEPT ![w] = [job[w] EXCEPT !.pc = pc]] /\ w \in DOMAIN job
  BY DEF TypeInv, JobsOK, Goto, Become
<1> QED BY <1>1 DEF Job

\* What the statements of a request of the page do to the worker.
Jumps(w, pc) ==
  job'[w].pc = pc /\ job'[w].code = Shown /\ \A v \in Workers \ {w} : job'[v] = job[v]

LEMMA ServePostJumps ==
  ASSUME TypeInv, NEW w \in Workers, NEW k \in Connections, ServePost(w, k), post[k] \in Post
  PROVE  /\ Saves(k) => Jumps(w, "content")
         /\ post[k].kind = "status" => Jumps(w, "publish")
         /\ post[k].kind = "remove" => Jumps(w, "hide") \/ Jumps(w, "comments")
         /\ post[k].kind = "delete" => Jumps(w, "likes")
<1>j. w \in DOMAIN job
  BY DEF TypeInv, JobsOK
<1>1. ASSUME NEW named, StoreInfo(w, Shown, named) PROVE Jumps(w, "content")
  BY <1>1, <1>j DEF StoreInfo, Become, NoJob, Jumps, TypeInv, JobsOK
<1>2. ASSUME BeginPublish(w, Shown) PROVE Jumps(w, "publish")
  BY <1>2, <1>j DEF BeginPublish, Become, NoJob, Jumps, TypeInv, JobsOK
<1>3. ASSUME BeginRemove(w, Shown) PROVE Jumps(w, "hide") \/ Jumps(w, "comments")
  <2>1. PICK p, pc : /\ Become(w, [NoJob EXCEPT !.pc = pc, !.code = Shown, !.parent = p])
                     /\ pc \in {"hide", "comments"}
    BY <1>3 DEF BeginRemove
  <2> QED BY <2>1, <1>j DEF Become, NoJob, Jumps, TypeInv, JobsOK
<1>4. ASSUME BeginDelete(w, Shown) PROVE Jumps(w, "likes")
  BY <1>4, <1>j DEF BeginDelete, Become, NoJob, Jumps, TypeInv, JobsOK
<1>5. ASSUME Saves(k) PROVE Jumps(w, "content")
  <2>1. StoreInfo(w, Shown, post[k].text.info \notin Nameless)
    BY <1>5 DEF ServePost, Saves
  <2>2. \E named : StoreInfo(w, Shown, named)
    BY <2>1, Zenon
  <2> QED BY <2>2, <1>1
<1> QED BY <1>2, <1>3, <1>4, <1>5 DEF ServePost, Saves

\* A statement served for the page either is the last one, or goes on with the deletion.
LEMMA ServeEditJumps ==
  ASSUME TypeInv, NEW w \in Workers, ServeEdit(w), job[w].code = Shown
  PROVE  /\ \A v \in Workers \ {w} : job'[v] = job[v]
         /\ At(w, "idle")' \/ (job'[w].pc = "row" /\ job'[w].code = Shown /\ DeleteLikes(w))
<1>1. CASE Answer(w)
  BY <1>1, AnswerIdles
<1>2. CASE DeleteLikes(w)
  BY <1>2, GotoKeeps DEF DeleteLikes, Points
<1> QED
  BY <1>1, <1>2
  DEF ServeEdit, WritesContent, LosesContent, WriteStatus, Fails, Hide, DeleteRow

LEMMA ElsewhereJumps ==
  ASSUME TypeInv, NEW w \in Workers, ElsewhereEdit(w)
  PROVE  /\ \A v \in Workers \ {w} : job'[v] = job[v]
         /\ \/ job'[w] = job[w]
            \/ At(w, "idle")'
            \/ ~At(w, "idle") /\ job'[w].code = job[w].code
<1>1. CASE Answer(w)
  BY <1>1, AnswerIdles
<1>2. CASE DeleteLikes(w)
  BY <1>2, GotoKeeps DEF DeleteLikes, Points, At
<1>3. CASE CreateNew(w)
  BY <1>3 DEF CreateNew
<1> QED
  BY <1>1, <1>2, <1>3
  DEF ElsewhereEdit, WritesContent, LosesContent, WriteStatus, Fails, Publish, Hide, DeleteRow

LEMMA ShownStays == EditCore /\ [EditNext]_allEditVars => AboutShown'
<1> SUFFICES ASSUME EditCore, [EditNext]_allEditVars PROVE AboutShown'
  OBVIOUS
<1>t. EditTyped /\ TypeInv /\ AboutShown /\ post \in [Connections -> Post]
  BY DEF EditCore, EditTyped, EditTypeOK
<1>0. ASSUME job' = job PROVE AboutShown'
  BY <1>0, <1>t DEF AboutShown, At
<1>1. ASSUME NEW w \in Workers, NEW k \in Connections, ServePost(w, k) PROVE AboutShown'
  <2>1. \E pc : Jumps(w, pc)
    BY <1>1, <1>t, ServePostJumps DEF Saves, Post, Kinds
  <2> QED BY <2>1, <1>t DEF AboutShown, Jumps, At
<1>2. ASSUME NEW w \in Workers, ServeEdit(w) PROVE AboutShown'
  <2>1. job[w].code = Shown
    BY <1>2, ServedPosted DEF ServeEdit
  <2> QED BY <2>1, <1>2, <1>t, ServeEditJumps DEF AboutShown, At
<1>3. ASSUME NEW w \in Workers, ElsewhereEdit(w) PROVE AboutShown'
  BY <1>3, <1>t, ElsewhereJumps DEF AboutShown, At
<1>4. CASE RestartEdit
  BY <1>4 DEF RestartEdit, Restart, AboutShown, At, NoJob
<1>5. CASE UNCHANGED allEditVars \/ AskEditor \/ LoadEditor \/ TypeText \/ LeaveEditor
  BY <1>5, <1>0 DEF allEditVars, vars, AskEditor, LoadEditor, TypeText, LeaveEditor
<1>6. ASSUME NEW k \in Connections,
             ClickSave(k) \/ ClickPublish(k) \/ ClickRemove(k) \/ ClickBack(k) \/ RefusePost(k)
               \/ DeliverAnswer(k) \/ PostFails(k)
      PROVE  AboutShown'
  BY <1>6, <1>0
  DEF ClickSave, ClickPublish, ClickRemove, ClickBack, Send, RefusePost, DeliverAnswer, PostFails, vars
<1> QED BY <1>1, <1>2, <1>3, <1>4, <1>5, <1>6 DEF EditNext

LEMMA EditOKKept == EditCore /\ [EditNext]_allEditVars => EditOK'
<1> SUFFICES ASSUME EditCore, [EditNext]_allEditVars PROVE EditOK'
  OBVIOUS
<1>t. EditTyped /\ EditTypeOK /\ EditOK
  BY DEF EditCore, EditTyped
<1>i. Issued \subseteq Issued'
  BY <1>t, EditStepTaken, IssuedStay DEF EditTyped
<1>a. ASSUME editor' = editor, ~Open => \A k \in Connections : post'[k] = post[k] PROVE EditOK'
  BY <1>a, <1>t, <1>i DEF EditOK, Open
<1>b. ASSUME editor'.state = "open", editor.state = "open" PROVE EditOK'
  BY <1>b, <1>t, <1>i DEF EditOK, Open
<1>c. ASSUME CloseEditor PROVE EditOK'
  BY <1>c DEF CloseEditor, EditOK, ClosedEditor
<1>0. CASE UNCHANGED allEditVars
  BY <1>0, <1>a DEF allEditVars, editVars
<1>1. CASE AskEditor
  <2>1. Shown \in Issued
    BY <1>1 DEF AskEditor, Visible, Exists, EditCore, EditTyped, TypeInv, RowsOK
  <2>2. \A k \in Connections : post'[k] = NoPost
    BY <1>1, <1>t DEF AskEditor, EditOK, Open
  <2>3. ~editor'.dirty
    BY <1>1 DEF AskEditor
  <2> QED BY <1>i, <2>1, <2>2, <2>3 DEF EditOK
<1>2. CASE LoadEditor
  <2>1. editor'.state = "open"
    BY <1>2, <1>t DEF LoadEditor, EditTypeOK, Editor
  <2> QED BY <1>2, <1>t, <1>i, <2>1 DEF LoadEditor, EditOK, Open
<1>3. CASE TypeText
  <2>1. editor'.state = "open" /\ editor.state = "open"
    BY <1>3, <1>t DEF TypeText, EditTypeOK, Editor, Open
  <2> QED BY <2>1, <1>b
<1>4. ASSUME NEW k \in Connections, ClickSave(k) \/ ClickPublish(k) \/ ClickRemove(k) \/ ClickBack(k)
      PROVE  EditOK'
  BY <1>4, <1>a DEF ClickSave, ClickPublish, ClickRemove, ClickBack, Send
<1>p. ASSUME NEW k \in Connections, post[k].state # "none", editor' = editor PROVE EditOK'
  BY <1>p, <1>t, <1>a, PostedOpen
<1>5. ASSUME NEW k \in Connections, RefusePost(k) \/ PostFails(k) PROVE EditOK'
  BY <1>5, <1>p DEF RefusePost, PostFails
<1>6. ASSUME NEW k \in Connections, DeliverAnswer(k) PROVE EditOK'
  <2>1. post[k].state # "none"
    BY <1>6 DEF DeliverAnswer
  <2>2. CASE editor' = Saved(editor, post[k].kind)
    BY <2>1, <2>2, <1>b, <1>t, PostedOpen, SavedTyped DEF EditTypeOK
  <2>3. CASE UNCHANGED editor
    BY <2>1, <2>3, <1>p
  <2> QED BY <2>2, <2>3, <1>6, <1>c DEF DeliverAnswer
<1>7. CASE LeaveEditor
  BY <1>7, <1>c DEF LeaveEditor
<1>8. ASSUME NEW w \in Workers, ElsewhereEdit(w) PROVE EditOK'
  BY <1>8, <1>a DEF ElsewhereEdit
<1>9. CASE RestartEdit
  <2>1. ~Open => \A k \in Connections : post'[k] = post[k]
    BY <1>9, <1>t DEF RestartEdit, EditOK
  <2> QED BY <1>9, <2>1, <1>a DEF RestartEdit
<1>10. ASSUME NEW w \in Workers, ServeEdit(w) PROVE EditOK'
  <2>1. Open
    BY <1>10, ServedPosted DEF ServeEdit, Open
  <2> QED BY <1>10, <2>1, <1>a DEF ServeEdit
<1>11. ASSUME NEW w \in Workers, NEW k \in Connections, ServePost(w, k) PROVE EditOK'
  BY <1>11, <1>p DEF ServePost
<1> QED
  BY <1>0, <1>1, <1>2, <1>3, <1>4, <1>5, <1>6, <1>7, <1>8, <1>9, <1>10, <1>11 DEF EditNext

\* The requests on the connections K, and the workers that serve them, are looked at; the
\* others are as before.
Untouched(w) == serving'[w] = serving[w] /\ job'[w] = job[w] /\ carries'[w] = carries[w]
PostKept(k) ==
  /\ post'[k] = post[k]
  /\ stored'[k] = {} <=> stored[k] = {}
  /\ stored'[k] # {} => k \in stored'[k]
LEMMA PostsKept ==
  ASSUME PostsOK, BrowserTypeOK, BrowserTypeOK', NEW K \in SUBSET Connections,
         \A w \in Workers : serving[w] \in Connections \ K => Untouched(w),
         \A w \in Workers : serving'[w] \in Connections \ K => serving[w] = serving'[w],
         \A w \in Workers : serving'[w] \in K => ServedPost(w)',
         \A v, w \in Workers : serving'[v] \in K /\ serving'[w] = serving'[v] => v = w,
         \A k \in K : PostOK(k)',
         \A k \in Connections \ K : PostKept(k)
  PROVE  PostsOK'
<1>t. \A w \in Workers : /\ serving[w] # NoConnection => serving[w] \in Connections
                         /\ serving'[w] # NoConnection => serving'[w] \in Connections
  BY DEF BrowserTypeOK
<1>1. ASSUME NEW w \in Workers, serving'[w] # NoConnection PROVE ServedPost(w)'
  <2>1. CASE serving'[w] \in K
    BY <2>1
  <2>2. CASE serving'[w] \notin K
    <3>1. /\ serving'[w] = serving[w] /\ job'[w] = job[w] /\ carries'[w] = carries[w]
          /\ post'[serving[w]] = post[serving[w]] /\ serving[w] # NoConnection
      BY <1>1, <2>2, <1>t DEF Untouched, PostKept
    <3>2. ServedPost(w)
      BY <3>1 DEF PostsOK
    <3> QED BY <3>1, <3>2 DEF ServedPost, Saves, At
  <2> QED BY <2>1, <2>2
<1>2. ASSUME NEW v \in Workers, NEW w \in Workers, serving'[v] = serving'[w], serving'[w] # NoConnection
      PROVE  v = w
  <2>1. CASE serving'[w] \in K
    BY <2>1, <1>2
  <2>2. CASE serving'[w] \notin K
    <3>1. serving[v] = serving'[v] /\ serving[w] = serving'[w]
      BY <1>2, <2>2, <1>t
    <3> QED BY <3>1, <1>2 DEF PostsOK
  <2> QED BY <2>1, <2>2
<1>3. ASSUME NEW k \in Connections PROVE PostOK(k)'
  <2>1. CASE k \in K
    BY <2>1
  <2>2. CASE k \notin K
    <3>1. PostKept(k) /\ PostOK(k)
      BY <2>2 DEF PostsOK
    <3>2. \A w \in Workers : serving[w] = k => serving'[w] = k
      BY <2>2 DEF Untouched
    <3> QED BY <3>1, <3>2 DEF PostKept, PostOK, IsStored
  <2> QED BY <2>1, <2>2
<1> QED BY <1>1, <1>2, <1>3 DEF PostsOK

\* One request is looked at: k, served before by the worker w or by none, and now by w
\* or by none.
LEMMA OnePost ==
  ASSUME EditCore, BrowserTypeOK', NEW w \in Workers, NEW k \in Connections,
         serving[w] \in {k, NoConnection}, serving'[w] \in {k, NoConnection},
         \A v \in Workers \ {w} : Untouched(v) /\ serving[v] # k,
         serving'[w] = k => ServedPost(w)',
         PostOK(k)', \A c \in Connections \ {k} : PostKept(c)
  PROVE  PostsOK'
<1>1. PostsOK /\ BrowserTypeOK
  BY DEF EditCore, EditTyped, EditTypeOK
<1>2. PICK K \in SUBSET Connections : K = {k}
  OBVIOUS
<1>3. \A v \in Workers : serving[v] \in Connections \ K => Untouched(v)
  BY <1>2, BrowserAssumption
<1>4. \A v \in Workers : serving'[v] \in Connections \ K => serving[v] = serving'[v]
  BY <1>2, BrowserAssumption DEF Untouched
<1>5. \A v \in Workers \ {w} : serving'[v] # k
  BY DEF Untouched
<1>6. /\ \A v \in Workers : serving'[v] \in K => ServedPost(v)'
      /\ \A u, v \in Workers : serving'[u] \in K /\ serving'[v] = serving'[u] => u = v
  BY <1>2, <1>5
<1>7. (\A c \in K : PostOK(c)') /\ \A c \in Connections \ K : PostKept(c)
  BY <1>2
<1> QED BY <1>1, <1>3, <1>4, <1>6, <1>7, PostsKept

\* A request nobody serves changes.
LEMMA IdlePost ==
  ASSUME EditCore, NEW k \in Connections, \A w \in Workers : serving[w] # k,
         UNCHANGED <<serving, job, carries>>, BrowserTypeOK',
         PostOK(k)', \A c \in Connections \ {k} : PostKept(c)
  PROVE  PostsOK'
<1>1. PostsOK /\ BrowserTypeOK
  BY DEF EditCore, EditTyped, EditTypeOK
<1>2. PICK K \in SUBSET Connections : K = {k}
  OBVIOUS
<1>3. \A v \in Workers : Untouched(v)
  BY DEF Untouched
<1>4. \A v \in Workers : serving'[v] \notin K
  BY <1>2
<1>5. (\A c \in K : PostOK(c)') /\ \A c \in Connections \ K : PostKept(c)
  BY <1>2
<1> QED BY <1>1, <1>3, <1>4, <1>5, PostsKept

\* Connections K close: their workers serve nobody.
LEMMA ClosedPosts ==
  ASSUME EditCore, NEW K \in SUBSET Connections, Disconnect(K), BrowserTypeOK',
         \A k \in K : post'[k] = NoPost, \A k \in Connections \ K : post'[k] = post[k],
         \A w \in Workers : serving[w] \in Connections \ K => job'[w] = job[w] /\ carries'[w] = carries[w]
  PROVE  PostsOK'
<1>1. PostsOK /\ BrowserTypeOK /\ stored \in [Connections -> SUBSET Connections]
  BY DEF EditCore, EditTyped, EditTypeOK, BrowserTypeOK
<1>2. \A w \in Workers : serving'[w] = IF serving[w] \in K THEN NoConnection ELSE serving[w]
  BY DEF Disconnect
<1>3. \A k \in Connections : stored'[k] = IF k \in K THEN {} ELSE stored[k] \ K
  BY DEF Disconnect, Forgotten
<1>4. \A k \in Connections : stored[k] # {} => k \in stored[k]
  BY DEF EditCore, PostsOK, PostOK, IsStored
<1>5. ASSUME NEW k \in K PROVE PostOK(k)'
  <2>1. post'[k] = NoPost /\ stored'[k] = {} /\ NoPost.state = "none"
    BY <1>3 DEF NoPost
  <2> QED BY <2>1 DEF PostOK, IsStored
<1>6. ASSUME NEW k \in Connections \ K PROVE PostKept(k)
  BY <1>3, <1>4 DEF PostKept
<1>7. \A w \in Workers : serving[w] \in Connections \ K => Untouched(w)
  BY <1>2 DEF Untouched
<1>8. \A w \in Workers : /\ serving'[w] \in Connections \ K => serving[w] = serving'[w]
                         /\ serving'[w] \notin K
  BY <1>2, BrowserAssumption
<1> QED BY <1>1, <1>5, <1>6, <1>7, <1>8, PostsKept

\* Statements for the page leave the other workers alone.
LEMMA OthersUntouched ==
  ASSUME EditCore, BrowserTypeOK', NEW w \in Workers, NEW k \in Connections,
         \A v \in Workers \ {w} : job'[v] = job[v], Serves(w, k) \/ Serves(w, NoConnection) \/ UNCHANGED serving,
         UNCHANGED carries \/ \E x : carries' = [carries EXCEPT ![w] = x]
  PROVE  \A v \in Workers \ {w} : Untouched(v)
BY DEF EditCore, EditTyped, EditTypeOK, BrowserTypeOK, Serves, Untouched

\* The worker w of request k ends with an answer.
LEMMA AnsweredPost ==
  ASSUME EditCore, BrowserTypeOK', NEW w \in Workers, NEW k \in Connections, k = serving[w],
         \A v \in Workers \ {w} : job'[v] = job[v],
         UNCHANGED carries \/ \E x : carries' = [carries EXCEPT ![w] = x],
         \/ SetPost(k, "ok") /\ Stored(k) /\ post[k].kind \in {"save", "publish", "status"}
         \/ SetPost(k, "ok") /\ UNCHANGED stored /\ post[k].kind \notin {"save", "publish", "status"}
         \/ SetPost(k, "failed") /\ UNCHANGED stored,
         Serves(w, NoConnection)
  PROVE  PostsOK'
<1>t. /\ EditTypeOK /\ stored \in [Connections -> SUBSET Connections] /\ k # NoConnection
      /\ serving \in [Workers -> Connections \cup {NoConnection}]
  BY BrowserAssumption DEF EditCore, EditTyped, EditTypeOK, BrowserTypeOK
<1>s. post[k].state = "served" /\ stored[k] = {}
  BY <1>t, ServedPosted DEF EditCore, PostsOK, PostOK, IsStored
<1>1. \A v \in Workers \ {w} : Untouched(v) /\ serving[v] # k
  BY <1>t, OthersUntouched DEF EditCore, PostsOK
<1>2. serving'[w] = NoConnection
  BY <1>t DEF Serves
<1>3. \A c \in Connections : stored[c] # {} => c \in stored[c]
  BY DEF EditCore, PostsOK, PostOK, IsStored
<1>4. \A c \in Connections \ {k} : PostKept(c)
  <2>1. \A c \in Connections \ {k} : post'[c] = post[c]
    BY <1>t, PostTyped
  <2>2. \A c \in Connections \ {k} : stored'[c] = stored[c]
    BY <1>t DEF Stored
  <2> QED BY <2>1, <2>2, <1>3 DEF PostKept
<1>5. PostOK(k)'
  <2>1. CASE SetPost(k, "ok") /\ Stored(k) /\ post[k].kind \in {"save", "publish", "status"}
    <3>1. post'[k].state = "ok" /\ post'[k].kind = post[k].kind
      BY <2>1, <1>t, PostTyped
    <3>2. k \in stored'[k]
      BY <2>1, <1>t DEF Stored
    <3> QED BY <2>1, <3>1, <3>2 DEF PostOK, IsStored
  <2>2. CASE SetPost(k, "ok") /\ UNCHANGED stored /\ post[k].kind \notin {"save", "publish", "status"}
    <3>1. post'[k].state = "ok" /\ post'[k].kind = post[k].kind
      BY <2>2, <1>t, PostTyped
    <3> QED BY <2>2, <3>1, <1>s DEF PostOK, IsStored
  <2>3. CASE SetPost(k, "failed") /\ UNCHANGED stored
    <3>1. post'[k].state = "failed"
      BY <2>3, <1>t, PostTyped
    <3> QED BY <2>3, <3>1, <1>s DEF PostOK, IsStored
  <2> QED BY <2>1, <2>2, <2>3
<1>6. serving'[w] # k
  BY <1>2, <1>t
<1> QED BY <1>1, <1>2, <1>4, <1>5, <1>6, OnePost

LEMMA ServePostServes ==
  ASSUME EditCore, BrowserTypeOK', NEW w \in Workers, NEW k \in Connections, ServePost(w, k)
  PROVE  PostsOK'
<1>t. /\ EditTypeOK /\ TypeInv /\ k # NoConnection /\ post[k] \in Post /\ post[k].state = "sent"
      /\ serving \in [Workers -> Connections \cup {NoConnection}]
      /\ carries \in [Workers -> Texts]
  BY BrowserAssumption DEF ServePost, EditCore, EditTyped, EditTypeOK, BrowserTypeOK
<1>s. stored[k] = {} /\ UNCHANGED stored
  BY <1>t DEF ServePost, EditCore, PostsOK, PostOK, IsStored
<1>1. /\ post'[k].state = "served" /\ post'[k].kind = post[k].kind /\ post'[k].text = post[k].text
      /\ \A c \in Connections \ {k} : post'[c] = post[c]
  BY <1>t, PostTyped DEF ServePost
<1>2. /\ Saves(k) => Jumps(w, "content")
      /\ post[k].kind = "status" => Jumps(w, "publish")
      /\ post[k].kind = "remove" => Jumps(w, "hide") \/ Jumps(w, "comments")
      /\ post[k].kind = "delete" => Jumps(w, "likes")
  BY <1>t, ServePostJumps
<1>3. serving'[w] = k
  BY <1>t DEF ServePost, Serves
<1>4. serving[w] = NoConnection
  BY ServedPosted DEF ServePost
<1>5. \A v \in Workers \ {w} : Untouched(v)
  <2>1. \A v \in Workers \ {w} : job'[v] = job[v]
    BY <1>2, <1>t DEF Jumps, Saves, Post, Kinds
  <2> QED BY <2>1, OthersUntouched DEF ServePost
<1>6. \A v \in Workers : serving[v] # k
  BY <1>t, ServedPosted
<1>7. \A c \in Connections \ {k} : PostKept(c)
  BY <1>1, <1>s DEF PostKept, EditCore, PostsOK, PostOK, IsStored
<1>8. PostOK(k)'
  BY <1>1, <1>s, <1>3 DEF PostOK, IsStored
<1>9. Saves(k) => carries'[w] = post[k].text.content
  BY <1>t DEF ServePost, Saves
<1>10. ServedPost(w)'
  BY <1>1, <1>2, <1>3, <1>9 DEF ServedPost, Saves, Jumps, At
<1> QED BY <1>3, <1>4, <1>5, <1>6, <1>7, <1>8, <1>10, OnePost

LEMMA ServeEditServes ==
  ASSUME EditCore, BrowserTypeOK', NEW w \in Workers, ServeEdit(w) PROVE PostsOK'
<1>k. PICK k \in Connections : k = serving[w]
  BY ServedPosted DEF ServeEdit
<1>t. /\ EditTypeOK /\ TypeInv /\ k # NoConnection /\ post[k] \in Post /\ ServedPost(w)
      /\ job[w].code = Shown /\ job \in [Workers -> Job] /\ carries \in [Workers -> Texts]
  BY <1>k, BrowserAssumption, ServedPosted DEF EditCore, EditTyped, EditTypeOK, TypeInv, JobsOK
<1>j. /\ \A v \in Workers \ {w} : job'[v] = job[v]
      /\ At(w, "idle")' \/ (job'[w].pc = "row" /\ job'[w].code = Shown /\ DeleteLikes(w))
  BY <1>t, ServeEditJumps
<1>c. UNCHANGED carries \/ \E x : carries' = [carries EXCEPT ![w] = x]
  BY DEF ServeEdit, WritesContent, LosesContent
<1>p. /\ At(w, "content") => post[k].kind \in {"save", "publish"}
      /\ At(w, "publish") => post[k].kind = "status"
      /\ At(w, "hide") => post[k].kind = "remove"
      /\ At(w, "likes") \/ At(w, "row") => post[k].kind = "delete"
  BY <1>k, <1>t DEF ServedPost, Saves, At, Post, Kinds
<1>1. CASE \/ WritesContent(w) /\ Effect(w)
           \/ At(w, "publish") /\ WriteStatus(w, 3) /\ Effect(w)
  <2>1. post[k].kind \in {"save", "publish", "status"}
    BY <1>1, <1>p DEF WritesContent
  <2> QED BY <1>1, <1>k, <1>j, <1>c, <2>1, AnsweredPost DEF Effect
<1>2. CASE (LosesContent(w) \/ Fails(w) \/ Hide(w)) /\ Failure(w)
  BY <1>2, <1>k, <1>j, <1>c, AnsweredPost DEF Failure
<1>3. CASE /\ Hide(w) \/ DeleteRow(w)
           /\ SetPost(serving[w], "ok") /\ Serves(w, NoConnection) /\ UNCHANGED <<stored, strayed>>
  <2>1. post[k].kind \notin {"save", "publish", "status"}
    BY <1>3, <1>p DEF Hide, DeleteRow
  <2> QED BY <1>3, <1>k, <1>j, <1>c, <2>1, AnsweredPost
<1>4. CASE DeleteLikes(w) /\ UNCHANGED <<post, serving, stored, strayed>> /\ UNCHANGED carries
  <2>1. job'[w].pc = "row" /\ post[k].kind = "delete"
    BY <1>4, <1>p, <1>t, GotoKeeps DEF DeleteLikes, Points
  <2>2. ServedPost(w)' /\ serving'[w] = k
    BY <1>4, <2>1, <1>k, <1>t DEF ServedPost, Saves
  <2>3. \A c \in Connections : PostKept(c) /\ PostOK(c)'
    BY <1>4 DEF EditCore, PostsOK, PostOK, PostKept, IsStored
  <2>4. \A v \in Workers \ {w} : Untouched(v) /\ serving[v] # k
    BY <1>4, <1>j, <1>k, <1>t DEF Untouched, EditCore, PostsOK
  <2> QED BY <2>2, <2>3, <2>4, <1>k, OnePost
<1> QED BY <1>1, <1>2, <1>3, <1>4 DEF ServeEdit

LEMMA PostsStay == EditCore /\ [EditNext]_allEditVars => PostsOK'
<1> SUFFICES ASSUME EditCore, [EditNext]_allEditVars PROVE PostsOK'
  OBVIOUS
<1>t. /\ EditTyped /\ EditTypeOK /\ PostsOK /\ TypeInv /\ post \in [Connections -> Post] /\ BrowserTypeOK
      /\ stored \in [Connections -> SUBSET Connections] /\ carries \in [Workers -> Texts]
      /\ serving \in [Workers -> Connections \cup {NoConnection}]
  BY DEF EditCore, EditTyped, EditTypeOK, BrowserTypeOK
<1>b. BrowserTypeOK'
  BY <1>t, EditStepTyped DEF EditTypeOK
<1>p. \A c \in Connections : PostOK(c)
  BY <1>t DEF PostsOK
<1>n. NoPost.state = "none" /\ NoPost.kind = "save"
  BY DEF NoPost
<1>0. ASSUME UNCHANGED <<job, browserVars, post, carries>> PROVE PostsOK'
  BY <1>0, <1>t DEF browserVars, PostsOK, ServedPost, PostOK, IsStored, Saves, At
<1>1. CASE UNCHANGED allEditVars \/ AskEditor \/ LoadEditor \/ TypeText
  BY <1>1, <1>0 DEF allEditVars, vars, browserVars, editVars, AskEditor, LoadEditor, TypeText
<1>2. ASSUME NEW k \in Connections, NEW kind \in Kinds, Send(k, kind) PROVE PostsOK'
  <2>1. post[k] = NoPost /\ UNCHANGED <<job, serving, stored, carries>>
    BY <1>2 DEF Send, vars, browserVars
  <2>2. stored[k] = {} /\ \A w \in Workers : serving[w] # k
    BY <2>1, <1>n, <1>p, ServedPosted, BrowserAssumption DEF PostOK, IsStored
  <2>3. post'[k].state = "sent" /\ \A c \in Connections \ {k} : post'[c] = post[c]
    <3>1. /\ post'[k] = [state |-> "sent", kind |-> kind, text |-> editor.text]
          /\ \A c \in Connections \ {k} : post'[c] = post[c]
      BY <1>2, <1>t, SendTyped
    <3> QED BY <3>1
  <2>4. PostOK(k)' /\ \A c \in Connections \ {k} : PostKept(c)
    BY <1>p, <2>1, <2>2, <2>3 DEF PostOK, PostKept, IsStored
  <2> QED BY <1>b, <2>1, <2>2, <2>4, IdlePost
<1>3. ASSUME NEW k \in Connections, RefusePost(k) PROVE PostsOK'
  <2>1. post[k].state = "sent" /\ UNCHANGED <<job, serving, stored, carries>>
    BY <1>3 DEF RefusePost, vars, browserVars
  <2>2. stored[k] = {} /\ \A w \in Workers : serving[w] # k
    BY <2>1, <1>p, ServedPosted, BrowserAssumption DEF PostOK, IsStored
  <2>3. post'[k].state = "failed" /\ \A c \in Connections \ {k} : post'[c] = post[c]
    BY <1>3, <1>t, PostTyped DEF RefusePost
  <2>4. PostOK(k)' /\ \A c \in Connections \ {k} : PostKept(c)
    BY <1>p, <2>1, <2>2, <2>3 DEF PostOK, PostKept, IsStored
  <2> QED BY <1>b, <2>1, <2>2, <2>4, IdlePost
<1>4. ASSUME NEW k \in Connections, DeliverAnswer(k) PROVE PostsOK'
  <2>1. CASE CloseEditor
    BY <2>1, <1>4, <1>b, ClosedPosts DEF CloseEditor
  <2>2. CASE /\ UNCHANGED serving
             /\ \/ post' = [post EXCEPT ![k] = NoPost]
                \/ post' = [post EXCEPT ![k].kind = "status", ![k].state = "sent"]
             /\ Delivered(k) \/ (UNCHANGED stored /\ post[k].state = "failed")
    <3>1. post[k].state \in {"ok", "failed"} /\ UNCHANGED <<job, carries>>
      BY <1>4 DEF DeliverAnswer, vars
    <3>2. \A w \in Workers : serving[w] # k
      BY <3>1, ServedPosted, BrowserAssumption
    <3>3. stored'[k] = {}
      <4>1. CASE Delivered(k)
        BY <4>1, <1>t DEF Delivered, Forgotten
      <4>2. CASE UNCHANGED stored /\ post[k].state = "failed"
        BY <4>2, <1>p DEF PostOK, IsStored
      <4> QED BY <2>2, <4>1, <4>2
    <3>4. \A c \in Connections \ {k} : PostKept(c)
      <4>1. \A c \in Connections \ {k} : post'[c] = post[c]
        BY <2>2, <1>t
      <4>2. \A c \in Connections \ {k} : stored'[c] = stored[c] \/ stored'[c] = stored[c] \ {k}
        BY <2>2, <1>t DEF Delivered, Forgotten
      <4>3. \A c \in Connections : stored[c] # {} => c \in stored[c]
        BY <1>p DEF PostOK, IsStored
      <4> QED BY <4>1, <4>2, <4>3 DEF PostKept
    <3>5. post'[k] = NoPost \/ post'[k].state = "sent"
      <4>1. post[k] \in Post
        BY <1>t
      <4> QED BY <2>2, <1>t, <4>1 DEF Post
    <3>6. PostOK(k)'
      BY <3>3, <3>5, <1>n DEF PostOK, IsStored
    <3> QED BY <1>b, <2>2, <3>1, <3>2, <3>4, <3>6, IdlePost
  <2> QED BY <1>4, <2>1, <2>2 DEF DeliverAnswer, browserVars
<1>5. ASSUME NEW k \in Connections, PostFails(k) PROVE PostsOK'
  <2>1. PICK K \in SUBSET Connections : K = {k}
    OBVIOUS
  <2>2. /\ Disconnect(K) /\ UNCHANGED <<job, carries>>
        /\ \A c \in K : post'[c] = NoPost /\ \A d \in Connections \ K : post'[d] = post[d]
    BY <1>5, <2>1, <1>t DEF PostFails, vars
  <2>3. /\ \A c \in K : post'[c] = NoPost
        /\ \A d \in Connections \ K : post'[d] = post[d]
    BY <2>1, <2>2
  <2> QED BY <1>b, <2>2, <2>3, ClosedPosts
<1>6. CASE LeaveEditor
  BY <1>6, <1>b, ClosedPosts DEF LeaveEditor, CloseEditor, vars
<1>7. CASE RestartEdit
  <2>1. PICK K \in SUBSET Connections :
          /\ Disconnect(K) /\ K = {k \in Connections : post[k].state \in {"sent", "served"}}
          /\ post' = [k \in Connections |-> IF k \in K THEN NoPost ELSE post[k]]
    BY <1>7 DEF RestartEdit
  <2>2. \A w \in Workers : serving[w] \notin Connections \ K
    BY <2>1, ServedPosted, BrowserAssumption
  <2>3. /\ \A k \in K : post'[k] = NoPost
        /\ \A k \in Connections \ K : post'[k] = post[k]
    BY <2>1
  <2> QED BY <1>b, <2>1, <2>2, <2>3, ClosedPosts
<1>8. ASSUME NEW w \in Workers, ElsewhereEdit(w) PROVE PostsOK'
  <2>1. /\ UNCHANGED <<serving, stored, post>> /\ serving[w] = NoConnection
        /\ \A v \in Workers \ {w} : job'[v] = job[v]
    BY <1>8, <1>t, ElsewhereJumps DEF ElsewhereEdit, browserVars
  <2>2. \A v \in Workers \ {w} : carries'[v] = carries[v]
    BY <1>8, <1>t DEF ElsewhereEdit, WritesContent, LosesContent
  <2>3. \A v \in Workers : serving[v] \in Connections => Untouched(v)
    BY <2>1, <2>2, BrowserAssumption DEF Untouched
  <2>4. \A c \in Connections : PostKept(c)
    BY <2>1, <1>p DEF PostKept, PostOK, IsStored
  <2>5. PICK K \in SUBSET Connections : K = {}
    OBVIOUS
  <2> QED BY <1>b, <1>t, <2>1, <2>3, <2>4, <2>5, PostsKept
<1> QED
  BY <1>b, <1>1, <1>2, <1>3, <1>4, <1>5, <1>6, <1>7, <1>8, ServePostServes, ServeEditServes
  DEF EditNext, ClickSave, ClickPublish, ClickRemove, ClickBack, Kinds

-----------------------------------------------------------------------------
(* The entry's status.  Once nothing is half done, the last of the answers  *)
(* to come says what it is, or the page does if none is to come.            *)

\* A worker that serves the page is the only one about the entry.
Alone == \A v, w \in Workers : serving[v] # NoConnection /\ AtWork(w) => v = w
Busy(k) == post[k].state \in {"served", "ok"}
Deleted == \E k \in Connections : post[k].kind = "delete" /\ Busy(k)
Removed == \E k \in Connections : post[k].kind = "remove" /\ post[k].state = "ok"
\* A save has its first statement, a publication its first request behind it.
MidSave == \E w \in Workers : serving[w] # NoConnection /\ At(w, "content")
Continues == \E k \in Connections : post[k].kind = "status" /\ post[k].state # "ok"
Decided ==
  /\ Exists(Shown)
  /\ ~MidSave /\ ~Continues =>
       /\ \A k \in InStore : stored[k] = InStore /\ post[k].kind # "publish" =>
                               news[Shown].status = StatusAfter(post[k].kind)
       /\ InStore = {} => editor.status = news[Shown].status
StatusInv ==
  editor.state # "closed" /\ "status" \notin strayed =>
    Alone /\ Ordered /\ (Deleted \/ Removed \/ Decided)

LEMMA OrderedForgotten ==
  ASSUME Ordered, NEW K \in SUBSET Connections, Forgotten(K)
  PROVE  /\ Ordered' /\ InStore' = InStore \ K
         /\ \A k \in InStore \ K : stored'[k] = stored[k] \ K
<1>1. \A k \in Connections : stored'[k] = IF k \in K THEN {} ELSE stored[k] \ K
  BY DEF Forgotten
<1>2. \A k \in InStore : k \in Connections /\ k \in stored[k] /\ stored[k] \subseteq InStore
  BY DEF Ordered, InStore
<1>3. InStore' = InStore \ K
  <2>1. ASSUME NEW k \in Connections PROVE k \in InStore' <=> k \in InStore \ K
    BY <1>1, <1>2 DEF InStore, IsStored
  <2>2. InStore' \subseteq Connections /\ InStore \subseteq Connections
    BY DEF InStore
  <2> QED BY <2>1, <2>2
<1>4. ASSUME NEW k \in InStore' PROVE k \in stored'[k] /\ stored'[k] \subseteq InStore'
  BY <1>1, <1>2, <1>3
<1>5. ASSUME NEW j \in InStore', NEW k \in InStore' PROVE j \in stored'[k] \/ k \in stored'[j]
  <2>1. j \in stored[k] \/ k \in stored[j]
    BY <1>3 DEF Ordered
  <2> QED BY <2>1, <1>1, <1>2, <1>3
<1> QED BY <1>1, <1>2, <1>3, <1>4, <1>5 DEF Ordered

LEMMA OrderedStored ==
  ASSUME Ordered, NEW k \in Connections, k \notin InStore, Stored(k),
         stored \in [Connections -> SUBSET Connections]
  PROVE  /\ Ordered' /\ InStore' = InStore \cup {k} 
         /\ \A j \in InStore' : stored'[j] = InStore' => j = k
<1>1. /\ stored'[k] = {k} \cup InStore
      /\ \A c \in Connections \ {k} : stored'[c] = stored[c]
  BY DEF Stored, InStore
<1>2. InStore' = InStore \cup {k}
  BY <1>1 DEF InStore, IsStored
<1>3. \A c \in InStore : c # k /\ stored'[c] = stored[c] /\ stored[c] \subseteq InStore
  BY <1>1 DEF Ordered, InStore
<1> QED BY <1>1, <1>2, <1>3 DEF Ordered

LEMMA OrderedKept ==
  ASSUME Ordered, \A k \in Connections : stored'[k] = stored[k]
  PROVE  Ordered' /\ InStore' = InStore
<1>1. InStore' = InStore
  BY DEF InStore, IsStored
<1> QED BY <1>1 DEF Ordered, InStore

LEMMA DecidedKept ==
  ASSUME Decided, editor'.status = editor.status, Exists(Shown)', news'[Shown].status = news[Shown].status,
         \A k \in Connections : stored'[k] = stored[k],
         \A k \in InStore : post'[k].kind = post[k].kind,
         MidSave => MidSave', Continues => Continues'
  PROVE  Decided'
<1>1. InStore' = InStore
  BY DEF InStore, IsStored
<1>2. \A k \in InStore : stored'[k] = stored[k]
  BY DEF InStore
<1> QED BY <1>1, <1>2 DEF Decided

\* What the statements about the entry do to its row.
LEMMA StatusWritten ==
  ASSUME NEW w, NEW s, WriteStatus(w, s), job[w].code = Shown, TypeInv
  PROVE  DOMAIN news' = DOMAIN news /\ (Exists(Shown) => news'[Shown].status = s)
<1>1. news' = [k \in DOMAIN news |-> IF k = Shown THEN [news[k] EXCEPT !.status = s] ELSE news[k]]
  BY DEF WriteStatus, SetStatus
<1>2. Exists(Shown) => news[Shown] \in Entry
  BY DEF TypeInv, RowsOK, Exists
<1> QED BY <1>1, <1>2 DEF Exists, Entry

LEMMA NewEntryKeeps ==
  ASSUME TypeInv, NEW w, CreateNew(w)
  PROVE  Exists(Shown) => Exists(Shown)' /\ news'[Shown] = news[Shown]
<1>1. NewCode \notin DOMAIN news
  BY DEF TypeInv, RowsOK, Issued, NewCode
<1>2. \E named, p : Create(named, p)
  BY DEF CreateNew
<1>3. DOMAIN news' = DOMAIN news \cup {NewCode} /\ \A c \in DOMAIN news : news'[c] = news[c]
  BY <1>1, <1>2 DEF Create
<1> QED BY <1>3 DEF Exists

\* Who serves the page when w does, and when the page's entry has no worker.
LEMMA OnlyOne ==
  ASSUME EditCore, Alone, NEW w \in Workers, serving[w] # NoConnection
  PROVE  \A v \in Workers : serving[v] # NoConnection => v = w
BY ServedPosted DEF Alone, AtWork

LEMMA NoOne ==
  ASSUME EditCore, ~\E w \in Workers : AtWork(w)
  PROVE  \A v \in Workers : serving[v] = NoConnection
BY ServedPosted DEF AtWork

LEMMA StrayedMore ==
  ASSUME EditTyped, [EditNext]_allEditVars PROVE editor.state = "closed" \/ strayed \subseteq strayed'
<1>1. CASE UNCHANGED allEditVars \/ AskEditor \/ LoadEditor \/ TypeText \/ LeaveEditor \/ RestartEdit
  BY <1>1 DEF allEditVars, editVars, AskEditor, LoadEditor, TypeText, LeaveEditor, RestartEdit
<1>2. ASSUME NEW k \in Connections,
             ClickSave(k) \/ ClickPublish(k) \/ ClickRemove(k) \/ ClickBack(k) \/ RefusePost(k)
               \/ DeliverAnswer(k) \/ PostFails(k)
      PROVE  strayed \subseteq strayed'
  BY <1>2
  DEF ClickSave, ClickPublish, ClickRemove, ClickBack, Send, RefusePost, DeliverAnswer, PostFails,
      Stray, NothingStrays
<1>3. ASSUME NEW w \in Workers, NEW k \in Connections, ServePost(w, k) PROVE strayed \subseteq strayed'
  BY <1>3 DEF ServePost, Stray
<1>4. ASSUME NEW w \in Workers, ServeEdit(w) \/ ElsewhereEdit(w) PROVE strayed \subseteq strayed'
  BY <1>4 DEF ServeEdit, ElsewhereEdit, Effect, NothingStrays, Stray
<1> QED BY <1>1, <1>2, <1>3, <1>4 DEF EditNext

LEMMA AloneKept ==
  ASSUME Alone, \A w \in Workers : serving'[w] # NoConnection => serving[w] # NoConnection,
         \A w \in Workers : AtWork(w)' => AtWork(w)
  PROVE  Alone'
BY DEF Alone

LEMMA AloneStays ==
  ASSUME EditCore, Alone, [EditNext]_allEditVars, NEW s \in {"status", "text"}, s \notin strayed'
  PROVE  Alone'
<1>t. /\ EditTyped /\ TypeInv /\ post \in [Connections -> Post] /\ BrowserTypeOK
      /\ serving \in [Workers -> Connections \cup {NoConnection}]
  BY DEF EditCore, EditTyped, EditTypeOK, BrowserTypeOK
<1>0. ASSUME UNCHANGED job, UNCHANGED serving \/ \E K : Disconnect(K) PROVE Alone'
  BY <1>0, AloneKept DEF AtWork, At, Disconnect
<1>1. CASE UNCHANGED allEditVars \/ AskEditor \/ LoadEditor \/ TypeText \/ LeaveEditor
  BY <1>1, <1>0
  DEF allEditVars, vars, browserVars, AskEditor, LoadEditor, TypeText, LeaveEditor, CloseEditor
<1>2. ASSUME NEW k \in Connections,
             ClickSave(k) \/ ClickPublish(k) \/ ClickRemove(k) \/ ClickBack(k) \/ RefusePost(k)
               \/ DeliverAnswer(k) \/ PostFails(k)
      PROVE  Alone'
  BY <1>2, <1>0
  DEF ClickSave, ClickPublish, ClickRemove, ClickBack, Send, RefusePost, DeliverAnswer, PostFails,
      vars, browserVars, CloseEditor
<1>3. ASSUME NEW w \in Workers, NEW k \in Connections, ServePost(w, k) PROVE Alone'
  <2>1. ~\E v \in Workers : AtWork(v)
    BY <1>3 DEF ServePost, Stray
  <2>2. \A v \in Workers : v # w => serving'[v] = NoConnection
    BY <2>1, <1>3, <1>t, NoOne DEF ServePost, Serves
  <2>3. \A v \in Workers \ {w} : job'[v] = job[v]
    BY <1>3, <1>t, ServePostJumps DEF Saves, Post, Kinds, Jumps
  <2>4. \A v \in Workers : v # w => ~AtWork(v)'
    BY <2>1, <2>3 DEF AtWork, At
  <2> QED BY <2>2, <2>4 DEF Alone
<1>4. ASSUME NEW w \in Workers, ServeEdit(w) PROVE Alone'
  <2>1. /\ AtWork(w) /\ \A v \in Workers \ {w} : job'[v] = job[v]
    BY <1>4, <1>t, ServedPosted, ServeEditJumps DEF ServeEdit, AtWork
  <2>2. \A v \in Workers : serving'[v] # NoConnection => serving[v] # NoConnection
    BY <1>4, <1>t DEF ServeEdit, Effect, Failure, Serves
  <2> QED BY <2>1, <2>2, AloneKept DEF AtWork, At
<1>5. ASSUME NEW w \in Workers, ElsewhereEdit(w) PROVE Alone'
  <2>1. \A v \in Workers \ {w} : job'[v] = job[v]
    BY <1>5, <1>t, ElsewhereJumps
  <2>2. AtWork(w)' => AtWork(w)
    BY <1>5, <1>t, ElsewhereJumps DEF AtWork, At
  <2>3. UNCHANGED serving
    BY <1>5 DEF ElsewhereEdit, browserVars
  <2> QED BY <2>1, <2>2, <2>3, AloneKept DEF AtWork, At
<1>6. CASE RestartEdit
  BY <1>6, AloneKept DEF RestartEdit, Restart, Disconnect, AtWork, At, NoJob
<1> QED BY <1>1, <1>2, <1>3, <1>4, <1>5, <1>6 DEF EditNext

Resolved == Deleted \/ Removed \/ Decided

\* Requests whose effect is still to come stay what they are; the rest is Decided's.
LEMMA ResolvedKept ==
  ASSUME Resolved,
         \A k \in Connections : Busy(k) => post'[k] = post[k],
         Decided => Decided'
  PROVE  Resolved'
BY DEF Resolved, Deleted, Removed, Busy

\* The server's side of the page's status.
LEMMA ServePostResolved ==
  ASSUME EditCore, Ordered, Resolved, NEW w \in Workers, NEW k \in Connections, ServePost(w, k),
         "status" \notin strayed'
  PROVE  Ordered' /\ Resolved'
<1>t. /\ EditTypeOK /\ TypeInv /\ post[k] \in Post /\ post[k].state = "sent"
      /\ serving \in [Workers -> Connections \cup {NoConnection}]
      /\ stored' = stored /\ UNCHANGED editor
  BY DEF ServePost, EditCore, EditTyped, EditTypeOK, BrowserTypeOK
<1>1. /\ post'[k].state = "served" /\ post'[k].kind = post[k].kind
      /\ \A c \in Connections \ {k} : post'[c] = post[c]
  BY <1>t, PostTyped DEF ServePost
<1>2. \A v \in Workers : serving[v] = NoConnection
  <2>1. ~\E v \in Workers : AtWork(v)
    BY DEF ServePost, Stray
  <2> QED BY <2>1, NoOne
<1>3. ~MidSave
  BY <1>2 DEF MidSave
<1>4. serving'[w] = k /\ k # NoConnection
  BY <1>t, BrowserAssumption DEF ServePost, Serves
<1>5. Ordered' /\ InStore' = InStore
  BY <1>t, OrderedKept
<1>6. \A c \in Connections : post'[c].kind = post[c].kind
  BY <1>1
<1>7. Continues => Continues'
  BY <1>1 DEF Continues
<1>8. ASSUME UNCHANGED news, Decided PROVE Decided'
  <2>1. Exists(Shown)'
    BY <1>8 DEF Decided, Exists
  <2> QED BY <2>1, <1>t, <1>3, <1>6, <1>7, <1>8, DecidedKept DEF InStore
<1>b. \A c \in Connections : Busy(c) => post'[c] = post[c]
  BY <1>1, <1>t DEF Busy
<1>9. CASE Saves(k)
  <2>1. DOMAIN news' = DOMAIN news
    BY <1>9 DEF ServePost, StoreInfo, Saves
  <2>2. Jumps(w, "content")
    BY <1>9, <1>t, ServePostJumps
  <2>3. MidSave'
    BY <2>2, <1>4 DEF MidSave, Jumps, At
  <2>4. Decided => Decided'
    BY <2>1, <2>3 DEF Decided, Exists
  <2> QED BY <2>4, <1>5, <1>b, ResolvedKept
<1>10. CASE post[k].kind \in {"status", "remove"}
  <2>1. UNCHANGED news
    BY <1>10 DEF ServePost, Saves, BeginPublish, BeginRemove, Reads, tables
  <2> QED BY <2>1, <1>5, <1>8, <1>b, ResolvedKept
<1>11. CASE post[k].kind = "delete"
  <2>1. Deleted'
    BY <1>1, <1>11 DEF Deleted, Busy
  <2> QED BY <2>1, <1>5 DEF Resolved
<1> QED BY <1>9, <1>10, <1>11, <1>t DEF Saves, Post, Kinds

LEMMA ServeEditResolved ==
  ASSUME EditCore, Alone, Ordered, Resolved, NEW w \in Workers, ServeEdit(w), "status" \notin strayed'
  PROVE  Ordered' /\ Resolved'
<1>k. PICK k \in Connections : k = serving[w]
  BY ServedPosted DEF ServeEdit
<1>t. /\ EditTypeOK /\ TypeInv /\ post[k] \in Post /\ post[k].state = "served" /\ k # NoConnection
      /\ ServedPost(w) /\ job[w].code = Shown
      /\ serving \in [Workers -> Connections \cup {NoConnection}]
      /\ stored \in [Connections -> SUBSET Connections] /\ UNCHANGED editor
  BY <1>k, ServedPosted, BrowserAssumption
  DEF ServeEdit, EditCore, EditTyped, EditTypeOK, BrowserTypeOK
<1>1. \A v \in Workers : serving[v] # NoConnection => v = w
  BY OnlyOne DEF ServeEdit
<1>p. /\ At(w, "content") => post[k].kind \in {"save", "publish"}
      /\ At(w, "publish") => post[k].kind = "status"
      /\ At(w, "hide") => post[k].kind = "remove"
      /\ At(w, "likes") \/ At(w, "row") => post[k].kind = "delete"
  BY <1>k, <1>t DEF ServedPost, Saves, At, Post, Kinds
<1>s. k \notin InStore
  BY <1>t DEF InStore, EditCore, PostsOK, PostOK
<1>2. ASSUME NEW state \in {"ok", "failed"}, SetPost(k, state)
      PROVE  /\ post'[k].state = state /\ post'[k].kind = post[k].kind
             /\ \A c \in Connections \ {k} : post'[c] = post[c]
  BY <1>2, <1>t, PostTyped
<1>3. ASSUME UNCHANGED stored PROVE Ordered' /\ InStore' = InStore
  BY <1>3, OrderedKept
<1>4. ASSUME Serves(w, NoConnection) PROVE ~MidSave'
  BY <1>1, <1>4, <1>t DEF Serves, MidSave
\* A save or a publication is stored.
<1>5. ASSUME NEW s, WriteStatus(w, s), Effect(w), post[k].kind # "publish" => s = StatusAfter(post[k].kind),
             post[k].kind \in {"save", "publish", "status"}
      PROVE  Ordered' /\ Resolved'
  <2>1. /\ Ordered' /\ InStore' = InStore \cup {k}
        /\ \A j \in InStore' : stored'[j] = InStore' => j = k
    BY <1>5, <1>k, <1>s, <1>t, OrderedStored DEF Effect
  <2>2. post'[k].kind = post[k].kind /\ \A c \in Connections \ {k} : post'[c] = post[c]
    BY <1>2, <1>5, <1>k DEF Effect
  <2>3. Deleted => Deleted'
    BY <2>2, <1>5 DEF Deleted, Busy
  <2>4. Removed => Removed'
    BY <2>2, <1>5 DEF Removed
  <2>5. Decided => Decided'
    BY <2>1, <2>2, <1>5, <1>t, StatusWritten DEF Decided, Exists
  <2> QED BY <2>1, <2>3, <2>4, <2>5 DEF Resolved
\* Nothing is stored, and the table is as before.
<1>6. ASSUME UNCHANGED <<news, stored>>, SetPost(k, "failed"), post[k].kind \in {"status", "remove"}
      PROVE  Ordered' /\ Resolved'
  <2>1. Ordered' /\ InStore' = InStore
    BY <1>3, <1>6
  <2>2. post'[k].state = "failed" /\ post'[k].kind = post[k].kind /\ \A c \in Connections \ {k} : post'[c] = post[c]
    BY <1>2, <1>6
  <2>3. Deleted => Deleted'
    BY <2>2, <1>6 DEF Deleted, Busy
  <2>4. Removed => Removed'
    BY <2>2, <1>6, <1>t DEF Removed
  <2>5. ~MidSave
    <3>1. ~At(w, "content")
      BY <1>p, <1>6
    <3> QED BY <3>1, <1>1 DEF MidSave
  <2>6. Continues => Continues'
    BY <2>2 DEF Continues
  <2>7. Decided => Decided'
    <3>1. \A c \in Connections : post'[c].kind = post[c].kind
      BY <2>2
    <3>2. Exists(Shown) => Exists(Shown)'
      BY <1>6 DEF Exists
    <3>3. Decided => Exists(Shown)
      BY DEF Decided
    <3>4. news'[Shown].status = news[Shown].status /\ \A c \in Connections : stored'[c] = stored[c]
      BY <1>6
    <3> QED BY <2>5, <2>6, <3>1, <3>2, <3>3, <3>4, <1>t, DecidedKept DEF InStore
  <2> QED BY <2>1, <2>3, <2>4, <2>7 DEF Resolved
<1>7. CASE WritesContent(w) /\ Effect(w)
  <2>1. post[k].kind \in {"save", "publish"} /\ WriteStatus(w, 2)
    BY <1>7, <1>p DEF WritesContent
  <2>2. post[k].kind # "publish" => 2 = StatusAfter(post[k].kind)
    BY <2>1 DEF StatusAfter
  <2> QED BY <2>1, <2>2, <1>5, <1>7
<1>8. CASE LosesContent(w) /\ Failure(w) /\ Stray(Unheard(serving[w]), TRUE)
  <2>1. "status" \in Unheard(k)
    BY <1>t DEF Unheard
  <2> QED BY <2>1, <1>8, <1>k DEF Stray
<1>9. CASE At(w, "publish") /\ WriteStatus(w, 3) /\ Effect(w)
  <2>1. post[k].kind = "status" /\ 3 = StatusAfter(post[k].kind)
    BY <1>9, <1>p DEF StatusAfter
  <2> QED BY <2>1, <1>5, <1>9
<1>10. CASE At(w, "publish") /\ Fails(w) /\ Failure(w)
  BY <1>10, <1>6, <1>k, <1>p DEF Fails, Reads, tables, Failure
<1>11. CASE Hide(w) /\ SetPost(serving[w], "ok") /\ UNCHANGED <<stored, strayed>>
  <2>1. post[k].kind = "remove" /\ post'[k].state = "ok" /\ post'[k].kind = post[k].kind
    BY <1>11, <1>2, <1>k, <1>p DEF Hide
  <2> QED BY <2>1, <1>3, <1>11 DEF Resolved, Removed
<1>12. CASE Hide(w) /\ news' = news /\ Failure(w)
  BY <1>12, <1>6, <1>k, <1>p DEF Hide, Failure
<1>13. CASE DeleteLikes(w) /\ UNCHANGED <<post, serving, stored, strayed>>
  BY <1>13, <1>3, <1>t, <1>p DEF DeleteLikes, Resolved, Deleted, Busy
<1>14. CASE DeleteRow(w) /\ SetPost(serving[w], "ok") /\ UNCHANGED <<stored, strayed>>
  <2>1. post[k].kind = "delete" /\ post'[k].state = "ok" /\ post'[k].kind = post[k].kind
    BY <1>14, <1>2, <1>k, <1>p DEF DeleteRow
  <2> QED BY <2>1, <1>3, <1>14 DEF Resolved, Deleted, Busy
<1> QED BY <1>7, <1>8, <1>9, <1>10, <1>11, <1>12, <1>13, <1>14 DEF ServeEdit

\* Requests without a stored effect are forgotten: the order of the others is the same.
LEMMA ForgottenNone ==
  ASSUME Ordered, NEW K \in SUBSET Connections, K \cap InStore = {}, Forgotten(K)
  PROVE  \A k \in Connections : stored'[k] = stored[k]
<1>1. ASSUME NEW k \in Connections PROVE stored'[k] = stored[k]
  <2>1. stored'[k] = IF k \in K THEN {} ELSE stored[k] \ K
    BY DEF Forgotten
  <2>2. CASE k \in InStore
    <3>1. stored[k] \subseteq InStore
      BY <2>2 DEF Ordered
    <3> QED BY <2>1, <2>2, <3>1
  <2>3. CASE k \notin InStore
    BY <2>1, <2>3 DEF InStore, IsStored
  <2> QED BY <2>2, <2>3
<1> QED BY <1>1

\* The page hears of a save or of the change of the status that no other answer overtook.
LEMMA SavedResolved ==
  ASSUME EditCore, Ordered, Resolved, NEW k \in Connections, DeliverAnswer(k),
         post[k].state = "ok", post[k].kind \in {"save", "status"}, "status" \notin strayed'
  PROVE  Ordered' /\ Resolved'
<1>t. /\ EditTypeOK /\ post \in [Connections -> Post] /\ editor \in Editor
  BY DEF EditCore, EditTyped, EditTypeOK
<1>1. /\ editor' = Saved(editor, post[k].kind) /\ post' = [post EXCEPT ![k] = NoPost]
      /\ ~Overtakes(k) /\ Delivered(k) /\ UNCHANGED <<news, job, serving>>
  BY DEF DeliverAnswer, vars
<1>2. stored[k] = {k} /\ k \in InStore
  BY <1>1 DEF Overtakes, InStore, IsStored
<1>3. editor'.status = StatusAfter(post[k].kind)
  BY <1>1, <1>t, SavedTyped
<1>4. PICK K \in SUBSET Connections : K = {k}
  OBVIOUS
<1>5. /\ Ordered' /\ InStore' = InStore \ {k}
      /\ \A j \in InStore \ {k} : stored'[j] = stored[j] \ {k}
  BY <1>1, <1>4, OrderedForgotten DEF Delivered
<1>6. \A j \in InStore \ {k} : k \in stored[j] /\ stored[j] \subseteq InStore
  BY <1>2 DEF Ordered
<1>7. \A c \in Connections \ {k} : post'[c] = post[c]
  BY <1>1, <1>t
<1>8. Deleted => Deleted'
  BY <1>7 DEF Deleted, Busy
<1>9. Removed => Removed'
  BY <1>7 DEF Removed
<1>10. ASSUME Decided PROVE Decided'
  <2>1. Exists(Shown)' /\ news' = news
    BY <1>1, <1>10 DEF Decided, Exists
  <2>2. MidSave => MidSave'
    BY <1>1 DEF MidSave, At
  <2>3. Continues => Continues'
    BY <1>7 DEF Continues
  <2>4. ASSUME ~MidSave, ~Continues PROVE
          /\ \A j \in InStore' : stored'[j] = InStore' /\ post'[j].kind # "publish" =>
                                   news[Shown].status = StatusAfter(post'[j].kind)
          /\ InStore' = {} => editor'.status = news[Shown].status
    <3>1. \A j \in InStore : stored[j] = InStore /\ post[j].kind # "publish" =>
                               news[Shown].status = StatusAfter(post[j].kind)
      BY <2>4, <1>10 DEF Decided
    <3>2. ASSUME NEW j \in InStore', stored'[j] = InStore', post'[j].kind # "publish"
          PROVE  news[Shown].status = StatusAfter(post'[j].kind)
      <4>1. j \in InStore \ {k} /\ j \in Connections \ {k}
        BY <1>5, <3>2 DEF InStore
      <4>2. stored[j] \ {k} = InStore \ {k} /\ k \in stored[j]
        BY <4>1, <3>2, <1>5, <1>6
      <4>3. stored[j] = InStore
        BY <4>2, <1>2
      <4>4. post'[j] = post[j]
        BY <4>1, <1>7
      <4> QED BY <4>1, <4>3, <4>4, <3>1, <3>2
    <3>3. ASSUME InStore' = {} PROVE editor'.status = news[Shown].status
      <4>1. InStore = {k}
        BY <3>3, <1>2, <1>5
      <4> QED BY <4>1, <3>1, <1>2, <1>3
    <3> QED BY <3>2, <3>3
  <2> QED BY <2>1, <2>2, <2>3, <2>4 DEF Decided
<1> QED BY <1>5, <1>8, <1>9, <1>10 DEF Resolved

LEMMA DeliverResolved ==
  ASSUME EditCore, Ordered, Resolved, NEW k \in Connections, DeliverAnswer(k),
         "status" \notin strayed', editor'.state # "closed"
  PROVE  Ordered' /\ Resolved'
<1>t. /\ EditTypeOK /\ post \in [Connections -> Post] /\ editor \in Editor
      /\ UNCHANGED <<news, job>>
  BY DEF EditCore, EditTyped, EditTypeOK, DeliverAnswer, vars
<1>1. CASE /\ post[k].state = "ok" /\ post[k].kind = "publish"
           /\ post' = [post EXCEPT ![k].kind = "status", ![k].state = "sent"]
           /\ Delivered(k) /\ UNCHANGED <<serving, editor>>
  <2>1. PICK K \in SUBSET Connections : K = {k}
    OBVIOUS
  <2>2. Ordered'
    BY <1>1, <2>1, OrderedForgotten DEF Delivered
  <2>3. /\ post'[k].kind = "status" /\ post'[k].state = "sent"
        /\ \A c \in Connections \ {k} : post'[c] = post[c]
    BY <1>1, <1>t DEF Post
  <2>4. Deleted => Deleted'
    BY <2>3, <1>1 DEF Deleted, Busy
  <2>5. Removed => Removed'
    BY <2>3, <1>1 DEF Removed
  <2>6. Continues'
    BY <2>3 DEF Continues
  <2>7. Decided => Decided'
    BY <2>6, <1>t DEF Decided, Exists
  <2> QED BY <2>2, <2>4, <2>5, <2>7 DEF Resolved
<1>2. CASE /\ post[k].state = "failed" /\ post' = [post EXCEPT ![k] = NoPost]
           /\ Stray(Unheard(k), TRUE) /\ UNCHANGED <<browserVars, editor>>
  <2>1. post[k].kind # "status"
    BY <1>2 DEF Unheard, Stray
  <2>2. \A c \in Connections \ {k} : post'[c] = post[c]
    BY <1>2, <1>t
  <2>3. Ordered' /\ UNCHANGED <<stored, serving>>
    BY <1>2, OrderedKept DEF browserVars
  <2>4. \A c \in Connections : Busy(c) => post'[c] = post[c]
    BY <2>2, <1>2 DEF Busy
  <2>5. Continues => Continues'
    BY <2>1, <2>2 DEF Continues
  <2>6. MidSave => MidSave'
    BY <2>3, <1>t DEF MidSave, At
  <2>7. \A c \in InStore : post'[c].kind = post[c].kind
    BY <2>4 DEF InStore, EditCore, PostsOK, PostOK, Busy
  <2>8. ASSUME Decided PROVE Decided'
    <3>1. Exists(Shown)'
      BY <2>8, <1>t DEF Decided, Exists
    <3> QED BY <3>1, <2>3, <2>5, <2>6, <2>7, <2>8, <1>2, <1>t, DecidedKept
  <2> QED BY <2>3, <2>4, <2>8, ResolvedKept
<1>3. CASE post[k].state = "ok" /\ post[k].kind \in {"save", "status"}
  BY <1>3, SavedResolved
<1>4. CASE CloseEditor
  BY <1>4 DEF CloseEditor, ClosedEditor
<1> QED BY <1>1, <1>2, <1>3, <1>4 DEF DeliverAnswer

\* Connections are cut off whose requests did not reach the server.
LEMMA CutResolved ==
  ASSUME EditCore, Ordered, Resolved, NEW K \in SUBSET Connections, Disconnect(K),
         \A k \in K : "status" \notin Unheard(k),
         \A k \in Connections \ K : post'[k] = post[k],
         \A w \in Workers : serving[w] \in Connections \ K => job'[w] = job[w],
         UNCHANGED <<news, editor>>
  PROVE  Ordered' /\ Resolved'
<1>1. \A k \in K : ~Busy(k) /\ post[k].kind # "status"
  BY DEF Unheard, Busy
<1>2. K \cap InStore = {}
  BY <1>1 DEF InStore, EditCore, PostsOK, PostOK, Busy
<1>3. \A k \in Connections : stored'[k] = stored[k]
  BY <1>2, ForgottenNone DEF Disconnect
<1>4. Ordered'
  BY <1>3, OrderedKept
<1>5. \A w \in Workers : serving[w] # NoConnection => serving[w] \in Connections \ K
  BY <1>1, ServedPosted DEF Busy
<1>6. MidSave => MidSave'
  BY <1>5 DEF MidSave, Disconnect, At
<1>7. Continues => Continues'
  BY <1>1 DEF Continues
<1>8. \A k \in Connections : Busy(k) => post'[k] = post[k]
  BY <1>1
<1>9. \A k \in InStore : post'[k].kind = post[k].kind
  BY <1>2 DEF InStore
<1>10. ASSUME Decided PROVE Decided'
  <2>1. Exists(Shown)'
    BY <1>10 DEF Decided, Exists
  <2> QED BY <2>1, <1>3, <1>6, <1>7, <1>9, <1>10, DecidedKept
<1> QED BY <1>4, <1>8, <1>10, ResolvedKept

\* The user's and the browser's side.
LEMMA UserResolved ==
  ASSUME EditCore, Ordered, Resolved, NEW k \in Connections,
         ClickSave(k) \/ ClickPublish(k) \/ ClickRemove(k) \/ ClickBack(k) \/ RefusePost(k)
  PROVE  Ordered' /\ Resolved'
<1>t. /\ EditTyped /\ EditTypeOK /\ post \in [Connections -> Post] /\ \A c \in Connections : PostOK(c)
  BY DEF EditCore, EditTyped, EditTypeOK, PostsOK
<1>u. UNCHANGED <<news, job, serving, stored, editor>>
  BY DEF ClickSave, ClickPublish, ClickRemove, ClickBack, Send, RefusePost, vars, browserVars
<1>1. /\ ~Busy(k) /\ k \notin InStore
      /\ post[k].kind = "status" /\ post[k].state # "ok" => post'[k].kind = "status" /\ post'[k].state # "ok"
      /\ \A c \in Connections \ {k} : post'[c] = post[c]
  <2>1. ASSUME NEW kind \in Kinds, Send(k, kind)
        PROVE  post[k] = NoPost /\ \A c \in Connections \ {k} : post'[c] = post[c]
    BY <2>1, <1>t, SendTyped DEF Send
  <2>2. ASSUME RefusePost(k)
        PROVE  /\ post[k].state = "sent" /\ \A c \in Connections \ {k} : post'[c] = post[c]
               /\ post'[k].state = "failed" /\ post'[k].kind = post[k].kind
    BY <2>2, <1>t, PostTyped DEF RefusePost
  <2>3. NoPost.kind = "save" /\ NoPost.state = "none"
    BY DEF NoPost
  <2>4. \/ post[k] = NoPost
        \/ /\ post[k].state = "sent" /\ post'[k].state = "failed" /\ post'[k].kind = post[k].kind
    BY <2>1, <2>2 DEF ClickSave, ClickPublish, ClickRemove, ClickBack, Kinds
  <2>5. \A c \in Connections \ {k} : post'[c] = post[c]
    BY <2>1, <2>2 DEF ClickSave, ClickPublish, ClickRemove, ClickBack, Kinds
  <2> QED BY <2>3, <2>4, <2>5, <1>t DEF Busy, InStore, PostOK
<1>2. Ordered'
  BY <1>u, OrderedKept
<1>3. \A c \in Connections : Busy(c) => post'[c] = post[c]
  BY <1>1
<1>4. \A c \in InStore : post'[c].kind = post[c].kind
  BY <1>1 DEF InStore
<1>5. Continues => Continues'
  BY <1>1 DEF Continues
<1>6. MidSave => MidSave'
  BY <1>u DEF MidSave, At
<1>7. ASSUME Decided PROVE Decided'
  <2>1. Exists(Shown)'
    BY <1>7, <1>u DEF Decided, Exists
  <2> QED BY <2>1, <1>4, <1>5, <1>6, <1>7, <1>u, DecidedKept
<1> QED BY <1>2, <1>3, <1>7, ResolvedKept

LEMMA ScriptResolved ==
  ASSUME EditCore, Ordered, Resolved, LoadEditor \/ TypeText \/ UNCHANGED allEditVars
  PROVE  Ordered' /\ Resolved'
<1>u. UNCHANGED <<news, job, serving, stored, post>>
  BY DEF LoadEditor, TypeText, allEditVars, vars, browserVars, editVars
<1>1. editor'.status = editor.status
  <2>1. editor \in Editor
    BY DEF EditCore, EditTyped, EditTypeOK
  <2> QED BY <2>1 DEF LoadEditor, TypeText, allEditVars, editVars, Editor
<1>2. Ordered'
  BY <1>u, OrderedKept
<1>3. ASSUME Decided PROVE Decided'
  <2>1. Exists(Shown)'
    BY <1>3, <1>u DEF Decided, Exists
  <2>2. MidSave => MidSave'
    BY <1>u DEF MidSave, At
  <2>3. Continues => Continues'
    BY <1>u DEF Continues
  <2> QED BY <2>1, <2>2, <2>3, <1>1, <1>3, <1>u, DecidedKept
<1> QED BY <1>2, <1>3, <1>u, ResolvedKept

\* Other requests leave the entry alone, or the status goes astray.
LEMMA ElsewhereResolved ==
  ASSUME EditCore, Ordered, Resolved, NEW w \in Workers, ElsewhereEdit(w),
         editor.state # "closed", "status" \notin strayed'
  PROVE  Ordered' /\ Resolved'
<1>t. TypeInv /\ AboutShown /\ UNCHANGED <<serving, stored, editor, post>>
  BY DEF EditCore, EditTyped, ElsewhereEdit, browserVars
<1>1. ~AtWork(w)
  BY DEF ElsewhereEdit, Stray
<1>2. At(w, "idle")
  BY <1>1, <1>t DEF AtWork, AboutShown
<1>3. CreateNew(w)
  BY <1>2 DEF ElsewhereEdit, WritesContent, LosesContent, Publish, Hide, DeleteLikes, DeleteRow, At
<1>4. job' = job
  BY <1>3 DEF CreateNew
<1>5. Exists(Shown) => Exists(Shown)' /\ news'[Shown] = news[Shown]
  BY <1>3, <1>t, NewEntryKeeps
<1>6. Ordered'
  BY <1>t, OrderedKept
<1>7. ASSUME Decided PROVE Decided'
  <2>1. Exists(Shown)' /\ news'[Shown].status = news[Shown].status
    BY <1>5, <1>7 DEF Decided
  <2>2. MidSave => MidSave'
    BY <1>t, <1>4 DEF MidSave, At
  <2>3. Continues => Continues'
    BY <1>t DEF Continues
  <2> QED BY <2>1, <2>2, <2>3, <1>t, <1>7, DecidedKept
<1> QED BY <1>6, <1>7, <1>t, ResolvedKept

\* Every step but the first is one of a page that is not closed.
LEMMA EditorBefore ==
  ASSUME EditTyped, [EditNext]_allEditVars, ~AskEditor, editor'.state # "closed"
  PROVE  editor.state # "closed"
<1>1. CASE UNCHANGED editor
  BY <1>1
<1>2. CASE \E k \in Connections : DeliverAnswer(k)
  BY <1>2, PostedOpen DEF DeliverAnswer
<1>3. CASE LoadEditor \/ TypeText \/ LeaveEditor
  BY <1>3 DEF LoadEditor, TypeText, LeaveEditor, Open
<1> QED
  BY <1>1, <1>2, <1>3
  DEF EditNext, allEditVars, editVars, ClickSave, ClickPublish, ClickRemove, ClickBack, Send, RefusePost,
      PostFails, ServePost, ServeEdit, ElsewhereEdit, RestartEdit

LEMMA StatusStays == EditCore /\ StatusInv /\ [EditNext]_allEditVars => StatusInv'
<1> SUFFICES ASSUME EditCore, StatusInv, [EditNext]_allEditVars,
                    editor'.state # "closed", "status" \notin strayed'
             PROVE  Alone' /\ Ordered' /\ Resolved'
  BY DEF StatusInv, Resolved
<1>t. EditTyped /\ post \in [Connections -> Post] /\ PostsOK
  BY DEF EditCore, EditTyped, EditTypeOK
<1>1. CASE AskEditor
  <2>1. \A k \in Connections : post[k].state = "none"
    BY <1>1, <1>t DEF AskEditor, EditTyped, EditOK, Open, NoPost
  <2>2. \A w \in Workers : serving[w] = NoConnection
    BY <2>1, ServedPosted
  <2>3. \A k \in Connections : stored[k] = {}
    BY <2>1, <1>t DEF PostsOK, PostOK, IsStored
  <2>4. /\ UNCHANGED <<news, serving, stored>> /\ editor'.status = news[Shown].status /\ Exists(Shown)
    BY <1>1 DEF AskEditor, Visible, vars, browserVars
  <2>5. Alone'
    BY <2>2, <2>4 DEF Alone
  <2>6. InStore' = {}
    BY <2>3, <2>4 DEF InStore, IsStored
  <2>7. Ordered'
    BY <2>6 DEF Ordered
  <2>8. Decided'
    BY <2>4, <2>6 DEF Decided, Exists
  <2> QED BY <2>5, <2>7, <2>8 DEF Resolved
<1>c. CASE ~AskEditor
  <2>1. editor.state # "closed"
    BY <1>c, <1>t, EditorBefore
  <2>2. "status" \notin strayed
    BY <2>1, <1>t, StrayedMore
  <2>3. Alone /\ Ordered /\ Resolved
    BY <2>1, <2>2 DEF StatusInv, Resolved
  <2>4. Alone'
    BY <2>3, AloneStays
  <2>5. Ordered' /\ Resolved'
    <3>1. ASSUME NEW k \in Connections, PostFails(k) PROVE Ordered' /\ Resolved'
      <4>1. PICK K \in SUBSET Connections : K = {k}
        OBVIOUS
      <4>2. Disconnect(K) /\ UNCHANGED <<news, job, editor>>
        BY <3>1, <4>1 DEF PostFails, vars
      <4>3. \A c \in K : "status" \notin Unheard(c)
        BY <3>1, <4>1 DEF PostFails, Stray
      <4>4. \A c \in Connections \ K : post'[c] = post[c]
        BY <3>1, <4>1, <1>t DEF PostFails
      <4> QED BY <2>3, <4>2, <4>3, <4>4, CutResolved
    <3>2. CASE RestartEdit
      <4>1. PICK K \in SUBSET Connections :
              /\ Disconnect(K) /\ K = {k \in Connections : post[k].state \in {"sent", "served"}}
              /\ post' = [k \in Connections |-> IF k \in K THEN NoPost ELSE post[k]]
              /\ strayed' = strayed \cup {s \in {"status"} : news' # news} \cup UNION {Unheard(k) : k \in K}
        BY <3>2 DEF RestartEdit
      <4>2. \A k \in K : "status" \notin Unheard(k)
        BY <4>1
      <4>3. UNCHANGED <<news, editor>>
        <5>1. news' = news
          BY <4>1
        <5> QED BY <5>1, <3>2 DEF RestartEdit
      <4>4. \A k \in Connections \ K : post'[k] = post[k]
        BY <4>1
      <4>5. \A w \in Workers : serving[w] \in Connections \ K => job'[w] = job[w]
        BY <4>1, ServedPosted, BrowserAssumption
      <4> QED BY <2>3, <4>1, <4>2, <4>3, <4>4, <4>5, CutResolved
    <3>3. CASE LeaveEditor
      BY <3>3 DEF LeaveEditor, CloseEditor, ClosedEditor
    <3> QED
      BY <2>1, <2>3, <3>1, <3>2, <3>3, <1>c, ServePostResolved, ServeEditResolved, DeliverResolved, UserResolved,
         ScriptResolved, ElsewhereResolved
      DEF EditNext
  <2> QED BY <2>4, <2>5
<1> QED BY <1>1, <1>c

-----------------------------------------------------------------------------
(* The entry's text.  The tables have the page's text if the page takes it  *)
(* for saved, or if the answer is on its way that will make it do so,       *)
(* unless a save of an older text is behind it.                             *)

\* A text is typed later than all that is sent or stored.
Fresh ==
  /\ editor.text.info <= typed /\ kept.info <= typed
  /\ \A k \in Connections : post[k].text.info <= typed
\* The save that is served has its first statement behind it.
HalfKept ==
  \A w \in Workers : serving[w] # NoConnection /\ At(w, "content") =>
                       kept.info = post[serving[w]].text.info
Settles(k) == (post[k].state = "ok" /\ Saves(k)) \/ post[k].kind = "status"
Trusted == ~editor.dirty \/ \E k \in Connections : Settles(k) /\ ~Outdated(k)
Spoils(k) == Saves(k) /\ Busy(k) /\ Outdated(k)
Spoiled == \E k \in Connections : Spoils(k)
Recorded ==
  /\ Exists(Shown) /\ HalfKept
  /\ Trusted => Spoiled \/ kept = editor.text
TextInv ==
  editor.state # "closed" /\ "text" \notin strayed => Alone /\ (Deleted \/ Recorded)

LEMMA FreshStays == EditCore /\ Fresh /\ [EditNext]_allEditVars => Fresh'
<1> SUFFICES ASSUME EditCore, Fresh, [EditNext]_allEditVars PROVE Fresh'
  OBVIOUS
<1>t. /\ EditTyped /\ EditTypeOK /\ post \in [Connections -> Post] /\ editor \in Editor
      /\ kept \in Text /\ typed \in Int /\ typed >= 0
  BY DEF EditCore, EditTyped, EditTypeOK, Texts
<1>n. NoPost.text.info = 0 /\ ClosedEditor.text.info = 0
  BY DEF NoPost, Blank, ClosedEditor
<1>a. ASSUME typed' = typed, editor'.text = editor.text \/ editor' = ClosedEditor, kept'.info <= typed,
             \A k \in Connections : post'[k] = NoPost \/ post'[k].text = post[k].text
      PROVE  Fresh'
  BY <1>a, <1>n, <1>t DEF Fresh
<1>s. ASSUME NEW k \in Connections, NEW state \in {"none", "sent", "served", "ok", "failed"}, SetPost(k, state),
             NEW c \in Connections
      PROVE  post'[c].text = post[c].text
  BY <1>s, <1>t, PostTyped
<1>k. kept.info <= typed
  BY DEF Fresh
<1>1. CASE UNCHANGED allEditVars \/ LoadEditor \/ LeaveEditor
  BY <1>1, <1>a, <1>k, <1>t DEF allEditVars, editVars, LoadEditor, LeaveEditor, CloseEditor, Editor
<1>2. CASE AskEditor
  BY <1>2 DEF AskEditor, Fresh
<1>3. CASE TypeText
  <2>1. CASE /\ typed' = typed + 1
             /\ editor' = [editor EXCEPT !.text = [info |-> typed', content |-> typed'], !.dirty = TRUE]
    <3>1. editor'.text.info = typed + 1
      BY <2>1, <1>t DEF Editor
    <3>2. \A k \in Connections : post[k].text.info \in Int
      BY <1>t DEF Post, Text, Texts
    <3> QED BY <1>3, <2>1, <3>1, <3>2, <1>t DEF TypeText, Fresh, Text, Texts
  <2>2. CASE editor' = [editor EXCEPT !.dirty = TRUE] /\ UNCHANGED typed
    BY <1>3, <2>2, <1>a, <1>k, <1>t DEF TypeText, Editor
  <2> QED BY <1>3, <2>1, <2>2 DEF TypeText
<1>4. ASSUME NEW k \in Connections, NEW kind \in Kinds, Send(k, kind) PROVE Fresh'
  <2>1. /\ post'[k] = [state |-> "sent", kind |-> kind, text |-> editor.text]
        /\ \A c \in Connections \ {k} : post'[c] = post[c]
    BY <1>4, <1>t, SendTyped
  <2>2. post'[k].text = editor.text
    BY <2>1
  <2> QED BY <1>4, <2>1, <2>2 DEF Send, Fresh
<1>5. ASSUME NEW w \in Workers, NEW k \in Connections, ServePost(w, k) PROVE Fresh'
  <2>1. kept' = kept \/ kept' = [kept EXCEPT !.info = post[k].text.info]
    BY <1>5, <1>t DEF ServePost, Text
  <2>2. kept'.info <= typed
    BY <2>1, <1>t DEF Fresh, Text
  <2>3. \A c \in Connections : post'[c].text = post[c].text
    BY <1>5, <1>s DEF ServePost
  <2> QED BY <1>5, <2>2, <2>3, <1>a DEF ServePost
<1>6. ASSUME NEW w \in Workers, ServeEdit(w) PROVE Fresh'
  <2>1. kept'.info = kept.info
    BY <1>6, <1>t DEF ServeEdit, WritesContent, LosesContent, Text
  <2>2. serving[w] \in Connections
    BY <1>6, ServedPosted DEF ServeEdit
  <2>3. \A c \in Connections : post'[c].text = post[c].text
    <3>1. UNCHANGED post \/ SetPost(serving[w], "ok") \/ SetPost(serving[w], "failed")
      BY <1>6 DEF ServeEdit, Effect, Failure
    <3>2. PICK k \in Connections : k = serving[w]
      BY <2>2
    <3>3. CASE SetPost(k, "ok")
      BY <3>3, <1>s
    <3>4. CASE SetPost(k, "failed")
      BY <3>4, <1>s
    <3> QED BY <3>1, <3>2, <3>3, <3>4
  <2> QED BY <1>6, <2>1, <2>3, <1>a, <1>k DEF ServeEdit
<1>7. ASSUME NEW w \in Workers, ElsewhereEdit(w) PROVE Fresh'
  <2>1. kept'.info = kept.info
    BY <1>7, <1>t DEF ElsewhereEdit, WritesContent, LosesContent, Text
  <2> QED BY <1>7, <2>1, <1>a, <1>k DEF ElsewhereEdit
<1>8. ASSUME NEW k \in Connections, DeliverAnswer(k) PROVE Fresh'
  <2>1. editor'.text = editor.text \/ editor' = ClosedEditor
    <3>1. CASE editor' = Saved(editor, post[k].kind)
      BY <3>1, <1>t, SavedTyped
    <3> QED BY <3>1, <1>8 DEF DeliverAnswer, CloseEditor
  <2>2. \A c \in Connections : post'[c] = NoPost \/ post'[c].text = post[c].text
    <3>1. CASE post' = [post EXCEPT ![k].kind = "status", ![k].state = "sent"]
      <4>1. post[k] \in Post
        BY <1>t
      <4> QED BY <3>1, <4>1, <1>t DEF Post
    <3>2. CASE post' = [post EXCEPT ![k] = NoPost] \/ post' = [c \in Connections |-> NoPost]
      BY <3>2, <1>t
    <3> QED BY <3>1, <3>2, <1>8 DEF DeliverAnswer, CloseEditor
  <2> QED BY <1>8, <2>1, <2>2, <1>a, <1>k DEF DeliverAnswer
<1>9. ASSUME NEW k \in Connections, RefusePost(k) \/ PostFails(k) PROVE Fresh'
  <2>1. \A c \in Connections : post'[c] = NoPost \/ post'[c].text = post[c].text
    BY <1>9, <1>s, <1>t DEF RefusePost, PostFails
  <2> QED BY <1>9, <2>1, <1>a, <1>k DEF RefusePost, PostFails
<1>10. CASE RestartEdit
  BY <1>10, <1>a, <1>k DEF RestartEdit
<1> QED
  BY <1>1, <1>2, <1>3, <1>4, <1>5, <1>6, <1>7, <1>8, <1>9, <1>10
  DEF EditNext, ClickSave, ClickPublish, ClickRemove, ClickBack, Kinds

LEMMA RecordedKept ==
  ASSUME Recorded, UNCHANGED kept, editor'.text = editor.text, Exists(Shown)', HalfKept',
         ~editor'.dirty => Trusted,
         \A k \in Connections : Settles(k)' => Settles(k) /\ post'[k].text = post[k].text,
         \A k \in Connections : Spoils(k) => post'[k] = post[k] \/ Spoils(k)'
  PROVE  Recorded'
<1>1. Trusted' => Trusted
  BY DEF Trusted, Outdated
<1>2. Spoiled => Spoiled'
  BY DEF Spoiled, Spoils, Saves, Busy, Outdated
<1> QED BY <1>1, <1>2 DEF Recorded

LEMMA HalfStays ==
  ASSUME HalfKept, UNCHANGED kept,
         \A w \in Workers : serving'[w] # NoConnection =>
            /\ serving'[w] = serving[w]
            /\ job'[w].pc = "content" => job[w].pc = "content"
            /\ post'[serving[w]].text = post[serving[w]].text
  PROVE  HalfKept'
<1>1. ASSUME NEW w \in Workers, serving'[w] # NoConnection, job'[w].pc = "content"
      PROVE  kept'.info = post'[serving'[w]].text.info
  <2>1. /\ serving'[w] = serving[w] /\ job[w].pc = "content"
        /\ post'[serving[w]].text = post[serving[w]].text
    BY <1>1
  <2>2. kept.info = post[serving[w]].text.info
    BY <1>1, <2>1 DEF HalfKept, At
  <2> QED BY <2>1, <2>2
<1> QED BY <1>1 DEF HalfKept, At

\* Requests that may record a text, or have done so, stay what they are.
LEMMA TextKept ==
  ASSUME Deleted \/ Recorded, \A k \in Connections : Busy(k) => post'[k] = post[k],
         Recorded => Recorded'
  PROVE  Deleted' \/ Recorded'
BY DEF Deleted, Busy

LEMMA NobodyHalf == ASSUME \A w \in Workers : serving'[w] = NoConnection PROVE HalfKept'
BY DEF HalfKept

LEMMA ServePostText ==
  ASSUME EditCore, Deleted \/ Recorded, NEW w \in Workers, NEW k \in Connections, ServePost(w, k),
         "text" \notin strayed'
  PROVE  Deleted' \/ Recorded'
<1>t. /\ EditTypeOK /\ TypeInv /\ post[k] \in Post /\ post[k].state = "sent" /\ kept \in Text
      /\ serving \in [Workers -> Connections \cup {NoConnection}] /\ UNCHANGED editor
  BY DEF ServePost, EditCore, EditTyped, EditTypeOK, BrowserTypeOK
<1>1. /\ post'[k].state = "served" /\ post'[k].kind = post[k].kind /\ post'[k].text = post[k].text
      /\ \A c \in Connections \ {k} : post'[c] = post[c]
  BY <1>t, PostTyped DEF ServePost
<1>2. \A v \in Workers : serving[v] = NoConnection
  <2>1. ~\E v \in Workers : AtWork(v)
    BY DEF ServePost, Stray
  <2> QED BY <2>1, NoOne
<1>3. serving'[w] = k /\ k # NoConnection /\ \A v \in Workers \ {w} : serving'[v] = NoConnection
  BY <1>t, <1>2, BrowserAssumption DEF ServePost, Serves
<1>b. \A c \in Connections : Busy(c) => post'[c] = post[c]
  BY <1>1, <1>t DEF Busy
<1>4. \A c \in Connections : Settles(c)' => Settles(c) /\ post'[c].text = post[c].text
  BY <1>1 DEF Settles, Saves
<1>5. \A c \in Connections : Spoils(c) => post'[c] = post[c]
  BY <1>b DEF Spoils
<1>6. ~editor'.dirty => Trusted
  BY <1>t DEF Trusted
<1>7. CASE Saves(k)
  <2>1. DOMAIN news' = DOMAIN news
    BY <1>7 DEF ServePost, StoreInfo, Saves
  <2>2. kept' = [kept EXCEPT !.info = IF Exists(Shown) THEN post[k].text.info ELSE @]
    BY <1>7 DEF ServePost, Saves
  <2>3. ASSUME Recorded PROVE Recorded'
    <3>1. Exists(Shown) /\ Exists(Shown)' /\ kept'.info = post'[k].text.info
      BY <2>1, <2>2, <2>3, <1>1, <1>t DEF Recorded, Exists, Text
    <3>2. HalfKept'
      BY <3>1, <1>3 DEF HalfKept
    <3>3. CASE Outdated(k)
      <4>1. Spoils(k)'
        BY <3>3, <1>1, <1>7, <1>t DEF Spoils, Busy, Saves, Outdated
      <4> QED BY <3>1, <3>2, <4>1 DEF Recorded, Spoiled
    <3>4. CASE ~Outdated(k)
      <4>1. Trusted' => Trusted
        BY <1>4, <1>6, <1>t DEF Trusted, Outdated
      <4>2. Spoiled => Spoiled'
        BY <1>5, <1>t DEF Spoiled, Spoils, Saves, Busy, Outdated
      <4>3. kept = editor.text => kept' = editor'.text
        BY <3>1, <3>4, <2>2, <1>t DEF Outdated, Text
      <4> QED BY <2>3, <3>1, <3>2, <4>1, <4>2, <4>3 DEF Recorded
    <3> QED BY <3>3, <3>4
  <2> QED BY <2>3, <1>b, TextKept
<1>8. CASE post[k].kind \in {"status", "remove"}
  <2>1. UNCHANGED <<news, kept>>
    BY <1>8 DEF ServePost, Saves, BeginPublish, BeginRemove, Reads, tables
  <2>2. ~At(w, "content")'
    BY <1>8, <1>t, ServePostJumps DEF Jumps, At
  <2>3. HalfKept'
    BY <2>2, <1>3 DEF HalfKept
  <2>4. ASSUME Recorded PROVE Recorded'
    <3>1. Exists(Shown)'
      BY <2>1, <2>4 DEF Recorded, Exists
    <3> QED BY <3>1, <2>1, <2>3, <2>4, <1>4, <1>5, <1>6, <1>t, RecordedKept
  <2> QED BY <2>4, <1>b, TextKept
<1>9. CASE post[k].kind = "delete"
  BY <1>1, <1>9 DEF Deleted, Busy
<1> QED BY <1>7, <1>8, <1>9, <1>t DEF Saves, Post, Kinds

LEMMA ServeEditText ==
  ASSUME EditCore, Alone, Deleted \/ Recorded, NEW w \in Workers, ServeEdit(w), "text" \notin strayed'
  PROVE  Deleted' \/ Recorded'
<1>k. PICK k \in Connections : k = serving[w]
  BY ServedPosted DEF ServeEdit
<1>t. /\ EditTypeOK /\ TypeInv /\ post[k] \in Post /\ post[k].state = "served" /\ k # NoConnection
      /\ ServedPost(w) /\ job[w].code = Shown /\ kept \in Text
      /\ serving \in [Workers -> Connections \cup {NoConnection}] /\ UNCHANGED editor
  BY <1>k, ServedPosted, BrowserAssumption
  DEF ServeEdit, EditCore, EditTyped, EditTypeOK, BrowserTypeOK
<1>1. \A v \in Workers : serving[v] # NoConnection => v = w
  BY OnlyOne DEF ServeEdit
<1>p. /\ At(w, "content") => post[k].kind \in {"save", "publish"}
      /\ At(w, "publish") => post[k].kind = "status"
      /\ At(w, "hide") => post[k].kind = "remove"
      /\ At(w, "likes") \/ At(w, "row") => post[k].kind = "delete"
  BY <1>k, <1>t DEF ServedPost, Saves, At, Post, Kinds
<1>2. ASSUME NEW state \in {"ok", "failed"}, SetPost(k, state)
      PROVE  /\ post'[k].state = state /\ post'[k].kind = post[k].kind /\ post'[k].text = post[k].text
             /\ \A c \in Connections \ {k} : post'[c] = post[c]
  BY <1>2, <1>t, PostTyped
<1>h. ASSUME Serves(w, NoConnection) PROVE HalfKept'
  <2>1. \A v \in Workers : serving'[v] = NoConnection
    BY <1>1, <1>h, <1>t DEF Serves
  <2> QED BY <2>1, NobodyHalf
<1>d. ASSUME NEW state \in {"ok", "failed"}, SetPost(k, state), post[k].kind # "delete" PROVE Deleted => Deleted'
  <2>1. \A c \in Connections \ {k} : post'[c] = post[c]
    BY <1>2, <1>d
  <2> QED BY <2>1, <1>d DEF Deleted, Busy
<1>6. ~editor'.dirty => Trusted
  BY <1>t DEF Trusted
\* The content of a save is stored.
<1>3. CASE WritesContent(w) /\ Effect(w)
  <2>1. /\ post'[k].state = "ok" /\ post'[k].kind = post[k].kind /\ post'[k].text = post[k].text
        /\ post[k].kind \in {"save", "publish"} /\ \A c \in Connections \ {k} : post'[c] = post[c]
    BY <1>2, <1>3, <1>k, <1>p DEF Effect, WritesContent
  <2>2. HalfKept' /\ (Deleted => Deleted')
    BY <1>3, <1>h, <1>d, <1>k, <2>1 DEF Effect
  <2>3. ASSUME Recorded PROVE Recorded'
    <3>1. Exists(Shown) /\ Exists(Shown)'
      BY <1>3, <1>t, <2>3, StatusWritten DEF WritesContent, Recorded, Exists
    <3>2. kept.info = post[k].text.info /\ carries[w] = post[k].text.content /\ post[k].text \in Text
      BY <1>3, <1>k, <1>t, <2>1, <2>3 DEF Recorded, HalfKept, WritesContent, ServedPost, Saves, ServeEdit, Post
    <3>3. kept' = post[k].text
      BY <1>3, <3>1, <3>2, <1>t DEF WritesContent, Text
    <3>4. CASE Outdated(k)
      <4>1. Spoils(k)'
        BY <3>4, <2>1, <1>t DEF Spoils, Busy, Saves, Outdated
      <4> QED BY <2>2, <3>1, <4>1 DEF Recorded, Spoiled
    <3>5. CASE ~Outdated(k)
      BY <2>2, <3>1, <3>3, <3>5, <1>t DEF Recorded, Outdated
    <3> QED BY <3>4, <3>5
  <2> QED BY <2>2, <2>3
\* The text is as before.
<1>4. ASSUME NEW state \in {"ok", "failed"}, SetPost(k, state), Serves(w, NoConnection), UNCHANGED kept,
             post[k].kind # "delete", Saves(k) => state = "failed" /\ ~Outdated(k),
             DOMAIN news' = DOMAIN news
      PROVE  Deleted' \/ Recorded'
  <2>1. /\ post'[k].state = state /\ post'[k].kind = post[k].kind /\ post'[k].text = post[k].text
        /\ \A c \in Connections \ {k} : post'[c] = post[c]
    BY <1>2, <1>4
  <2>2. HalfKept' /\ (Deleted => Deleted')
    BY <1>4, <1>h, <1>d
  <2>3. \A c \in Connections : Settles(c)' => Settles(c) /\ post'[c].text = post[c].text
    BY <2>1, <1>4 DEF Settles, Saves
  <2>4. \A c \in Connections : Spoils(c) => post'[c] = post[c]
    BY <2>1, <1>4 DEF Spoils
  <2>5. ASSUME Recorded PROVE Recorded'
    <3>1. Exists(Shown)'
      BY <1>4, <2>5 DEF Recorded, Exists
    <3> QED BY <3>1, <2>2, <2>3, <2>4, <2>5, <1>4, <1>6, <1>t, RecordedKept
  <2> QED BY <2>2, <2>5
<1>5. CASE LosesContent(w) /\ Failure(w) /\ Stray(Unheard(serving[w]), TRUE)
  <2>1. ~Outdated(k) /\ post[k].kind # "delete"
    BY <1>5, <1>k, <1>t DEF Unheard, Stray
  <2> QED BY <2>1, <1>4, <1>5, <1>k DEF LosesContent, Failure, Fails, Reads, tables
<1>7. CASE At(w, "publish") /\ WriteStatus(w, 3) /\ Effect(w) /\ UNCHANGED kept
  <2>1. DOMAIN news' = DOMAIN news
    BY <1>7, <1>t, StatusWritten
  <2> QED BY <2>1, <1>4, <1>7, <1>k, <1>p DEF Effect, Saves
<1>8. CASE At(w, "publish") /\ Fails(w) /\ Failure(w) /\ UNCHANGED kept
  BY <1>4, <1>8, <1>k, <1>p DEF Failure, Saves, Fails, Reads, tables
<1>9. CASE /\ Hide(w) /\ UNCHANGED kept /\ Serves(w, NoConnection)
           /\ SetPost(serving[w], "ok") \/ SetPost(serving[w], "failed")
  <2>1. DOMAIN news' = DOMAIN news
    BY <1>9 DEF Hide, SetStatus
  <2>2. post[k].kind = "remove"
    BY <1>9, <1>p DEF Hide
  <2> QED BY <2>1, <2>2, <1>4, <1>9, <1>k DEF Saves
<1>10. CASE DeleteLikes(w) /\ UNCHANGED <<post, serving, stored, strayed>>
  BY <1>10, <1>t, <1>p DEF DeleteLikes, Deleted, Busy
<1>11. CASE DeleteRow(w) /\ SetPost(serving[w], "ok") /\ UNCHANGED <<stored, strayed>>
  <2>1. post[k].kind = "delete" /\ post'[k].state = "ok" /\ post'[k].kind = post[k].kind
    BY <1>11, <1>2, <1>k, <1>p DEF DeleteRow
  <2> QED BY <2>1 DEF Deleted, Busy
<1> QED BY <1>3, <1>5, <1>7, <1>8, <1>9, <1>10, <1>11 DEF ServeEdit, Failure

LEMMA DeliverText ==
  ASSUME EditCore, Deleted \/ Recorded, NEW k \in Connections, DeliverAnswer(k),
         "text" \notin strayed', editor'.state # "closed"
  PROVE  Deleted' \/ Recorded'
<1>t. /\ EditTypeOK /\ post \in [Connections -> Post] /\ post[k] \in Post /\ editor \in Editor
      /\ UNCHANGED <<news, job, kept>>
  BY DEF EditCore, EditTyped, EditTypeOK, DeliverAnswer, vars
<1>h. ASSUME HalfKept, UNCHANGED serving, \A c \in Connections \ {k} : post'[c] = post[c],
             post[k].state # "served"
      PROVE  HalfKept'
  <2>1. ASSUME NEW w \in Workers, serving'[w] # NoConnection
        PROVE  /\ serving'[w] = serving[w]
               /\ job'[w].pc = "content" => job[w].pc = "content"
               /\ post'[serving[w]].text = post[serving[w]].text
    <3>1. serving[w] \in Connections \ {k}
      BY <1>h, <2>1, ServedPosted
    <3> QED BY <3>1, <1>h, <1>t
  <2> QED BY <2>1, <1>h, <1>t, HalfStays
<1>e. Exists(Shown) => Exists(Shown)'
  BY <1>t DEF Exists
<1>n. NoPost.state = "none" /\ NoPost.kind = "save"
  BY DEF NoPost
\* The answer says that the page's text is stored.
<1>1. CASE post[k].state = "ok" /\ post[k].kind \in {"save", "status"}
  <2>1. /\ editor' = Saved(editor, post[k].kind) /\ post' = [post EXCEPT ![k] = NoPost]
        /\ ~Outdated(k) /\ UNCHANGED serving
    BY <1>1 DEF DeliverAnswer
  <2>2. editor'.text = editor.text
    BY <2>1, <1>t, SavedTyped
  <2>3. post'[k] = NoPost /\ \A c \in Connections \ {k} : post'[c] = post[c]
    BY <2>1, <1>t
  <2>4. Deleted => Deleted'
    BY <2>3, <1>1 DEF Deleted, Busy
  <2>5. Trusted
    BY <2>1, <1>1 DEF Trusted, Settles, Saves
  <2>6. \A c \in Connections : Settles(c)' => Settles(c) /\ post'[c].text = post[c].text
    BY <2>3, <1>n DEF Settles, Saves
  <2>7. \A c \in Connections : Spoils(c) => post'[c] = post[c]
    BY <2>1, <2>3 DEF Spoils
  <2>8. Recorded => HalfKept' /\ Exists(Shown)'
    BY <2>1, <2>3, <1>h, <1>e, <1>1 DEF Recorded
  <2>9. ASSUME Recorded PROVE Recorded'
    BY <2>2, <2>5, <2>6, <2>7, <2>8, <2>9, <1>t, RecordedKept
  <2> QED BY <2>4, <2>9
\* The first half of a publication.
<1>2. CASE /\ post[k].state = "ok" /\ post[k].kind = "publish"
           /\ post' = [post EXCEPT ![k].kind = "status", ![k].state = "sent"]
           /\ Stray({"text"}, Outdated(k)) /\ UNCHANGED <<serving, editor>>
  <2>1. ~Outdated(k)
    BY <1>2 DEF Stray
  <2>2. /\ post'[k].kind = "status" /\ post'[k].text = post[k].text
        /\ \A c \in Connections \ {k} : post'[c] = post[c]
    BY <1>2, <1>t DEF Post
  <2>3. Deleted => Deleted'
    BY <2>2, <1>2 DEF Deleted, Busy
  <2>4. \A c \in Connections : Settles(c)' => Settles(c) /\ post'[c].text = post[c].text
    BY <2>2, <1>2 DEF Settles, Saves
  <2>5. \A c \in Connections : Spoils(c) => post'[c] = post[c]
    BY <2>1, <2>2 DEF Spoils
  <2>6. Recorded => HalfKept' /\ Exists(Shown)'
    BY <2>2, <1>2, <1>h, <1>e DEF Recorded
  <2>7. ASSUME Recorded PROVE Recorded'
    BY <2>4, <2>5, <2>6, <2>7, <1>2, <1>t, RecordedKept DEF Trusted
  <2> QED BY <2>3, <2>7
<1>3. CASE /\ post[k].state = "failed" /\ post' = [post EXCEPT ![k] = NoPost]
           /\ UNCHANGED <<browserVars, editor>>
  <2>1. post'[k] = NoPost /\ \A c \in Connections \ {k} : post'[c] = post[c]
    BY <1>3, <1>t
  <2>2. \A c \in Connections : Busy(c) => post'[c] = post[c]
    BY <2>1, <1>3 DEF Busy
  <2>3. \A c \in Connections : Settles(c)' => Settles(c) /\ post'[c].text = post[c].text
    BY <2>1, <1>n DEF Settles, Saves
  <2>4. \A c \in Connections : Spoils(c) => post'[c] = post[c]
    BY <2>2 DEF Spoils
  <2>5. Recorded => HalfKept' /\ Exists(Shown)'
    BY <2>1, <1>3, <1>h, <1>e DEF Recorded, browserVars
  <2>6. ASSUME Recorded PROVE Recorded'
    BY <2>3, <2>4, <2>5, <2>6, <1>3, <1>t, RecordedKept DEF Trusted
  <2> QED BY <2>2, <2>6, TextKept
<1>4. CASE CloseEditor
  BY <1>4 DEF CloseEditor, ClosedEditor
<1> QED BY <1>1, <1>2, <1>3, <1>4 DEF DeliverAnswer

\* Connections are cut off.
LEMMA CutText ==
  ASSUME EditCore, Deleted \/ Recorded, NEW K \in SUBSET Connections, Disconnect(K),
         \A k \in K : "text" \notin Unheard(k) /\ post'[k] = NoPost,
         \A k \in Connections \ K : post'[k] = post[k],
         \A w \in Workers : serving[w] \in Connections \ K => job'[w] = job[w],
         DOMAIN news' = DOMAIN news, UNCHANGED <<editor, kept>>
  PROVE  Deleted' \/ Recorded'
<1>1. \A k \in K : Busy(k) => post[k].kind # "delete" /\ ~Outdated(k)
  BY DEF Unheard, Busy
<1>2. Deleted => Deleted'
  BY <1>1 DEF Deleted, Busy
<1>3. \A k \in Connections : Settles(k)' => Settles(k) /\ post'[k].text = post[k].text
  BY DEF Settles, Saves, NoPost
<1>4. \A k \in Connections : Spoils(k) => post'[k] = post[k]
  BY <1>1 DEF Spoils
<1>5. ASSUME Recorded PROVE HalfKept' /\ Exists(Shown)'
  <2>1. ASSUME NEW w \in Workers, serving'[w] # NoConnection
        PROVE  /\ serving'[w] = serving[w]
               /\ job'[w].pc = "content" => job[w].pc = "content"
               /\ post'[serving[w]].text = post[serving[w]].text
    <3>1. serving'[w] = serving[w] /\ serving[w] \notin K
      BY <2>1 DEF Disconnect
    <3>2. serving[w] \in Connections
      BY <2>1, <3>1, ServedPosted
    <3> QED BY <3>1, <3>2
  <2> QED BY <2>1, <1>5, HalfStays DEF Recorded, Exists
<1>6. ASSUME Recorded PROVE Recorded'
  BY <1>3, <1>4, <1>5, <1>6, RecordedKept DEF Trusted
<1> QED BY <1>2, <1>6

\* The server and the tables are as before.
LEMMA TablesKept ==
  ASSUME HalfKept, Exists(Shown), UNCHANGED <<news, job, serving, kept>>, EditCore,
         \A k \in Connections : post[k].state = "served" => post'[k] = post[k]
  PROVE  HalfKept' /\ Exists(Shown)'
<1>1. ASSUME NEW w \in Workers, serving'[w] # NoConnection
      PROVE  /\ serving'[w] = serving[w]
             /\ job'[w].pc = "content" => job[w].pc = "content"
             /\ post'[serving[w]].text = post[serving[w]].text
  BY <1>1, ServedPosted
<1> QED BY <1>1, HalfStays DEF Exists

LEMMA UserText ==
  ASSUME EditCore, Deleted \/ Recorded, NEW k \in Connections,
         ClickSave(k) \/ ClickPublish(k) \/ ClickRemove(k) \/ ClickBack(k) \/ RefusePost(k)
  PROVE  Deleted' \/ Recorded'
<1>t. /\ EditTyped /\ EditTypeOK /\ post \in [Connections -> Post]
  BY DEF EditCore, EditTyped, EditTypeOK
<1>u. UNCHANGED <<news, job, serving, editor, kept>>
  BY DEF ClickSave, ClickPublish, ClickRemove, ClickBack, Send, RefusePost, vars, browserVars
<1>1. /\ post[k].state \in {"none", "sent"} /\ \A c \in Connections \ {k} : post'[c] = post[c]
      /\ Settles(k)' => Settles(k) /\ post'[k].text = post[k].text
  <2>1. ASSUME NEW kind \in Kinds, Send(k, kind), kind # "status"
        PROVE  /\ post[k] = NoPost /\ \A c \in Connections \ {k} : post'[c] = post[c]
               /\ ~Settles(k)'
    <3>1. post'[k] = [state |-> "sent", kind |-> kind, text |-> editor.text]
      BY <2>1, <1>t, SendTyped
    <3>2. post'[k].state = "sent" /\ post'[k].kind # "status"
      BY <2>1, <3>1
    <3> QED BY <2>1, <3>2, <1>t, SendTyped DEF Send, Settles
  <2>2. ASSUME RefusePost(k)
        PROVE  /\ post[k].state = "sent" /\ \A c \in Connections \ {k} : post'[c] = post[c]
               /\ Settles(k)' => Settles(k) /\ post'[k].text = post[k].text
    <3>1. /\ post'[k].state = "failed" /\ post'[k].kind = post[k].kind /\ post'[k].text = post[k].text
          /\ \A c \in Connections \ {k} : post'[c] = post[c]
      BY <2>2, <1>t, PostTyped DEF RefusePost
    <3> QED BY <2>2, <3>1 DEF RefusePost, Settles
  <2>3. NoPost.state = "none"
    BY DEF NoPost
  <2> QED BY <2>1, <2>2, <2>3 DEF ClickSave, ClickPublish, ClickRemove, ClickBack, Kinds
<1>2. \A c \in Connections : Busy(c) => post'[c] = post[c]
  BY <1>1 DEF Busy
<1>3. \A c \in Connections : Spoils(c) => post'[c] = post[c]
  BY <1>2 DEF Spoils
<1>4. \A c \in Connections : Settles(c)' => Settles(c) /\ post'[c].text = post[c].text
  BY <1>1 DEF Settles, Saves
<1>5. ASSUME Recorded PROVE HalfKept' /\ Exists(Shown)'
  BY <1>1, <1>5, <1>u, TablesKept DEF Recorded
<1>6. ASSUME Recorded PROVE Recorded'
  BY <1>3, <1>4, <1>5, <1>6, <1>u, RecordedKept DEF Trusted
<1> QED BY <1>2, <1>6, TextKept

\* A text that was not typed before is nobody's but the page's.
LEMMA ScriptText ==
  ASSUME EditCore, Fresh, Deleted \/ Recorded, LoadEditor \/ TypeText \/ UNCHANGED allEditVars
  PROVE  Deleted' \/ Recorded'
<1>t. /\ EditOK /\ editor \in Editor /\ typed \in Int /\ post \in [Connections -> Post]
  BY DEF EditCore, EditTyped, EditTypeOK, Texts
<1>u. UNCHANGED <<news, job, serving, post, kept>>
  BY DEF LoadEditor, TypeText, allEditVars, vars, browserVars, editVars
<1>1. ASSUME Recorded PROVE HalfKept' /\ Exists(Shown)'
  BY <1>1, <1>u, TablesKept DEF Recorded
<1>2. CASE typed' = typed + 1 /\ editor' = [editor EXCEPT !.text = [info |-> typed', content |-> typed'], !.dirty = TRUE]
  <2>1. editor'.text.info = typed + 1 /\ editor'.dirty
    BY <1>2, <1>t DEF Editor
  <2>2. \A k \in Connections : post'[k].text.info \in Int /\ post'[k].text.info <= typed
    BY <1>u, <1>t DEF Fresh, Post, Text, Texts
  <2>3. \A k \in Connections : Outdated(k)'
    BY <2>1, <2>2, <1>t DEF Outdated
  <2>4. ~Trusted'
    BY <2>1, <2>3 DEF Trusted
  <2> QED BY <2>4, <1>1, <1>u DEF Recorded, Deleted, Busy
<1>3. CASE editor'.text = editor.text /\ (~editor'.dirty => ~editor.dirty)
  <2>1. ASSUME Recorded PROVE Recorded'
    BY <2>1, <1>1, <1>3, <1>u, RecordedKept DEF Trusted, Settles, Saves
  <2> QED BY <2>1, <1>u DEF Deleted, Busy
<1>4. CASE LoadEditor
  <2>1. ~editor.dirty
    BY <1>4, <1>t DEF LoadEditor, EditOK
  <2>2. editor'.text = editor.text
    BY <1>4, <1>t DEF LoadEditor, Editor
  <2> QED BY <2>1, <2>2, <1>3
<1>5. CASE TypeText
  <2>1. editor' = [editor EXCEPT !.dirty = TRUE] => editor'.text = editor.text /\ editor'.dirty
    BY <1>t DEF Editor
  <2> QED BY <2>1, <1>2, <1>3, <1>5 DEF TypeText
<1>6. CASE UNCHANGED allEditVars
  BY <1>6, <1>3 DEF allEditVars, editVars
<1> QED BY <1>4, <1>5, <1>6

\* Other requests leave the entry alone, or the text goes astray.
LEMMA ElsewhereText ==
  ASSUME EditCore, Deleted \/ Recorded, NEW w \in Workers, ElsewhereEdit(w),
         editor.state # "closed", "text" \notin strayed'
  PROVE  Deleted' \/ Recorded'
<1>t. TypeInv /\ AboutShown /\ UNCHANGED <<serving, stored, editor, post>>
  BY DEF EditCore, EditTyped, ElsewhereEdit, browserVars
<1>1. ~AtWork(w)
  BY DEF ElsewhereEdit, Stray
<1>2. At(w, "idle")
  BY <1>1, <1>t DEF AtWork, AboutShown
<1>3. CreateNew(w) /\ UNCHANGED kept
  BY <1>2 DEF ElsewhereEdit, WritesContent, LosesContent, Publish, Hide, DeleteLikes, DeleteRow, At
<1>4. job' = job
  BY <1>3 DEF CreateNew
<1>5. Exists(Shown) => Exists(Shown)'
  BY <1>3, <1>t, NewEntryKeeps
<1>6. HalfKept => HalfKept'
  BY <1>3, <1>4, <1>t DEF HalfKept, At
<1>7. ASSUME Recorded PROVE Recorded'
  <2>1. HalfKept' /\ Exists(Shown)'
    BY <1>5, <1>6, <1>7 DEF Recorded
  <2> QED BY <2>1, <1>3, <1>7, <1>t, RecordedKept DEF Trusted, Settles, Saves
<1> QED BY <1>7, <1>t DEF Deleted, Busy

LEMMA TextStays == EditCore /\ Fresh /\ TextInv /\ [EditNext]_allEditVars => TextInv'
<1> SUFFICES ASSUME EditCore, Fresh, TextInv, [EditNext]_allEditVars,
                    editor'.state # "closed", "text" \notin strayed'
             PROVE  Alone' /\ (Deleted' \/ Recorded')
  BY DEF TextInv
<1>t. EditTyped /\ post \in [Connections -> Post] /\ PostsOK
  BY DEF EditCore, EditTyped, EditTypeOK
<1>1. CASE AskEditor
  <2>1. \A k \in Connections : post[k].state = "none"
    BY <1>1, <1>t DEF AskEditor, EditTyped, EditOK, Open, NoPost
  <2>2. \A w \in Workers : serving[w] = NoConnection
    BY <2>1, ServedPosted
  <2>3. /\ UNCHANGED <<news, serving, kept>> /\ editor'.text = kept /\ Exists(Shown)
    BY <1>1 DEF AskEditor, Visible, vars, browserVars
  <2>4. Alone' /\ HalfKept'
    BY <2>2, <2>3 DEF Alone, HalfKept
  <2>5. Recorded'
    BY <2>3, <2>4 DEF Recorded, Exists
  <2> QED BY <2>4, <2>5
<1>c. CASE ~AskEditor
  <2>1. editor.state # "closed"
    BY <1>c, <1>t, EditorBefore
  <2>2. "text" \notin strayed
    BY <2>1, <1>t, StrayedMore
  <2>3. Alone /\ (Deleted \/ Recorded)
    BY <2>1, <2>2 DEF TextInv
  <2>4. Alone'
    BY <2>3, AloneStays
  <2>5. Deleted' \/ Recorded'
    <3>1. ASSUME NEW k \in Connections, PostFails(k) PROVE Deleted' \/ Recorded'
      <4>1. PICK K \in SUBSET Connections : K = {k}
        OBVIOUS
      <4>2. Disconnect(K) /\ UNCHANGED <<news, job, editor, kept>>
        BY <3>1, <4>1 DEF PostFails, vars
      <4>3. \A c \in K : "text" \notin Unheard(c) /\ post'[c] = NoPost
        BY <3>1, <4>1, <1>t DEF PostFails, Stray
      <4>4. \A c \in Connections \ K : post'[c] = post[c]
        BY <3>1, <4>1, <1>t DEF PostFails
      <4> QED BY <2>3, <4>2, <4>3, <4>4, CutText
    <3>2. CASE RestartEdit
      <4>1. PICK K \in SUBSET Connections :
              /\ Disconnect(K) /\ K = {k \in Connections : post[k].state \in {"sent", "served"}}
              /\ post' = [k \in Connections |-> IF k \in K THEN NoPost ELSE post[k]]
              /\ strayed' = strayed \cup {s \in {"status"} : news' # news} \cup UNION {Unheard(k) : k \in K}
        BY <3>2 DEF RestartEdit
      <4>2. \A k \in K : "text" \notin Unheard(k) /\ post'[k] = NoPost
        BY <4>1
      <4>3. DOMAIN news' = DOMAIN news /\ UNCHANGED <<editor, kept>>
        BY <3>2 DEF RestartEdit, Restart
      <4>4. \A k \in Connections \ K : post'[k] = post[k]
        BY <4>1
      <4>5. \A w \in Workers : serving[w] \in Connections \ K => job'[w] = job[w]
        BY <4>1, ServedPosted, BrowserAssumption
      <4> QED BY <2>3, <4>1, <4>2, <4>3, <4>4, <4>5, CutText
    <3>3. CASE LeaveEditor
      BY <3>3 DEF LeaveEditor, CloseEditor, ClosedEditor
    <3> QED
      BY <2>1, <2>3, <3>1, <3>2, <3>3, <1>c, ServePostText, ServeEditText, DeliverText, UserText,
         ScriptText, ElsewhereText
      DEF EditNext
  <2> QED BY <2>4, <2>5
<1> QED BY <1>1, <1>c

-----------------------------------------------------------------------------
(* The deletion of a draft.                                                 *)

Drafted(k) ==
  \/ strayed \cap {"status", "draft"} # {}
  \/ Pending = {k} /\ Exists(Shown) /\ news[Shown].status = 1
DraftInv ==
  \A k \in Connections : post[k].kind = "delete" /\ post[k].state = "sent" => Drafted(k)

EditInv == EditCore /\ Fresh /\ StatusInv /\ TextInv /\ DraftInv

\* Nothing is in flight: the page has the entry's status.
LEMMA SettledAgrees ==
  ASSUME EditInv, Open, Pending = {}
  PROVE  /\ "status" \in strayed \/ (Exists(Shown) /\ editor.status = news[Shown].status)
         /\ "text" \in strayed \/ editor.dirty \/ editor.text = kept
<1>1. \A k \in Connections : post[k].state = "none" /\ post[k] = NoPost
  BY DEF Pending, EditInv, EditCore, PostsOK, PostOK
<1>2. ~Deleted /\ ~Removed /\ ~Continues /\ ~Spoiled
  BY <1>1 DEF Deleted, Removed, Continues, Spoiled, Spoils, Busy, NoPost
<1>3. ~MidSave
  BY <1>1, ServedPosted DEF MidSave, EditInv
<1>4. InStore = {}
  BY <1>1 DEF InStore, EditInv, EditCore, PostsOK, PostOK
<1>5. editor.state # "closed"
  BY DEF Open
<1>6. "status" \notin strayed => Exists(Shown) /\ editor.status = news[Shown].status
  BY <1>2, <1>3, <1>4, <1>5 DEF EditInv, StatusInv, Decided
<1>7. "text" \notin strayed /\ ~editor.dirty => editor.text = kept
  BY <1>2, <1>5 DEF EditInv, TextInv, Recorded, Trusted
<1> QED BY <1>6, <1>7

LEMMA EditInvAgrees == EditInv => EditTypeOK /\ EditorAgrees
BY SettledAgrees DEF EditInv, EditCore, EditTyped, EditorAgrees

LEMMA DraftStays == EditInv /\ [EditNext]_allEditVars => DraftInv'
<1> SUFFICES ASSUME EditInv, [EditNext]_allEditVars, NEW d \in Connections,
                    post'[d].kind = "delete", post'[d].state = "sent"
             PROVE  Drafted(d)'
  BY DEF DraftInv
<1>t. /\ EditCore /\ EditTyped /\ EditTypeOK /\ post \in [Connections -> Post] /\ TypeInv
      /\ EditOK /\ \A k \in Connections : PostOK(k)
  BY DEF EditInv, EditCore, EditTyped, EditTypeOK, PostsOK
<1>n. NoPost.state = "none" /\ NoPost.kind = "save"
  BY DEF NoPost
\* It was sent before, and what made it the last request still does.
<1>a. ASSUME post[d].kind = "delete", post[d].state = "sent", Pending = {d} => Pending' = {d},
             Exists(Shown) => Exists(Shown)' /\ news'[Shown] = news[Shown]
      PROVE  Drafted(d)'
  <2>1. editor.state # "closed"
    BY <1>a, <1>t, PostedOpen
  <2>2. strayed \subseteq strayed'
    BY <2>1, <1>t, StrayedMore
  <2>3. Drafted(d)
    BY <1>a DEF EditInv, DraftInv
  <2> QED BY <1>a, <2>2, <2>3 DEF Drafted
<1>b. ASSUME UNCHANGED <<post, news>> PROVE Drafted(d)'
  BY <1>a, <1>b DEF Pending, Exists
\* Another request ends or goes on.
<1>c. ASSUME NEW k \in Connections, post[k].state # "none", UNCHANGED news,
             post'[k].state # "sent" \/ post'[k].kind # "delete",
             \A c \in Connections \ {k} : post'[c] = post[c]
      PROVE  Drafted(d)'
  <2>1. d # k /\ post'[d] = post[d]
    BY <1>c
  <2>2. k \in Pending
    BY <1>c DEF Pending
  <2> QED BY <1>a, <1>c, <2>1, <2>2 DEF Exists
<1>1. CASE UNCHANGED allEditVars \/ AskEditor \/ LoadEditor \/ TypeText
  BY <1>1, <1>b DEF allEditVars, editVars, vars, AskEditor, LoadEditor, TypeText
<1>2. CASE CloseEditor
  BY <1>2, <1>n DEF CloseEditor
<1>3. ASSUME NEW k \in Connections, NEW kind \in Kinds, Send(k, kind),
             kind = "delete" => Discards(editor)
      PROVE  Drafted(d)'
  <2>1. /\ post[k] = NoPost /\ Open /\ UNCHANGED <<news, editor>>
        /\ \A c \in Connections \ {k} : post'[c] = post[c]
    BY <1>3, <1>t, SendTyped DEF Send, vars
  <2>2. post'[k].kind = kind /\ post'[k].state = "sent"
    <3>1. post'[k] = [state |-> "sent", kind |-> kind, text |-> editor.text]
      BY <1>3, <1>t, SendTyped
    <3> QED BY <3>1
  <2>3. CASE Pending # {}
    <3>1. d \in Pending \cup {k}
      BY <2>1 DEF Pending
    <3>2. "draft" \in strayed'
      BY <1>3, <2>3, <3>1 DEF Send, Stray
    <3> QED BY <3>2 DEF Drafted
  <2>4. CASE Pending = {}
    <3>1. d = k /\ kind = "delete"
      BY <2>1, <2>2, <2>4 DEF Pending
    <3>2. Pending' = {k}
      <4>1. \A c \in Connections : c \in Pending' <=> c = k
        BY <2>1, <2>2, <2>4 DEF Pending
      <4> QED BY <4>1 DEF Pending
    <3>3. strayed \subseteq strayed'
      BY <1>3 DEF Send, Stray
    <3>4. editor.status = 1
      BY <1>3, <3>1 DEF Discards
    <3>5. "status" \in strayed \/ (Exists(Shown) /\ editor.status = news[Shown].status)
      BY <2>1, <2>4, SettledAgrees
    <3> QED BY <2>1, <3>1, <3>2, <3>3, <3>4, <3>5 DEF Drafted, Exists
  <2> QED BY <2>3, <2>4
<1>4. ASSUME NEW k \in Connections, RefusePost(k) \/ PostFails(k) PROVE Drafted(d)'
  <2>1. /\ post[k].state # "none" /\ UNCHANGED news /\ post'[k].state # "sent"
        /\ \A c \in Connections \ {k} : post'[c] = post[c]
    <3>1. CASE RefusePost(k)
      BY <3>1, <1>t, PostTyped DEF RefusePost, vars
    <3>2. CASE PostFails(k)
      BY <3>2, <1>t, <1>n DEF PostFails, vars
    <3> QED BY <1>4, <3>1, <3>2
  <2> QED BY <2>1, <1>c
<1>5. ASSUME NEW k \in Connections, DeliverAnswer(k) PROVE Drafted(d)'
  <2>1. CASE post' = [post EXCEPT ![k] = NoPost] \/ post' = [post EXCEPT ![k].kind = "status", ![k].state = "sent"]
    <3>1. post[k].state # "none" /\ UNCHANGED news /\ post[k] \in Post
      BY <1>5, <1>t DEF DeliverAnswer, vars
    <3>2. /\ post'[k].state # "sent" \/ post'[k].kind # "delete"
          /\ \A c \in Connections \ {k} : post'[c] = post[c]
      BY <2>1, <3>1, <1>t, <1>n DEF Post
    <3> QED BY <3>1, <3>2, <1>c
  <2> QED BY <2>1, <1>2, <1>5 DEF DeliverAnswer
<1>6. ASSUME NEW w \in Workers, NEW k \in Connections, ServePost(w, k) PROVE Drafted(d)'
  <2>1. /\ post'[k].state = "served" /\ \A c \in Connections \ {k} : post'[c] = post[c]
    BY <1>6, <1>t, PostTyped DEF ServePost
  <2>2. d # k /\ post'[d] = post[d] /\ k \in Pending
    BY <1>6, <2>1 DEF Pending, ServePost
  <2>3. editor.state # "closed" /\ strayed \subseteq strayed' /\ Drafted(d)
    BY <2>2, <1>t, PostedOpen, StrayedMore DEF EditInv, DraftInv
  <2> QED BY <2>2, <2>3 DEF Drafted
<1>7. ASSUME NEW w \in Workers, ServeEdit(w) PROVE Drafted(d)'
  <2>1. PICK k \in Connections : k = serving[w] /\ post[k].state = "served"
    BY <1>7, <1>t, ServedPosted DEF ServeEdit
  <2>2. /\ post'[k].state # "sent" /\ \A c \in Connections \ {k} : post'[c] = post[c]
    <3>1. UNCHANGED post \/ SetPost(serving[w], "ok") \/ SetPost(serving[w], "failed")
      BY <1>7 DEF ServeEdit, Effect, Failure
    <3> QED BY <3>1, <2>1, <1>t, PostTyped
  <2>3. d # k /\ post'[d] = post[d] /\ k \in Pending
    BY <2>1, <2>2 DEF Pending
  <2>4. editor.state # "closed" /\ strayed \subseteq strayed' /\ Drafted(d)
    BY <2>3, <1>t, PostedOpen, StrayedMore DEF EditInv, DraftInv
  <2> QED BY <2>3, <2>4 DEF Drafted
<1>8. ASSUME NEW w \in Workers, ElsewhereEdit(w) PROVE Drafted(d)'
  <2>1. UNCHANGED <<post, editor>>
    BY <1>8 DEF ElsewhereEdit
  <2>2. editor.state # "closed"
    BY <2>1, <1>t, PostedOpen
  <2>3. CASE AtWork(w)
    BY <1>8, <2>2, <2>3 DEF ElsewhereEdit, Stray, Drafted
  <2>4. CASE ~AtWork(w)
    <3>1. At(w, "idle")
      BY <2>4, <1>t DEF AtWork, EditCore, AboutShown
    <3>2. CreateNew(w)
      BY <1>8, <3>1 DEF ElsewhereEdit, WritesContent, LosesContent, Publish, Hide, DeleteLikes, DeleteRow, At
    <3> QED BY <2>1, <3>2, <1>t, <1>a, NewEntryKeeps DEF Pending
  <2> QED BY <2>3, <2>4
<1>9. CASE RestartEdit
  BY <1>9, <1>n DEF RestartEdit
<1> QED
  BY <1>1, <1>2, <1>3, <1>4, <1>5, <1>6, <1>7, <1>8, <1>9
  DEF EditNext, ClickSave, ClickPublish, ClickRemove, ClickBack, LeaveEditor, Kinds

\* A worker starts a deletion for the page's request only.
DraftOnly(w) ==
  At(w, "idle") /\ At(w, "likes")' /\ Exists(Shown) =>
    news[Shown].status = 1 \/ strayed' \cap {"status", "draft"} # {}

LEMMA DeletesDrafts ==
  ASSUME EditInv, [EditNext]_allEditVars, NEW w \in Workers PROVE DraftOnly(w)
<1> SUFFICES ASSUME At(w, "idle"), At(w, "likes")', Exists(Shown)
             PROVE  news[Shown].status = 1 \/ strayed' \cap {"status", "draft"} # {}
  BY DEF DraftOnly
<1>t. EditCore /\ EditTyped /\ TypeInv /\ post \in [Connections -> Post]
  BY DEF EditInv, EditCore, EditTyped, EditTypeOK
<1>j. job[w].pc = "idle" /\ job'[w].pc = "likes"
  BY DEF At
<1>1. ASSUME NEW v \in Workers, NEW k \in Connections, ServePost(v, k) PROVE v = w /\ post[k].kind = "delete"
  BY <1>1, <1>j, <1>t, ServePostJumps DEF Jumps, Saves, Post, Kinds
<1>2. \A v \in Workers : ~ServeEdit(v)
  <2>1. ASSUME NEW v \in Workers, ServeEdit(v) PROVE FALSE
    <3>1. ~At(v, "idle") /\ job[v].code = Shown
      BY <2>1, <1>t, ServedPosted DEF ServeEdit
    <3>2. v # w
      BY <3>1
    <3> QED BY <2>1, <3>1, <3>2, <1>t, <1>j, ServeEditJumps
  <2> QED BY <2>1
<1>3. \A v \in Workers : ~ElsewhereEdit(v)
  BY <1>t, <1>j, ElsewhereJumps DEF At
<1>4. job' # job
  BY <1>j
<1>5. ~RestartEdit
  BY <1>j DEF RestartEdit, Restart, NoJob
<1>6. \E v \in Workers, k \in Connections : ServePost(v, k)
  BY <1>2, <1>3, <1>4, <1>5
  DEF EditNext, allEditVars, vars, AskEditor, LoadEditor, TypeText, LeaveEditor, ClickSave, ClickPublish,
      ClickRemove, ClickBack, Send, RefusePost, DeliverAnswer, PostFails
<1>7. PICK k \in Connections : ServePost(w, k) /\ post[k].kind = "delete"
  BY <1>1, <1>6
<1>8. post[k].state = "sent"
  BY <1>7 DEF ServePost
<1>9. Drafted(k) /\ editor.state # "closed"
  BY <1>7, <1>8, <1>t, PostedOpen DEF EditInv, DraftInv
<1>10. strayed \subseteq strayed'
  BY <1>9, <1>t, StrayedMore
<1> QED BY <1>9, <1>10 DEF Drafted

LEMMA EditStarts == EditInit => EditInv
<1> SUFFICES ASSUME EditInit PROVE EditInv
  OBVIOUS
<1>1. TypeInv
  BY InitTyped DEF EditInit, BrowserInit
<1>2. EditTypeOK
  BY <1>1, NoPostTyped, BrowserAssumption DEF EditInit, BrowserInit, EditTypeOK, BrowserTypeOK, Texts
<1>3. /\ \A k \in Connections : post[k] = NoPost /\ post[k].state = "none" /\ ~IsStored(k)
      /\ \A w \in Workers : serving[w] = NoConnection /\ At(w, "idle")
      /\ editor = ClosedEditor /\ editor.state = "closed" /\ editor.text.info = 0
      /\ kept.info = 0 /\ typed = 0
  BY DEF EditInit, BrowserInit, Init, NoPost, IsStored, NoJob, At, ClosedEditor, Blank
<1>4. EditCore
  BY <1>1, <1>2, <1>3 DEF EditCore, EditTyped, EditOK, Open, AboutShown, PostsOK, PostOK
<1>5. Fresh
  BY <1>3 DEF Fresh, NoPost, Blank
<1>6. StatusInv /\ TextInv /\ DraftInv
  BY <1>3 DEF StatusInv, TextInv, DraftInv
<1> QED BY <1>4, <1>5, <1>6 DEF EditInv

LEMMA EditStays == EditInv /\ [EditNext]_allEditVars => EditInv'
<1> SUFFICES ASSUME EditInv, [EditNext]_allEditVars PROVE EditInv'
  OBVIOUS
<1>1. EditCore /\ EditTyped /\ TypeInv /\ Fresh /\ StatusInv /\ TextInv
  BY DEF EditInv, EditCore, EditTyped
<1>2. TypeInv'
  BY <1>1, EditStepTaken, NextTyped
<1>3. EditCore'
  BY <1>1, <1>2, EditStepTyped, EditOKKept, ShownStays, PostsStay DEF EditCore, EditTyped
<1> QED BY <1>1, <1>3, FreshStays, StatusStays, TextStays, DraftStays DEF EditInv

LEMMA EditInvHolds == EditSpec => []EditInv
BY EditStarts, EditStays, PTL DEF EditSpec

\* Whatever is answered, lost or served elsewhere, the page that edits an entry keeps one of
\* the entry's four statuses (edit.html:282, 354).
THEOREM EditTypeCorrect == EditSpec => []EditTypeOK
BY EditInvHolds, EditInvAgrees, PTL

\* The page that steps the status on and clears the mark of an unsaved text at every answer
\* (edit.html:282, 354) has the server's status and, if nothing is marked, its text whenever
\* nothing is in flight, with the exceptions that EditorAgrees names.
THEOREM EditorFollows == EditSpec => []EditorAgrees
BY EditInvHolds, EditInvAgrees, PTL

\* What is deleted when the user leaves (edit.html:242) was never saved, with the exceptions
\* that DraftsOnly names.
THEOREM OnlyDraftsAreDeleted == EditSpec => DraftsOnly
<1>1. EditInv /\ [EditNext]_allEditVars =>
        [\A w \in Workers :
           At(w, "idle") /\ At(w, "likes")' /\ Exists(Shown) =>
             news[Shown].status = 1 \/ strayed' \cap {"status", "draft"} # {}]_allEditVars
  BY DeletesDrafts DEF DraftOnly
<1> QED BY <1>1, EditInvHolds, PTL DEF EditSpec, DraftsOnly

-----------------------------------------------------------------------------
(* The browser is at one of the two pages.                                  *)

PageIdle == page = Closed /\ click = [k \in Connections |-> NoClick] /\ estranged = {}
EditIdle ==
  /\ editor = ClosedEditor /\ post = [k \in Connections |-> NoPost]
  /\ typed = 0 /\ kept = Blank /\ carries = [w \in Workers |-> 0] /\ strayed = {}
PagesInv ==
  \/ at = "entry" /\ PageInv /\ EditIdle
  \/ at = "editor" /\ EditInv /\ PageIdle
PagesOK == PageTypeOK /\ PageAgrees /\ EditTypeOK /\ EditorAgrees

LEMMA IdlePagesOK ==
  /\ BrowserTypeOK /\ PageIdle => PageTypeOK /\ PageAgrees
  /\ BrowserTypeOK /\ EditIdle => EditTypeOK /\ EditorAgrees
<1>1. Closed \in Page /\ NoClick \in Click /\ Closed.state = "closed" /\ ClosedEditor.state = "closed"
  BY DEF Closed, Page, NoClick, Click, ClosedEditor
<1>2. BrowserTypeOK /\ PageIdle => PageTypeOK /\ PageAgrees
  BY <1>1 DEF PageIdle, PageTypeOK, PageAgrees
<1>3. BrowserTypeOK /\ EditIdle => EditTypeOK /\ EditorAgrees
  BY <1>1, NoPostTyped DEF EditIdle, EditTypeOK, EditorAgrees, Open, Texts
<1> QED BY <1>2, <1>3

LEMMA PagesInvAgrees == PagesInv => PagesOK
BY PageInvAgrees, EditInvAgrees, IdlePagesOK DEF PagesInv, PagesOK, PageTypeOK, EditTypeOK

LEMMA PagesStart == PagesInit => PagesInv
BY PageStarts, EditStarts DEF PagesInit, PageInit, EditInit, PagesInv, PageIdle, EditIdle

LEMMA PagesStay == PagesInv /\ [PagesNext]_<<vars, browserVars, pageVars, editVars, at>> => PagesInv'
<1> SUFFICES ASSUME PagesInv, [PagesNext]_<<vars, browserVars, pageVars, editVars, at>> PROVE PagesInv'
  OBVIOUS
<1>1. at' = at
  BY DEF PagesNext
<1>2. CASE at = "entry"
  <2>1. [PageNext]_allVars /\ UNCHANGED editVars
    BY <1>2 DEF PagesNext, allVars
  <2>2. PageInv' /\ EditIdle'
    BY <1>2, <2>1, PageStays DEF PagesInv, EditIdle, editVars
  <2> QED BY <1>1, <1>2, <2>2 DEF PagesInv
<1>3. CASE at = "editor"
  <2>1. [EditNext]_allEditVars /\ UNCHANGED pageVars
    BY <1>3 DEF PagesNext, allEditVars
  <2>2. EditInv' /\ PageIdle'
    BY <1>3, <2>1, EditStays DEF PagesInv, PageIdle, pageVars
  <2> QED BY <1>1, <1>3, <2>2 DEF PagesInv
<1> QED BY <1>2, <1>3 DEF PagesInv

\* What the two pages promise holds of the browser that is at either of them.
THEOREM PagesFollow == PagesSpec => [](PageTypeOK /\ PageAgrees /\ EditTypeOK /\ EditorAgrees)
<1>1. PagesSpec => []PagesInv
  BY PagesStart, PagesStay, PTL DEF PagesSpec
<1> QED BY <1>1, PagesInvAgrees, PTL DEF PagesOK
=============================================================================
