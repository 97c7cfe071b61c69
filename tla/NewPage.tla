------------------------------ MODULE NewPage ------------------------------
(***************************************************************************)
(* The page of a news entry (web_root/new.html).  The page asks for the     *)
(* entry once; from then on it keeps the user's vote and the counters       *)
(* itself and toggles them on every successful answer to a vote.            *)
(***************************************************************************)
EXTENDS Browser

CONSTANT Me     \* the user

ASSUME PageAssumption == Me \in Users

VARIABLES
  page,       \* what the script keeps: like_status, like_num, unlike_num
  click,      \* [Connections -> the vote in flight on it]
  estranged   \* history: of the page's vote or counters, what changed without it

pageVars == <<page, click, estranged>>
allVars == <<vars, browserVars, pageVars>>

Page == [state : {"closed", "asked", "open"}, status : -1..1, like : Int, unlike : Int]
Closed == [state |-> "closed", status |-> 0, like |-> 0, unlike |-> 0]
Click == [state : {"none", "sent", "served", "ok", "failed"}, vote : {-1, 1}]
NoClick == [state |-> "none", vote |-> 1]

PageTypeOK ==
  /\ page \in Page
  /\ click \in [Connections -> Click]
  /\ BrowserTypeOK
  /\ estranged \subseteq {"vote", "counters"}

PageInit ==
  /\ BrowserInit
  /\ page = Closed
  /\ click = [k \in Connections |-> NoClick]
  /\ estranged = {}
-----------------------------------------------------------------------------
InFlight == {k \in Connections : click[k].state # "none"}
SetClick(k, state) == click' = [click EXCEPT ![k].state = state]
\* Marks what = "vote" or "counters" when condition holds.
Estrange(what, condition) ==
  estranged' = estranged \cup {s \in {what} : condition}
\* A vote on the entry is stored and its counters are not.
HalfCounted == \E w \in Workers : At(w, "count") /\ job[w].code = Shown

\* get_new.action reads the entry,
AskEntry ==
  /\ page.state = "closed" /\ Visible(Shown)
  /\ page' = [page EXCEPT !.state = "asked", !.like = news[Shown].like,
                          !.unlike = news[Shown].unlike]
  /\ estranged' = {s \in {"counters"} : HalfCounted}
  /\ UNCHANGED <<vars, browserVars, click>>

\* then the user's vote; the page starts with the answer.
LoadPage ==
  /\ page.state = "asked"
  /\ page' = [page EXCEPT !.state = "open", !.status = votes[Shown][Me]]
  /\ UNCHANGED <<vars, browserVars, click, estranged>>

\* The user clicks on the votes: $.post of new_like.action.
ClickVote(k, v) ==
  /\ page.state = "open" /\ click[k] = NoClick
  /\ Further \/ ("vote" \notin estranged /\ Shown \notin torn)
  /\ click' = [click EXCEPT ![k] = [state |-> "sent", vote |-> v]]
  /\ UNCHANGED <<vars, browserVars, page, estranged>>

\* A worker takes the request.
ServeClick(w, k) ==
  /\ click[k].state = "sent"
  /\ ReadVote(w, Me, Shown, click[k].vote)
  /\ SetClick(k, "served") /\ Serves(w, k)
  /\ UNCHANGED <<page, stored, estranged>>

\* The handler's answer, with its last statement.
Answered(w, state) == SetClick(serving[w], state) /\ Serves(w, NoConnection)

\* Its statements.  A vote is stored for a click that read another one than the table has.
ServeStatement(w) ==
  /\ serving[w] # NoConnection
  /\ \/ ReadTally(w) /\ UNCHANGED <<click, serving, stored, estranged>>
     \/ /\ WriteVote(w)
        /\ Stored(serving[w])
        /\ Estrange("vote", votes[Shown][Me] # job[w].old)
        /\ UNCHANGED <<click, serving>>
     \/ VoteFails(w) /\ Answered(w, "failed") /\ UNCHANGED <<stored, estranged>>
     \/ WriteTally(w) /\ Answered(w, "ok") /\ UNCHANGED <<stored, estranged>>
     \/ TallyFails(w) /\ Answered(w, "failed") /\ Estrange("vote", TRUE)
        /\ Delivered(serving[w])
  /\ UNCHANGED page

AlwaysSet(p, v) == [p EXCEPT !.status = v]     \* seeded fault: nothing is taken back
\* The callback of a vote v: it toggles what the page shows.
Toggled(p, v) ==
  [p EXCEPT !.status = NewVote(p.status, v),
            !.like = Counted(p.like, 1, p.status, v),
            !.unlike = Counted(p.unlike, -1, p.status, v)]

\* jQuery's done: the callback runs for an answer of status 200, once; answers come in
\* any order.
Deliver(k) ==
  /\ \/ /\ click[k].state = "ok" /\ page' = Toggled(page, click[k].vote)
        /\ Estrange("vote", Overtakes(k)) /\ Delivered(k)
     \/ click[k].state = "failed" /\ UNCHANGED <<page, stored, estranged>>
  /\ click' = [click EXCEPT ![k] = NoClick]
  /\ UNCHANGED <<vars, serving>>

\* Connections fail: done has no callback to run, and the server goes on.
Detach(K) ==
  /\ click' = [k \in Connections |-> IF k \in K THEN NoClick ELSE click[k]]
  /\ Disconnect(K)
ConnectionFails(k) ==
  /\ click[k].state # "none" /\ Detach({k})
  /\ Estrange("vote", IsStored(k))
  /\ UNCHANGED <<vars, page>>

\* The user leaves or reloads the page.
LeavePage ==
  /\ page.state # "closed" /\ page' = Closed
  /\ Detach(Connections)
  /\ UNCHANGED <<vars, estranged>>

\* Requests of other users, or of the same one from another page.
Elsewhere(w) ==
  LET j == job[w] IN
  /\ serving[w] = NoConnection /\ Statement(w)
  /\ LET changes == j.code = Shown /\ j.pc \in {"vote", "likes"}
         own == changes /\ (j.pc = "likes" \/ j.user = Me)
     IN  estranged' = estranged \cup {s \in {"counters"} : changes /\ page.state # "closed"}
                                \cup {s \in {"vote"} : own /\ page.state = "open"}
  /\ UNCHANGED <<page, click, browserVars>>

\* The server ends: requests that are sent or served fail.
PageRestart ==
  /\ Restart
  /\ Detach({k \in Connections : click[k].state \in {"sent", "served"}})
  /\ Estrange("vote", \E w \in Workers : serving[w] # NoConnection /\ At(w, "count"))
  /\ UNCHANGED page

PageNext ==
  \/ AskEntry \/ LoadPage \/ LeavePage \/ PageRestart
  \/ \E k \in Connections : \/ \E v \in {-1, 1} : ClickVote(k, v)
                            \/ Deliver(k) \/ ConnectionFails(k)
  \/ \E w \in Workers : \/ \E k \in Connections : ServeClick(w, k)
                        \/ ServeStatement(w) \/ Elsewhere(w)

PageSpec == PageInit /\ [][PageNext]_allVars
-----------------------------------------------------------------------------
(* Properties.                                                             *)

\* The page never reads its vote again: it toggles what it shows (new.html:58), and the
\* server toggles what it stores (news_mgr.cpp:133).  Once every click is answered the two
\* are the same, and the counters are the numbers of the votes, whatever failed before a
\* vote was stored: unless the answer to a stored vote is lost or overtaken by a later
\* one's, or the vote changed between its reading and writing, or elsewhere.
PageAgrees ==
  page.state = "open" /\ InFlight = {} /\ "vote" \notin estranged =>
    /\ page.status = votes[Shown][Me]
    /\ "counters" \in estranged \/ Shown \in torn
       \/ /\ page.like = Votes(Shown, 1)
          /\ page.unlike = Votes(Shown, -1)
=============================================================================
