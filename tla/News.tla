-------------------------------- MODULE News --------------------------------
(***************************************************************************)
(* News entries, votes and comments of the news application                 *)
(* (plug/NewPublish: db/news_mgr.cpp and its handlers).  A comment is an     *)
(* entry with a parent.  Handlers read and write the two tables one SQL      *)
(* statement at a time, with no transaction: a statement is one step, and    *)
(* the statements of several workers interleave.  The counters of an entry   *)
(* (like_num, unlike_num, comment_num) are read in one statement and written *)
(* back in another.                                                          *)
(*                                                                         *)
(* Texts, times and users' rights are left out: an entry is named or not, by *)
(* its title and author, and any user may send any request.                  *)
(***************************************************************************)
EXTENDS Integers, FiniteSets

CONSTANTS
  Workers,      \* the threads that serve requests
  Users,        \* names of users
  Nobody,       \* the empty name: get_username of a session that is gone
  MaxEntries,   \* bound: entries and comments created; the next INSERT fails
  Further,      \* bound: FALSE, no more votes on an entry that is torn, and no more
                \* requests about the comments of one that is uncounted
  Requests,     \* the kinds of requests that are sent
  DbErrors      \* TRUE: a writing statement may fail

ASSUME NewsAssumption ==
  /\ Nobody \notin Users
  /\ IsFiniteSet(Users)
  /\ MaxEntries \in Nat /\ Further \in BOOLEAN
  /\ Requests \subseteq {"create", "save", "publish", "vote", "comment", "remove", "delete"}
  /\ DbErrors \in BOOLEAN

VARIABLES
  news,       \* table news: a function from its codes
  votes,      \* table of likes: votes[c][u] is 1, -1, or 0 when there is no row
  created,    \* codes issued so far; 0 is the empty code
  job,        \* [Workers -> Job], the request each worker serves
  torn,       \* history: entries whose votes were interrupted or met another writer
  uncounted,  \* history: parents whose comments changed outside comment and remove
  unchecked   \* history: entries saved between the check of a publication and its write

vars == <<news, votes, created, job, torn, uncounted, unchecked>>
tables == <<news, votes, created>>
history == <<torn, uncounted, unchecked>>

Codes == 1..MaxEntries
Issued == 1..created
Entry == [status : 0..3,        \* 0 removed, 1 created, 2 saved, 3 published
          named : BOOLEAN,      \* neither title nor author is empty
          parent : 0..MaxEntries,
          like : Int, unlike : Int, comments : Int]

\* The next statement of a worker.
Points == {"idle", "content", "publish", "tally", "vote", "count",
           "check", "post", "parent", "bump", "comments", "drop", "hide",
           "children", "likes", "row"}
Job == [pc : Points, user : Users \cup {Nobody},
        code : 0..MaxEntries,       \* the entry it is about
        parent : 0..MaxEntries,     \* the entry whose comments it counts
        vote : {-1, 1}, old : -1..1, like : Int, unlike : Int, n : Int]
NoJob == [pc |-> "idle", user |-> Nobody, code |-> 0, parent |-> 0,
          vote |-> 1, old |-> 0, like |-> 0, unlike |-> 0, n |-> 0]

NewsTypeOK ==
  /\ created \in 0..MaxEntries
  /\ DOMAIN news \subseteq Issued
  /\ news \in [DOMAIN news -> Entry]
  /\ votes \in [Codes -> [Users -> -1..1]]
  /\ job \in [Workers -> Job]
  /\ torn \subseteq Codes /\ uncounted \subseteq Codes /\ unchecked \subseteq Codes

\* NewsMgr::init on an empty database.
Init ==
  /\ news = [c \in {} |-> c] /\ votes = [c \in Codes |-> [u \in Users |-> 0]]
  /\ created = 0
  /\ job = [w \in Workers |-> NoJob]
  /\ torn = {} /\ uncounted = {} /\ unchecked = {}
-----------------------------------------------------------------------------
(* What the statements read and write.                                     *)

Exists(c) == c \in DOMAIN news
\* get_data(it, code) finds only what is not removed.
Visible(c) == Exists(c) /\ news[c].status # 0
Named(c) == Visible(c) /\ news[c].named
AnyVisible(c) == Visible(c)                    \* seeded fault: the names are not checked
\* The check of reset_status before an entry is published.
MayPublish(c) == Named(c)

Column(c, value) == IF Visible(c) THEN value ELSE 0
\* UPDATE ... WHERE code = c: no error when there is no such row.
Update(c, row) == news' = [k \in DOMAIN news |-> IF k = c THEN row ELSE news[k]]
SetStatus(c, s) ==
  news' = [k \in DOMAIN news |->
             IF k = c THEN [news[k] EXCEPT !.status = s] ELSE news[k]]
SetComments(c, n) ==
  news' = [k \in DOMAIN news |->
             IF k = c THEN [news[k] EXCEPT !.comments = n] ELSE news[k]]
Keep(C) == news' = [k \in C |-> news[k]]

NewCode == created + 1
\* create: a row of status 1 with counters 0.
Create(named, parent) ==
  /\ NewCode \in Codes
  /\ created' = NewCode
  /\ news' = [c \in DOMAIN news \cup {NewCode} |->
                IF c = NewCode
                THEN [status |-> 1, named |-> named, parent |-> parent,
                      like |-> 0, unlike |-> 0, comments |-> 0]
                ELSE news[c]]

\* Requests about entry c are still sent.
Pursued(c) == Further \/ (Exists(c) => news[c].parent \notin uncounted)

At(w, pc) == job[w].pc = pc
Free(w, kind) == At(w, "idle") /\ kind \in Requests
Become(w, j) == job' = [job EXCEPT ![w] = j]
Goto(w, pc) == Become(w, [job[w] EXCEPT !.pc = pc])
Answer(w) == Become(w, NoJob)
Reads == UNCHANGED <<tables, history>>
\* A statement that fails; the handler answers WEB_DATA_OPERATION.
Fails(w) == DbErrors /\ Answer(w) /\ Reads

\* The published comments of an entry, which comment_num should count.
Published(p) == {c \in DOMAIN news : news[c].parent = p /\ news[c].status = 3}
\* A change of rows that leaves comment_num alone.
Unpaired == uncounted' = uncounted \cup {p \in Codes : Published(p)' # Published(p)}
-----------------------------------------------------------------------------
(* Entries: create_new, save_new, reset_new_status.                        *)

CreateNew(w) ==
  /\ Free(w, "create") /\ Create(FALSE, 0)
  /\ UNCHANGED <<votes, job, history>>

Checked(c) ==
  \E w \in Workers : job[w].code = c /\ job[w].pc \in {"publish", "post"}

\* The last statement of a request: it writes the status.
WriteStatus(w, s) ==
  /\ SetStatus(job[w].code, s) /\ Answer(w) /\ Unpaired
  /\ UNCHANGED <<votes, created, torn, unchecked>>

\* save_info, then save_content: each makes the entry a saved one.
StoreInfo(w, c, named) ==
  /\ news' = [k \in DOMAIN news |->
                IF k = c THEN [news[k] EXCEPT !.named = named, !.status = 2]
                         ELSE news[k]]
  /\ Become(w, [NoJob EXCEPT !.pc = "content", !.code = c])
  /\ unchecked' = unchecked \cup {k \in {c} : Checked(k)}
  /\ Unpaired
  /\ UNCHANGED <<votes, created, torn>>

SaveInfo(w) ==
  /\ Free(w, "save")
  /\ \E c \in Issued, named \in BOOLEAN : Pursued(c) /\ StoreInfo(w, c, named)

SaveContent(w) == At(w, "content") /\ (WriteStatus(w, 2) \/ Fails(w))

\* reset_status(code, 3): get_data and the check, then UPDATE.
BeginPublish(w, c) ==
  /\ MayPublish(c) /\ Become(w, [NoJob EXCEPT !.pc = "publish", !.code = c])
  /\ Reads

CheckPublish(w) ==
  Free(w, "publish") /\ \E c \in Issued : Pursued(c) /\ BeginPublish(w, c)

Publish(w) == At(w, "publish") /\ (WriteStatus(w, 3) \/ Fails(w))

ResetStatus(w) ==
  /\ Free(w, "publish")
  /\ \E c \in Issued, s \in 0..2 : Pursued(c) /\ SetStatus(c, s)
  /\ Unpaired
  /\ UNCHANGED <<votes, created, job, torn, unchecked>>
-----------------------------------------------------------------------------
(* Votes: like.                                                            *)

Voting(w, c) == job[w].code = c /\ job[w].pc \in {"tally", "vote", "count"}

\* get_like_status.
ReadVote(w, u, c, v) ==
  /\ At(w, "idle")
  /\ Become(w, [NoJob EXCEPT !.pc = "tally", !.user = u, !.code = c,
                             !.vote = v, !.old = votes[c][u]])
  /\ torn' = torn \cup {k \in {c} : \E other \in Workers : Voting(other, k)}
  /\ UNCHANGED <<tables, uncounted, unchecked>>

Like(w) ==
  /\ Free(w, "vote")
  /\ \E u \in Users, c \in Issued, v \in {-1, 1} :
       (Further \/ c \notin torn) /\ ReadVote(w, u, c, v)

\* get_data: the counters, 0 for an entry that is removed or missing.
ReadTally(w) ==
  LET c == job[w].code IN
  /\ At(w, "tally")
  /\ Become(w, [job[w] EXCEPT !.pc = "vote",
                  !.like = IF Visible(c) THEN news[c].like ELSE 0,
                  !.unlike = IF Visible(c) THEN news[c].unlike ELSE 0])
  /\ torn' = torn \cup {k \in {c} : ~Visible(k)}
  /\ UNCHANGED <<tables, uncounted, unchecked>>

AddsUp(old, v) == old + v                      \* seeded fault: votes add up
\* The vote a user holds after voting v: the same vote again takes it back.
NewVote(old, v) == IF old = v THEN 0 ELSE v
AddOnly(n, value, old, v) == IF v = value /\ old # v THEN n + 1
                             ELSE IF old = v /\ v = value THEN n - 1 ELSE n  \* seeded fault
\* What that does to the counter of the votes of a value.
Counted(n, value, old, v) ==
  n + (IF NewVote(old, v) = value THEN 1 ELSE 0) - (IF old = value THEN 1 ELSE 0)

\* DELETE, INSERT or UPDATE of the vote, by the vote that was read.  The INSERT fails
\* when there is a vote by now; the others change a vote or nothing.
Duplicate(j) == j.old = 0 /\ votes[j.code][j.user] # 0
WriteVote(w) ==
  LET j == job[w]
      vanished == j.old # 0 /\ votes[j.code][j.user] = 0
  IN
  /\ At(w, "vote") /\ ~Duplicate(j)
  /\ votes' = [votes EXCEPT ![j.code][j.user] =
                 IF vanished THEN 0 ELSE NewVote(j.old, j.vote)]
  /\ Become(w, [j EXCEPT !.pc = "count",
                  !.like = Counted(j.like, 1, j.old, j.vote),
                  !.unlike = Counted(j.unlike, -1, j.old, j.vote)])
  /\ UNCHANGED <<news, created, history>>

VoteFails(w) ==
  /\ At(w, "vote") /\ (DbErrors \/ Duplicate(job[w]))
  /\ Answer(w) /\ Reads

\* UPDATE of both counters.
WriteTally(w) ==
  LET j == job[w] IN
  /\ At(w, "count") /\ Answer(w)
  /\ news' = [k \in DOMAIN news |->
                IF k = j.code THEN [news[k] EXCEPT !.like = j.like, !.unlike = j.unlike]
                              ELSE news[k]]
  /\ UNCHANGED <<votes, created, history>>

TallyFails(w) ==
  /\ At(w, "count") /\ DbErrors /\ Answer(w)
  /\ torn' = torn \cup {job[w].code}
  /\ UNCHANGED <<tables, uncounted, unchecked>>
-----------------------------------------------------------------------------
(* Comments: comment and remove keep the parent's comment_num.             *)

Posting(w, c) == job[w].code = c /\ job[w].pc \in {"check", "post", "parent", "bump"}
Removing(w, c) == job[w].code = c /\ job[w].pc \in {"comments", "drop", "hide"}
\* A worker holds a comment_num of p that it read.
Counting(w, p) == job[w].parent = p /\ job[w].pc \in {"bump", "drop"}
Overlapped(w, p) == {q \in {p} : \E other \in Workers \ {w} : Counting(other, q)}

\* create with a parent; the author is empty when the session has gone.
CreateComment(w) ==
  /\ Free(w, "comment")
  /\ \E u \in Users \cup {Nobody}, p \in Issued :
       /\ Further \/ p \notin uncounted
       /\ Create(u # Nobody, p)
       /\ Become(w, [NoJob EXCEPT !.pc = "check", !.user = u, !.code = NewCode, !.parent = p])
  /\ UNCHANGED <<votes, history>>

\* reset_status(code, 3) of the new comment.
CheckComment(w) ==
  /\ At(w, "check")
  /\ IF MayPublish(job[w].code) THEN Goto(w, "post") ELSE Answer(w)
  /\ Reads

PostComment(w) ==
  LET j == job[w] IN
  /\ At(w, "post")
  /\ \/ /\ SetStatus(j.code, 3) /\ Goto(w, "parent")
        /\ uncounted' = uncounted \cup {p \in {j.parent} : ~Exists(j.code)}
        /\ UNCHANGED <<votes, created, torn, unchecked>>
     \/ Fails(w)

\* get_data of the parent: a comment of a removed entry stays published and uncounted.
ReadParent(w) ==
  LET j == job[w] IN
  /\ At(w, "parent")
  /\ \/ /\ Visible(j.parent)
        /\ Become(w, [j EXCEPT !.pc = "bump", !.n = news[j.parent].comments + 1])
        /\ uncounted' = uncounted \cup Overlapped(w, j.parent)
     \/ /\ ~Visible(j.parent) /\ Answer(w)
        /\ uncounted' = uncounted \cup {j.parent}
  /\ UNCHANGED <<tables, torn, unchecked>>

CountComment(w) ==
  LET j == job[w] IN
  /\ At(w, "bump") /\ Answer(w)
  /\ \/ SetComments(j.parent, j.n) /\ UNCHANGED uncounted
     \/ DbErrors /\ uncounted' = uncounted \cup {j.parent} /\ UNCHANGED news
  /\ UNCHANGED <<votes, created, torn, unchecked>>

\* remove: get_info of the parent's code, whatever the status.  It does not look at the
\* status: what is not published, or removed already, is taken off the count as well.
BeginRemove(w, c) ==
  LET p == IF Exists(c) THEN news[c].parent ELSE 0 IN
  /\ Become(w, [NoJob EXCEPT !.pc = IF p = 0 THEN "hide" ELSE "comments",
                             !.code = c, !.parent = p])
  /\ uncounted' = uncounted \cup
       {q \in {p} \ {0} : \/ news[c].status # 3
                          \/ \E other \in Workers : Removing(other, c) \/ Posting(other, c)}
  /\ UNCHANGED <<tables, torn, unchecked>>

Remove(w) ==
  Free(w, "remove") /\ \E c \in Issued : Pursued(c) /\ BeginRemove(w, c)

Keeps(n) == n                                  \* seeded fault: the count stays
OneLess(n) == n - 1
ReadComments(w) ==
  LET j == job[w]
      n == IF Exists(j.parent) THEN news[j.parent].comments ELSE 0
  IN
  /\ At(w, "comments")
  /\ Become(w, [j EXCEPT !.pc = IF n > 0 THEN "drop" ELSE "hide", !.n = OneLess(n)])
  /\ uncounted' = uncounted \cup Overlapped(w, j.parent)
  /\ UNCHANGED <<tables, torn, unchecked>>

DropComment(w) ==
  /\ At(w, "drop")
  /\ \/ SetComments(job[w].parent, job[w].n) /\ Goto(w, "hide")
        /\ UNCHANGED <<votes, created, history>>
     \/ Fails(w)

\* reset_status(code, 0).
Hide(w) ==
  LET j == job[w] IN
  /\ At(w, "hide") /\ Answer(w)
  /\ \/ SetStatus(j.code, 0) /\ UNCHANGED uncounted
     \/ DbErrors /\ uncounted' = uncounted \cup ({j.parent} \ {0}) /\ UNCHANGED news
  /\ UNCHANGED <<votes, created, torn, unchecked>>
-----------------------------------------------------------------------------
(* delete_it: comments, votes and the entry; failures of the first two are *)
(* not looked at.                                                          *)

BeginDelete(w, c) ==
  /\ Become(w, [NoJob EXCEPT !.pc = "likes", !.code = c])
  /\ \/ Keep({k \in DOMAIN news : news[k].parent # c}) /\ Unpaired
     \/ DbErrors /\ UNCHANGED <<news, uncounted>>
  /\ UNCHANGED <<votes, created, torn, unchecked>>

DeleteComments(w) ==
  /\ Free(w, "delete")
  /\ \E c \in Issued :
       (Further \/ (Pursued(c) /\ Exists(c))) /\ BeginDelete(w, c)

DeleteLikes(w) ==
  LET c == job[w].code IN
  /\ At(w, "likes") /\ Goto(w, "row")
  /\ \/ /\ votes' = [votes EXCEPT ![c] = [u \in Users |-> 0]]
        /\ torn' = torn \cup {k \in {c} : votes'[k] # votes[k]}
     \/ DbErrors /\ UNCHANGED <<votes, torn>>
  /\ UNCHANGED <<news, created, uncounted, unchecked>>

DeleteRow(w) ==
  /\ At(w, "row")
  /\ \/ Keep(DOMAIN news \ {job[w].code}) /\ Answer(w) /\ Unpaired
        /\ UNCHANGED <<votes, created, torn, unchecked>>
     \/ Fails(w)
-----------------------------------------------------------------------------
\* The process ends, with ~NewsMgr (clear: created entries are removed) or without, and
\* starts again on its tables.
Restart ==
  /\ job' = [w \in Workers |-> NoJob]
  /\ \/ news' = [c \in DOMAIN news |->
                   IF news[c].status = 1 THEN [news[c] EXCEPT !.status = 0] ELSE news[c]]
     \/ UNCHANGED news
  /\ torn' = torn \cup {c \in Codes : \E w \in Workers : At(w, "count") /\ job[w].code = c}
  /\ uncounted' = uncounted \cup
       {p \in Codes : \E w \in Workers : job[w].parent = p
                                         /\ job[w].pc \in {"parent", "bump", "hide"}}
  /\ UNCHANGED <<votes, created, unchecked>>

Statement(w) ==
  \/ CreateNew(w) \/ SaveInfo(w) \/ SaveContent(w)
  \/ CheckPublish(w) \/ Publish(w) \/ ResetStatus(w)
  \/ Like(w) \/ ReadTally(w) \/ WriteVote(w) \/ VoteFails(w) \/ WriteTally(w) \/ TallyFails(w)
  \/ CreateComment(w) \/ CheckComment(w) \/ PostComment(w) \/ ReadParent(w) \/ CountComment(w)
  \/ Remove(w) \/ ReadComments(w) \/ DropComment(w) \/ Hide(w)
  \/ DeleteComments(w) \/ DeleteLikes(w) \/ DeleteRow(w)

Next == (\E w \in Workers : Statement(w)) \/ Restart

Spec == Init /\ [][Next]_vars
-----------------------------------------------------------------------------
(* Properties.                                                             *)

\* like_num and unlike_num of an entry are the numbers of its votes, although like()
\* (news_mgr.cpp:114) computes them from a copy: unless two votes on the entry overlapped,
\* one came while it was removed, or one was cut short (a failed statement, the end of the
\* process, a deletion), they differ at most by the vote being written.
Votes(c, value) == Cardinality({u \in Users : votes[c][u] = value})
VotesCounted ==
  \A c \in DOMAIN news :
    c \in torn \/ (\E w \in Workers : At(w, "count") /\ job[w].code = c)
    \/ (news[c].like = Votes(c, 1) /\ news[c].unlike = Votes(c, -1))

\* comment_num of an entry is the number of its published comments (comment,
\* news_mgr.cpp:331, and remove, 258), with the same reservation: two of them counted from
\* the same copy, one was cut short, one found its entry removed, a comment was removed
\* twice, or its status changed through another handler.
CommentsCounted ==
  \A p \in DOMAIN news :
    p \in uncounted
    \/ (\E w \in Workers : job[w].parent = p /\ job[w].pc \in {"parent", "bump", "hide"})
    \/ news[p].comments = Cardinality(Published(p))

\* A published entry has a title and an author (reset_status, news_mgr.cpp:313), unless it
\* was saved between the check and the write of its publication.
PublishedNamed ==
  \A c \in DOMAIN news : news[c].status = 3 => news[c].named \/ c \in unchecked
=============================================================================
