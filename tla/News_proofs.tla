---------------------------- MODULE News_proofs ----------------------------
(***************************************************************************)
(* Theorems about the news entries: type correctness, the names of what is *)
(* published, and the counters of votes and of comments.                   *)
(***************************************************************************)
EXTENDS News, FiniteSetTheorems, TLAPS

USE NewsAssumption

\* NewsTypeOK in four parts, and what a worker that serves a request knows: its entry has
\* been created, a vote has a user, the comment of a running comment or remove has a parent.
RowsOK ==
  /\ created \in 0..MaxEntries /\ DOMAIN news \subseteq Issued
  /\ news \in [DOMAIN news -> Entry]
VotesOK == votes \in [Codes -> [Users -> -1..1]]
ParentPoints == {"check", "post", "parent", "bump", "comments", "drop"}
GoodJob(j) ==
  /\ j.pc # "idle" => j.code \in Issued
  /\ j.pc \in {"tally", "vote", "count"} => j.user \in Users
  /\ j.pc \in ParentPoints => j.parent \in Codes
JobsOK == job \in [Workers -> Job] /\ \A w \in Workers : GoodJob(job[w])
HistoryOK == torn \subseteq Codes /\ uncounted \subseteq Codes /\ unchecked \subseteq Codes
TypeInv == RowsOK /\ VotesOK /\ JobsOK /\ HistoryOK

USE DEF ParentPoints

LEMMA TypeInvIsTypeOK == TypeInv => NewsTypeOK
BY DEF TypeInv, RowsOK, VotesOK, JobsOK, HistoryOK, NewsTypeOK

LEMMA NoJobTyped == NoJob \in Job /\ GoodJob(NoJob)
BY DEF NoJob, Job, Points, GoodJob

LEMMA InitTyped == Init => TypeInv
BY NoJobTyped DEF Init, TypeInv, RowsOK, VotesOK, JobsOK, HistoryOK, Entry, Codes, Issued

-----------------------------------------------------------------------------
(* What a statement does to the table of entries keeps its rows.           *)

LEMMA RowsKept == ASSUME RowsOK, UNCHANGED <<news, created>> PROVE RowsOK'
BY DEF RowsOK, Issued

LEMMA StatusSet ==
  ASSUME RowsOK, NEW c, NEW s \in 0..3, SetStatus(c, s), created' = created
  PROVE  RowsOK'
BY DEF RowsOK, Issued, SetStatus, Entry

LEMMA CommentsSet ==
  ASSUME RowsOK, NEW c, NEW n \in Int, SetComments(c, n), created' = created
  PROVE  RowsOK'
BY DEF RowsOK, Issued, SetComments, Entry

LEMMA RowsDeleted ==
  ASSUME RowsOK, NEW C \in SUBSET DOMAIN news, Keep(C), created' = created
  PROVE  RowsOK'
BY DEF RowsOK, Issued, Keep

LEMMA RowCreated ==
  ASSUME RowsOK, NEW named \in BOOLEAN, NEW p \in 0..MaxEntries, Create(named, p)
  PROVE  RowsOK' /\ created' = created + 1
<1> DEFINE row == [status |-> 1, named |-> named, parent |-> p,
                   like |-> 0, unlike |-> 0, comments |-> 0]
<1>1. row \in Entry
  BY DEF Entry
<1>2. created' = created + 1 /\ created' \in 0..MaxEntries /\ created \in Nat
  BY DEF RowsOK, Create, NewCode, Codes
<1> HIDE DEF row
<1>3. news' = [c \in DOMAIN news \cup {NewCode} |-> IF c = NewCode THEN row ELSE news[c]]
  BY DEF Create, row
<1>4. DOMAIN news' = DOMAIN news \cup {NewCode}
  BY <1>3
<1>5. \A c \in DOMAIN news' : news'[c] \in Entry
  BY <1>1, <1>3, <1>4 DEF RowsOK
<1>6. DOMAIN news' \subseteq 1..created'
  BY <1>2, <1>4 DEF RowsOK, Issued, NewCode
<1>7. news' = [c \in DOMAIN news' |-> news'[c]]
  BY <1>3, <1>4
<1> QED BY <1>2, <1>5, <1>6, <1>7 DEF RowsOK, Issued

LEMMA JobTaken ==
  ASSUME JobsOK, RowsOK, NEW w \in Workers, NEW j \in Job, Become(w, j),
         created' = created \/ created' = created + 1,
         j.pc # "idle" => j.code \in Issued',
         j.pc \in {"tally", "vote", "count"} => j.user \in Users,
         j.pc \in ParentPoints => j.parent \in Codes
  PROVE  JobsOK'
BY DEF JobsOK, RowsOK, Become, GoodJob, Issued

LEMMA JobAnswered ==
  ASSUME JobsOK, RowsOK, NEW w \in Workers, Answer(w), created' = created
  PROVE  JobsOK'
BY NoJobTyped, JobTaken DEF Answer, NoJob

LEMMA JobMoves ==
  ASSUME JobsOK, RowsOK, NEW w \in Workers, NEW pc \in Points, Goto(w, pc), created' = created,
         job[w].pc # "idle", pc \notin {"tally", "vote", "count"},
         pc \in ParentPoints => job[w].pc \in ParentPoints
  PROVE  JobsOK'
<1>1. job[w] \in Job /\ GoodJob(job[w]) /\ [job[w] EXCEPT !.pc = pc] \in Job
  BY DEF JobsOK, Job
<1> QED BY <1>1, JobTaken DEF Goto, GoodJob, Issued, Job

LEMMA JobsKept == ASSUME JobsOK, UNCHANGED <<job, created>> PROVE JobsOK'
BY DEF JobsOK, GoodJob, Issued

LEMMA VotesKept == ASSUME VotesOK, votes' = votes PROVE VotesOK'
BY DEF VotesOK

LEMMA HistoryKept == ASSUME HistoryOK, UNCHANGED history PROVE HistoryOK'
BY DEF HistoryOK, history

LEMMA Marked ==
  ASSUME HistoryOK, Unpaired, UNCHANGED torn, unchecked' \subseteq Codes
  PROVE  HistoryOK'
BY DEF HistoryOK, Unpaired

LEMMA IssuedCodes == ASSUME RowsOK PROVE Issued \subseteq Codes /\ DOMAIN news \subseteq Codes
BY DEF RowsOK, Issued, Codes

\* A job that takes up an entry.
LEMMA JobAbout ==
  ASSUME RowsOK, NEW c \in Issued
  PROVE  /\ [NoJob EXCEPT !.pc = "content", !.code = c] \in Job
         /\ [NoJob EXCEPT !.pc = "publish", !.code = c] \in Job
         /\ [NoJob EXCEPT !.pc = "likes", !.code = c] \in Job
<1>1. c \in 0..MaxEntries
  BY DEF RowsOK, Issued
<1>2. \A j \in Job, pc \in Points : [j EXCEPT !.pc = pc, !.code = c] \in Job
  BY <1>1 DEF Job
<1>3. {"content", "publish", "likes"} \subseteq Points
  BY DEF Points
<1> QED BY <1>2, <1>3, NoJobTyped

LEMMA FailureTyped ==
  ASSUME TypeInv, NEW w \in Workers, Answer(w), Reads
  PROVE  TypeInv'
BY JobAnswered, RowsKept, VotesKept, HistoryKept DEF TypeInv, Reads, tables

-----------------------------------------------------------------------------
(* The statements of News whoever sends the requests: without the bounds of *)
(* a run (Requests and Further), which the pages' own requests do not have. *)

TakeLike(w) ==
  At(w, "idle") /\ \E u \in Users, c \in Issued, v \in {-1, 1} : ReadVote(w, u, c, v)
TakeSave(w) ==
  At(w, "idle") /\ \E c \in Issued, named \in BOOLEAN : StoreInfo(w, c, named)
TakePublish(w) == At(w, "idle") /\ \E c \in Issued : BeginPublish(w, c)
TakeRemove(w) == At(w, "idle") /\ \E c \in Issued : BeginRemove(w, c)
TakeDelete(w) == At(w, "idle") /\ \E c \in Issued : BeginDelete(w, c)

AnyStatement(w) ==
  \/ CreateNew(w) \/ TakeSave(w) \/ SaveContent(w)
  \/ TakePublish(w) \/ Publish(w) \/ ResetStatus(w)
  \/ TakeLike(w) \/ ReadTally(w) \/ WriteVote(w) \/ VoteFails(w) \/ WriteTally(w) \/ TallyFails(w)
  \/ CreateComment(w) \/ CheckComment(w) \/ PostComment(w) \/ ReadParent(w) \/ CountComment(w)
  \/ TakeRemove(w) \/ ReadComments(w) \/ DropComment(w) \/ Hide(w)
  \/ TakeDelete(w) \/ DeleteLikes(w) \/ DeleteRow(w)
AnyNext == (\E w \in Workers : AnyStatement(w)) \/ Restart

LEMMA StatementTaken == ASSUME NEW w, Statement(w) PROVE AnyStatement(w)
<1>1. Like(w) => TakeLike(w)
  BY DEF Like, TakeLike, Free
<1>2. SaveInfo(w) => TakeSave(w)
  BY DEF SaveInfo, TakeSave, Free
<1>3. CheckPublish(w) => TakePublish(w)
  BY DEF CheckPublish, TakePublish, Free
<1>4. Remove(w) => TakeRemove(w)
  BY DEF Remove, TakeRemove, Free
<1>5. DeleteComments(w) => TakeDelete(w)
  BY DEF DeleteComments, TakeDelete, Free
<1> QED BY <1>1, <1>2, <1>3, <1>4, <1>5 DEF Statement, AnyStatement

LEMMA NextTaken == [Next]_vars => [AnyNext]_vars
BY StatementTaken DEF Next, AnyNext

-----------------------------------------------------------------------------
(* One lemma for each group of statements.                                 *)

LEMMA EntriesTyped ==
  ASSUME TypeInv, NEW w \in Workers,
         CreateNew(w) \/ TakeSave(w) \/ SaveContent(w) \/ TakePublish(w) \/ Publish(w)
           \/ ResetStatus(w)
  PROVE  TypeInv'
<1> USE NoJobTyped, IssuedCodes DEF TypeInv
<1>j. job[w] \in Job /\ GoodJob(job[w])
  BY DEF JobsOK
<1>1. CASE CreateNew(w)
  <2>1. Create(FALSE, 0) /\ UNCHANGED <<votes, job, history>>
    BY <1>1 DEF CreateNew
  <2>2. RowsOK' /\ created' = created + 1
    <3> DEFINE named == FALSE
               p == 0
    <3>1. named \in BOOLEAN /\ p \in 0..MaxEntries
      OBVIOUS
    <3>2. Create(named, p)
      BY <2>1
    <3> HIDE DEF named, p
    <3> QED BY <3>1, <3>2, RowCreated
  <2>3. JobsOK'
    BY <2>1, <2>2 DEF JobsOK, GoodJob, Issued, RowsOK
  <2> QED BY <2>1, <2>2, <2>3, VotesKept, HistoryKept
<1>2. CASE TakeSave(w)
  <2>1. PICK c \in Issued, named \in BOOLEAN :
          /\ news' = [k \in DOMAIN news |->
                        IF k = c THEN [news[k] EXCEPT !.named = named, !.status = 2] ELSE news[k]]
          /\ Become(w, [NoJob EXCEPT !.pc = "content", !.code = c])
          /\ unchecked' = unchecked \cup {k \in {c} : Checked(k)}
    BY <1>2 DEF TakeSave, StoreInfo
  <2>2. Unpaired /\ UNCHANGED <<votes, created, torn>>
    BY <1>2 DEF TakeSave, StoreInfo
  <2>3. RowsOK'
    <3>1. \A k \in DOMAIN news : [news[k] EXCEPT !.named = named, !.status = 2] \in Entry
      <4>1. \A k \in DOMAIN news : news[k] \in Entry
        BY DEF RowsOK
      <4>2. 2 \in 0..3
        OBVIOUS
      <4>3. ASSUME NEW e \in Entry
            PROVE  [e EXCEPT !.named = named, !.status = 2] \in Entry
        BY <4>2, Zenon DEF Entry
      <4> QED BY <4>1, <4>3
    <3> DEFINE row(k) == IF k = c THEN [news[k] EXCEPT !.named = named, !.status = 2] ELSE news[k]
    <3>2. \A k \in DOMAIN news : row(k) \in Entry
      BY <3>1 DEF RowsOK
    <3>3. news' = [k \in DOMAIN news |-> row(k)]
      BY <2>1
    <3> HIDE DEF row
    <3> QED BY <2>2, <3>2, <3>3 DEF RowsOK, Issued
  <2>4. [NoJob EXCEPT !.pc = "content", !.code = c] \in Job
    BY <2>1, JobAbout
  <2>5. JobsOK'
    BY <2>1, <2>2, <2>4, JobTaken DEF NoJob, Issued
  <2>6. unchecked' \subseteq Codes
    BY <2>1, IssuedCodes DEF HistoryOK
  <2> QED BY <2>2, <2>3, <2>5, <2>6, VotesKept, Marked
<1>3. CASE SaveContent(w)
  <2>1. CASE SetStatus(job[w].code, 2) /\ Answer(w) /\ Unpaired
             /\ UNCHANGED <<votes, created, torn, unchecked>>
    <3>1. RowsOK' /\ JobsOK'
      BY <2>1, StatusSet, JobAnswered
    <3> QED BY <2>1, <3>1, VotesKept, Marked DEF HistoryOK
  <2> QED BY <1>3, <2>1, FailureTyped DEF SaveContent, Fails, WriteStatus
<1>4. CASE TakePublish(w)
  <2>1. PICK c \in Issued : Become(w, [NoJob EXCEPT !.pc = "publish", !.code = c])
    BY <1>4 DEF TakePublish, BeginPublish
  <2>2. Reads
    BY <1>4 DEF TakePublish, BeginPublish
  <2>3. [NoJob EXCEPT !.pc = "publish", !.code = c] \in Job
    BY <2>1, JobAbout
  <2>4. JobsOK'
    BY <2>1, <2>2, <2>3, JobTaken DEF NoJob, Issued, Reads, tables
  <2> QED BY <2>2, <2>4, RowsKept, VotesKept, HistoryKept DEF Reads, tables
<1>5. CASE Publish(w)
  <2>1. CASE SetStatus(job[w].code, 3) /\ Answer(w) /\ Unpaired
             /\ UNCHANGED <<votes, created, torn, unchecked>>
    <3>1. RowsOK' /\ JobsOK'
      BY <2>1, StatusSet, JobAnswered
    <3> QED BY <2>1, <3>1, VotesKept, Marked DEF HistoryOK
  <2> QED BY <1>5, <2>1, FailureTyped DEF Publish, Fails, WriteStatus
<1>6. CASE ResetStatus(w)
  <2>1. PICK c \in Issued, s \in 0..2 : SetStatus(c, s)
    BY <1>6 DEF ResetStatus
  <2>2. Unpaired /\ UNCHANGED <<votes, created, job, torn, unchecked>>
    BY <1>6 DEF ResetStatus
  <2>3. RowsOK'
    BY <2>1, <2>2, StatusSet
  <2> QED BY <2>2, <2>3, JobsKept, VotesKept, Marked DEF HistoryOK
<1> QED BY <1>1, <1>2, <1>3, <1>4, <1>5, <1>6

LEMMA CodeBound == ASSUME RowsOK PROVE Issued \subseteq 0..MaxEntries
BY DEF RowsOK, Issued

LEMMA NewVoteRange ==
  /\ \A old \in -1..1, v \in {-1, 1} : NewVote(old, v) \in -1..1
  /\ \A n \in Int, value \in {-1, 1}, old \in -1..1, v \in {-1, 1} :
       Counted(n, value, old, v) \in Int
BY DEF NewVote, Counted

LEMMA VotesTyped ==
  ASSUME TypeInv, NEW w \in Workers,
         TakeLike(w) \/ ReadTally(w) \/ WriteVote(w) \/ VoteFails(w) \/ WriteTally(w) \/ TallyFails(w)
  PROVE  TypeInv'
<1> USE NoJobTyped, IssuedCodes DEF TypeInv
<1>j. job[w] \in Job /\ GoodJob(job[w])
  BY DEF JobsOK
<1>1. CASE TakeLike(w)
  <2>1. PICK u \in Users, c \in Issued, v \in {-1, 1} : ReadVote(w, u, c, v)
    BY <1>1 DEF TakeLike
  <2> DEFINE j == [NoJob EXCEPT !.pc = "tally", !.user = u, !.code = c,
                                !.vote = v, !.old = votes[c][u]]
  <2>2. Become(w, j) /\ UNCHANGED <<tables, uncounted, unchecked>>
        /\ torn' = torn \cup {k \in {c} : \E other \in Workers : Voting(other, k)}
    BY <2>1 DEF ReadVote
  <2>3. c \in 0..MaxEntries /\ votes[c][u] \in -1..1 /\ "tally" \in Points /\ c \in Codes
    BY CodeBound DEF VotesOK, Points
  <2>4. j \in Job /\ j.pc = "tally" /\ j.code = c /\ j.user = u
    BY <2>3, Zenon DEF Job, NoJob
  <2> HIDE DEF j
  <2>5. JobsOK'
    BY <2>2, <2>4, JobTaken DEF tables, Issued
  <2>6. HistoryOK'
    BY <2>2, <2>3 DEF HistoryOK
  <2> QED BY <2>2, <2>5, <2>6, RowsKept, VotesKept DEF tables
<1>2. CASE ReadTally(w)
  <2> DEFINE c == job[w].code
             j == [job[w] EXCEPT !.pc = "vote",
                     !.like = IF Visible(c) THEN news[c].like ELSE 0,
                     !.unlike = IF Visible(c) THEN news[c].unlike ELSE 0]
  <2>1. job[w].pc = "tally" /\ Become(w, j) /\ UNCHANGED <<tables, uncounted, unchecked>>
        /\ torn' = torn \cup {k \in {c} : ~Visible(k)}
    BY <1>2 DEF ReadTally, At
  <2>2. (IF Visible(c) THEN news[c].like ELSE 0) \in Int
        /\ (IF Visible(c) THEN news[c].unlike ELSE 0) \in Int
    BY DEF RowsOK, Visible, Exists, Entry
  <2>3. j \in Job /\ j.pc = "vote" /\ j.code = job[w].code /\ j.user = job[w].user
    BY <1>j, <2>2 DEF Job, Points
  <2>4. job[w].code \in Issued /\ job[w].user \in Users
    BY <1>j, <2>1 DEF GoodJob
  <2> HIDE DEF j
  <2>5. JobsOK'
    BY <2>1, <2>3, <2>4, JobTaken DEF tables, Issued
  <2>6. HistoryOK'
    BY <2>1, <2>4 DEF HistoryOK
  <2> QED BY <2>1, <2>5, <2>6, RowsKept, VotesKept DEF tables
<1>3. CASE WriteVote(w)
  <2> DEFINE j == job[w]
             vanished == j.old # 0 /\ votes[j.code][j.user] = 0
             k == [j EXCEPT !.pc = "count",
                     !.like = Counted(j.like, 1, j.old, j.vote),
                     !.unlike = Counted(j.unlike, -1, j.old, j.vote)]
  <2>1. job[w].pc = "vote" /\ Become(w, k) /\ UNCHANGED <<news, created, history>>
        /\ votes' = [votes EXCEPT ![j.code][j.user] =
                       IF vanished THEN 0 ELSE NewVote(j.old, j.vote)]
    BY <1>3 DEF WriteVote, At
  <2>2. /\ j.code \in Issued /\ j.user \in Users /\ j.old \in -1..1 /\ j.vote \in {-1, 1}
        /\ j.like \in Int /\ j.unlike \in Int
    BY <1>j, <2>1 DEF GoodJob, Job
  <2>3. Counted(j.like, 1, j.old, j.vote) \in Int /\ Counted(j.unlike, -1, j.old, j.vote) \in Int
        /\ (IF vanished THEN 0 ELSE NewVote(j.old, j.vote)) \in -1..1
    <3> HIDE DEF vanished, j
    <3>1. NewVote(j.old, j.vote) \in -1..1
      BY <2>2, NewVoteRange
    <3>2. (IF vanished THEN 0 ELSE NewVote(j.old, j.vote)) \in -1..1
      BY <3>1
    <3>3. 1 \in {-1, 1} /\ -1 \in {-1, 1}
      OBVIOUS
    <3>4. Counted(j.like, 1, j.old, j.vote) \in Int /\ Counted(j.unlike, -1, j.old, j.vote) \in Int
      BY <2>2, <3>3, NewVoteRange, Zenon
    <3> QED BY <3>2, <3>4
  <2>4. k \in Job /\ k.pc = "count" /\ k.code = job[w].code /\ k.user = job[w].user
    <3> DEFINE like == Counted(j.like, 1, j.old, j.vote)
               unlike == Counted(j.unlike, -1, j.old, j.vote)
    <3>1. like \in Int /\ unlike \in Int
      BY <2>3
    <3> HIDE DEF like, unlike
    <3> QED BY <1>j, <3>1 DEF Job, Points, like, unlike
  <2> HIDE DEF k
  <2>5. JobsOK'
    BY <2>1, <2>2, <2>4, JobTaken DEF Issued
  <2>6. VotesOK'
    BY <2>1, <2>2, <2>3 DEF VotesOK
  <2> QED BY <2>1, <2>5, <2>6, RowsKept, HistoryKept
<1>4. CASE VoteFails(w)
  BY <1>4, FailureTyped DEF VoteFails
<1>5. CASE WriteTally(w)
  <2>1. /\ Answer(w) /\ UNCHANGED <<votes, created, history>>
        /\ job[w].pc = "count"
        /\ news' = [k \in DOMAIN news |->
                      IF k = job[w].code
                      THEN [news[k] EXCEPT !.like = job[w].like, !.unlike = job[w].unlike]
                      ELSE news[k]]
    BY <1>5 DEF WriteTally, At
  <2>2. job[w].like \in Int /\ job[w].unlike \in Int
    BY <1>j DEF Job
  <2>3. RowsOK'
    BY <2>1, <2>2 DEF RowsOK, Issued, Entry
  <2> QED BY <2>1, <2>3, JobAnswered, VotesKept, HistoryKept
<1>6. CASE TallyFails(w)
  <2>1. job[w].code \in Codes /\ Answer(w) /\ UNCHANGED <<tables, uncounted, unchecked>>
        /\ torn' = torn \cup {job[w].code}
    BY <1>6, <1>j DEF TallyFails, At, GoodJob
  <2>2. HistoryOK'
    BY <2>1 DEF HistoryOK
  <2> QED BY <2>1, <2>2, JobAnswered, RowsKept, VotesKept DEF tables
<1> QED BY <1>1, <1>2, <1>3, <1>4, <1>5, <1>6

LEMMA CommentsTyped ==
  ASSUME TypeInv, NEW w \in Workers,
         CreateComment(w) \/ CheckComment(w) \/ PostComment(w) \/ ReadParent(w) \/ CountComment(w)
  PROVE  TypeInv'
<1> USE NoJobTyped, IssuedCodes DEF TypeInv
<1> DEFINE parent == job[w].parent
<1>j. job[w] \in Job /\ GoodJob(job[w])
  BY DEF JobsOK
<1>1. CASE CreateComment(w)
  <2>1. PICK u \in Users \cup {Nobody}, p \in Issued :
          /\ Create(u # Nobody, p)
          /\ Become(w, [NoJob EXCEPT !.pc = "check", !.user = u, !.code = NewCode, !.parent = p])
    BY <1>1 DEF CreateComment
  <2>2. UNCHANGED <<votes, history>>
    BY <1>1 DEF CreateComment
  <2> DEFINE named == u # Nobody
             j == [NoJob EXCEPT !.pc = "check", !.user = u, !.code = NewCode, !.parent = p]
  <2>3. RowsOK' /\ created' = created + 1
    <3>1. named \in BOOLEAN /\ p \in 0..MaxEntries
      BY CodeBound
    <3>2. Create(named, p)
      BY <2>1
    <3> HIDE DEF named
    <3> QED BY <3>1, <3>2, RowCreated
  <2>4. NewCode \in 0..MaxEntries /\ NewCode \in Issued' /\ p \in 0..MaxEntries /\ p \in Codes
    <3>1. NewCode \in Codes /\ created \in Nat /\ p \in Issued
      BY <2>1 DEF Create, RowsOK
    <3> QED BY <2>3, <3>1, CodeBound DEF Codes, Issued, NewCode
  <2>5. j \in Job /\ j.pc = "check" /\ j.code = NewCode /\ j.parent = p
    <3>1. "check" \in Points
      BY DEF Points
    <3> QED BY <2>4, <3>1, Zenon DEF Job, NoJob
  <2>6. Become(w, j)
    BY <2>1
  <2> HIDE DEF j
  <2>7. JobsOK'
    BY <2>3, <2>4, <2>5, <2>6, JobTaken
  <2> QED BY <2>2, <2>3, <2>7, VotesKept, HistoryKept
<1>2. CASE CheckComment(w)
  <2>1. Reads /\ job[w].pc = "check" /\ (Goto(w, "post") \/ Answer(w))
    BY <1>2 DEF CheckComment, At
  <2>2. JobsOK'
    BY <2>1, JobMoves, JobAnswered DEF Reads, tables, Points
  <2> QED BY <2>1, <2>2, RowsKept, VotesKept, HistoryKept DEF Reads, tables
<1>3. CASE PostComment(w)
  <2>1. CASE Fails(w)
    BY <2>1, FailureTyped DEF Fails
  <2>2. CASE ~Fails(w)
    <3>1. /\ job[w].pc = "post" /\ SetStatus(job[w].code, 3) /\ Goto(w, "parent")
          /\ uncounted' = uncounted \cup {p \in {parent} : ~Exists(job[w].code)}
          /\ UNCHANGED <<votes, created, torn, unchecked>>
      BY <1>3, <2>2 DEF PostComment, At
    <3>2. RowsOK' /\ JobsOK'
      BY <3>1, StatusSet, JobMoves DEF Points
    <3>3. HistoryOK'
      BY <1>j, <3>1 DEF HistoryOK, GoodJob
    <3> QED BY <3>1, <3>2, <3>3, VotesKept
  <2> QED BY <2>1, <2>2
<1>4. CASE ReadParent(w)
  <2>1. CASE Visible(parent)
    <3> DEFINE n == news[parent].comments + 1
               j == [job[w] EXCEPT !.pc = "bump", !.n = n]
    <3>1. /\ job[w].pc = "parent" /\ Become(w, j) /\ UNCHANGED <<tables, torn, unchecked>>
          /\ uncounted' = uncounted \cup Overlapped(w, parent)
      BY <1>4, <2>1 DEF ReadParent, At
    <3>2. n \in Int
      BY <2>1 DEF RowsOK, Entry, Visible, Exists
    <3> HIDE DEF n
    <3>3. j \in Job /\ j.pc = "bump" /\ j.code = job[w].code /\ j.parent = parent
      BY <1>j, <3>2 DEF Job, Points
    <3>4. job[w].code \in Issued /\ parent \in Codes
      BY <1>j, <3>1 DEF GoodJob
    <3> HIDE DEF j
    <3>5. JobsOK'
      BY <3>1, <3>3, <3>4, JobTaken DEF tables, Issued
    <3>6. HistoryOK'
      BY <3>1, <3>4 DEF HistoryOK, Overlapped
    <3> QED BY <3>1, <3>5, <3>6, RowsKept, VotesKept DEF tables
  <2>2. CASE ~Visible(parent)
    <3>1. /\ job[w].pc = "parent" /\ Answer(w) /\ UNCHANGED <<tables, torn, unchecked>>
          /\ uncounted' = uncounted \cup {parent}
      BY <1>4, <2>2 DEF ReadParent, At
    <3>2. HistoryOK'
      BY <1>j, <3>1 DEF HistoryOK, GoodJob
    <3> QED BY <3>1, <3>2, JobAnswered, RowsKept, VotesKept DEF tables
  <2> QED BY <2>1, <2>2
<1>5. CASE CountComment(w)
  <2>1. job[w].pc = "bump" /\ Answer(w) /\ UNCHANGED <<votes, created, torn, unchecked>>
    BY <1>5 DEF CountComment, At
  <2>2. job[w].n \in Int /\ parent \in Codes
    BY <1>j, <2>1 DEF Job, GoodJob
  <2>3. \/ SetComments(parent, job[w].n) /\ UNCHANGED uncounted
        \/ uncounted' = uncounted \cup {parent} /\ UNCHANGED news
    BY <1>5 DEF CountComment
  <2>4. RowsOK'
    BY <2>1, <2>2, <2>3, CommentsSet, RowsKept
  <2>5. HistoryOK'
    BY <2>1, <2>2, <2>3 DEF HistoryOK
  <2> QED BY <2>1, <2>4, <2>5, JobAnswered, VotesKept
<1> QED BY <1>1, <1>2, <1>3, <1>4, <1>5

LEMMA RemovalsTyped ==
  ASSUME TypeInv, NEW w \in Workers,
         TakeRemove(w) \/ ReadComments(w) \/ DropComment(w) \/ Hide(w)
           \/ TakeDelete(w) \/ DeleteLikes(w) \/ DeleteRow(w)
  PROVE  TypeInv'
<1> USE NoJobTyped, IssuedCodes DEF TypeInv
<1> DEFINE parent == job[w].parent
           code == job[w].code
<1>j. job[w] \in Job /\ GoodJob(job[w])
  BY DEF JobsOK
<1>1. CASE TakeRemove(w)
  <2> DEFINE p(c) == IF Exists(c) THEN news[c].parent ELSE 0
             pc(c) == IF p(c) = 0 THEN "hide" ELSE "comments"
             j(c) == [NoJob EXCEPT !.pc = pc(c), !.code = c, !.parent = p(c)]
  <2>1. PICK c \in Issued :
          /\ Become(w, j(c))
          /\ \E Q \in SUBSET {p(c)} : uncounted' = uncounted \cup (Q \ {0})
    <3>1. PICK c \in Issued :
            /\ Become(w, j(c))
            /\ uncounted' = uncounted \cup
                 {q \in {p(c)} \ {0} : \/ news[c].status # 3
                                      \/ \E other \in Workers : Removing(other, c) \/ Posting(other, c)}
      BY <1>1 DEF TakeRemove, BeginRemove
    <3> DEFINE Q == {q \in {p(c)} \ {0} : \/ news[c].status # 3
                      \/ \E other \in Workers : Removing(other, c) \/ Posting(other, c)}
    <3>2. Q \in SUBSET {p(c)} /\ Q \ {0} = Q
      OBVIOUS
    <3>3. uncounted' = uncounted \cup Q
      BY <3>1
    <3> HIDE DEF Q, j
    <3> QED BY <3>1, <3>2, <3>3
  <2>2. UNCHANGED <<tables, torn, unchecked>>
    BY <1>1 DEF TakeRemove, BeginRemove
  <2>3. p(c) \in 0..MaxEntries
    BY DEF RowsOK, Entry, Exists
  <2>4. pc(c) \in {"hide", "comments"} /\ (pc(c) = "comments" => p(c) \in Codes)
    BY <2>3 DEF Codes
  <2>5. j(c) \in Job /\ j(c).pc = pc(c) /\ j(c).code = c /\ j(c).parent = p(c)
    <3>1. pc(c) \in Points /\ c \in 0..MaxEntries
      BY <2>4, CodeBound DEF Points
    <3> HIDE DEF p, pc
    <3> QED BY <2>3, <3>1, Zenon DEF Job, NoJob
  <2> HIDE DEF p, pc, j
  <2>6. JobsOK'
    <3>1. PICK k \in Job : k = j(c)
      BY <2>5
    <3>2. /\ k.pc # "idle" => k.code \in Issued'
          /\ k.pc \in {"tally", "vote", "count"} => k.user \in Users
          /\ k.pc \in ParentPoints => k.parent \in Codes
      BY <2>2, <2>4, <2>5, <3>1 DEF tables, Issued
    <3>3. Become(w, k) /\ created' = created
      BY <2>1, <2>2, <3>1 DEF tables
    <3> QED BY <3>2, <3>3, JobTaken
  <2>7. HistoryOK'
    <3>1. {p(c)} \ {0} \subseteq Codes
      BY <2>3 DEF Codes
    <3> QED BY <2>1, <2>2, <3>1 DEF HistoryOK
  <2> QED BY <2>2, <2>6, <2>7, RowsKept, VotesKept DEF tables
<1>2. CASE ReadComments(w)
  <2> DEFINE n == IF Exists(parent) THEN news[parent].comments ELSE 0
             pc == IF n > 0 THEN "drop" ELSE "hide"
             j == [job[w] EXCEPT !.pc = pc, !.n = OneLess(n)]
  <2>1. /\ job[w].pc = "comments" /\ Become(w, j) /\ UNCHANGED <<tables, torn, unchecked>>
        /\ uncounted' = uncounted \cup Overlapped(w, parent)
    BY <1>2 DEF ReadComments, At
  <2>2. n \in Int
    BY DEF RowsOK, Entry, Exists
  <2>3. OneLess(n) \in Int /\ pc \in {"drop", "hide"}
    BY <2>2 DEF OneLess
  <2> HIDE DEF n, pc
  <2>4. j \in Job /\ j.pc = pc /\ j.code = code /\ j.parent = parent
    <3>1. pc \in Points
      BY <2>3 DEF Points
    <3> QED BY <1>j, <2>3, <3>1 DEF Job
  <2>5. code \in Issued /\ parent \in Codes
    BY <1>j, <2>1 DEF GoodJob
  <2> HIDE DEF j
  <2>6. JobsOK'
    BY <2>1, <2>3, <2>4, <2>5, JobTaken DEF tables, Issued
  <2>7. HistoryOK'
    BY <2>1, <2>5 DEF HistoryOK, Overlapped
  <2> QED BY <2>1, <2>6, <2>7, RowsKept, VotesKept DEF tables
<1>3. CASE DropComment(w)
  <2>1. CASE Fails(w)
    BY <2>1, FailureTyped DEF Fails
  <2>2. CASE ~Fails(w)
    <3>1. /\ job[w].pc = "drop" /\ SetComments(parent, job[w].n) /\ Goto(w, "hide")
          /\ UNCHANGED <<votes, created, history>>
      BY <1>3, <2>2 DEF DropComment, At
    <3>2. job[w].n \in Int
      BY <1>j DEF Job
    <3>3. RowsOK'
      BY <3>1, <3>2, CommentsSet
    <3>4. JobsOK'
      BY <3>1, JobMoves DEF Points
    <3> QED BY <3>1, <3>3, <3>4, VotesKept, HistoryKept
  <2> QED BY <2>1, <2>2
<1>4. CASE Hide(w)
  <2>1. /\ job[w].pc = "hide" /\ Answer(w) /\ UNCHANGED <<votes, created, torn, unchecked>>
        /\ \/ SetStatus(code, 0) /\ UNCHANGED uncounted
           \/ uncounted' = uncounted \cup ({parent} \ {0}) /\ UNCHANGED news
    BY <1>4 DEF Hide, At
  <2>2. parent \in 0..MaxEntries
    BY <1>j DEF Job
  <2>3. RowsOK'
    BY <2>1, StatusSet, RowsKept
  <2>4. HistoryOK'
    <3>1. {parent} \ {0} \subseteq Codes
      BY <2>2 DEF Codes
    <3> QED BY <2>1, <3>1 DEF HistoryOK
  <2> QED BY <2>1, <2>3, <2>4, JobAnswered, VotesKept
<1>5. CASE TakeDelete(w)
  <2>1. PICK c \in Issued :
          /\ Become(w, [NoJob EXCEPT !.pc = "likes", !.code = c])
          /\ \/ Keep({k \in DOMAIN news : news[k].parent # c}) /\ Unpaired
             \/ UNCHANGED <<news, uncounted>>
    BY <1>5 DEF TakeDelete, BeginDelete
  <2>2. UNCHANGED <<votes, created, torn, unchecked>>
    BY <1>5 DEF TakeDelete, BeginDelete
  <2>3. RowsOK'
    <3>1. CASE UNCHANGED <<news, uncounted>>
      BY <2>2, <3>1, RowsKept
    <3>2. CASE Keep({k \in DOMAIN news : news[k].parent # c})
      <4> DEFINE C == {k \in DOMAIN news : news[k].parent # c}
      <4>1. C \in SUBSET DOMAIN news /\ Keep(C)
        BY <3>2
      <4> HIDE DEF C
      <4> QED BY <2>2, <4>1, RowsDeleted
    <3> QED BY <2>1, <3>1, <3>2
  <2>4. HistoryOK'
    BY <2>1, <2>2 DEF HistoryOK, Unpaired
  <2>5. [NoJob EXCEPT !.pc = "likes", !.code = c] \in Job
    BY JobAbout
  <2>6. JobsOK'
    <3>1. PICK j \in Job : j = [NoJob EXCEPT !.pc = "likes", !.code = c]
      BY <2>5
    <3>2. j.pc = "likes" /\ j.code \in Issued /\ Become(w, j)
      BY <2>1, <3>1 DEF NoJob
    <3> QED BY <2>2, <3>2, JobTaken DEF Issued
  <2> QED BY <2>2, <2>3, <2>4, <2>6, VotesKept
<1>6. CASE DeleteLikes(w)
  <2>1. /\ job[w].pc = "likes" /\ Goto(w, "row") /\ UNCHANGED <<news, created, uncounted, unchecked>>
        /\ \/ /\ votes' = [votes EXCEPT ![code] = [u \in Users |-> 0]]
              /\ torn' = torn \cup {k \in {code} : votes'[k] # votes[k]}
           \/ UNCHANGED <<votes, torn>>
    BY <1>6 DEF DeleteLikes, At
  <2>2. code \in Codes
    BY <1>j, <2>1 DEF GoodJob
  <2>3. VotesOK'
    BY <2>1, <2>2 DEF VotesOK
  <2>4. HistoryOK'
    BY <2>1, <2>2 DEF HistoryOK
  <2>5. JobsOK'
    BY <2>1, JobMoves DEF Points
  <2> QED BY <2>1, <2>3, <2>4, <2>5, RowsKept
<1>7. CASE DeleteRow(w)
  <2>1. CASE Fails(w)
    BY <2>1, FailureTyped DEF Fails
  <2>2. CASE ~Fails(w)
    <3>1. /\ Keep(DOMAIN news \ {code}) /\ Answer(w) /\ Unpaired
          /\ UNCHANGED <<votes, created, torn, unchecked>>
      BY <1>7, <2>2 DEF DeleteRow
    <3>2. RowsOK'
      <4> DEFINE C == DOMAIN news \ {code}
      <4>1. C \in SUBSET DOMAIN news /\ Keep(C)
        BY <3>1
      <4> HIDE DEF C
      <4> QED BY <3>1, <4>1, RowsDeleted
    <3>3. HistoryOK'
      BY <3>1, Marked DEF HistoryOK
    <3> QED BY <3>1, <3>2, <3>3, JobAnswered, VotesKept
  <2> QED BY <2>1, <2>2
<1> QED BY <1>1, <1>2, <1>3, <1>4, <1>5, <1>6, <1>7

LEMMA RestartTyped == ASSUME TypeInv, Restart PROVE TypeInv'
<1> USE DEF TypeInv
<1>1. /\ job' = [w \in Workers |-> NoJob] /\ UNCHANGED <<votes, created, unchecked>>
      /\ torn' \subseteq torn \cup Codes /\ uncounted' \subseteq uncounted \cup Codes
  BY DEF Restart
<1>2. RowsOK'
  <2>1. CASE UNCHANGED news
    BY <1>1, <2>1, RowsKept
  <2>2. CASE news' = [c \in DOMAIN news |->
               IF news[c].status = 1 THEN [news[c] EXCEPT !.status = 0] ELSE news[c]]
    BY <1>1, <2>2 DEF RowsOK, Entry, Issued
  <2> QED BY <2>1, <2>2 DEF Restart
<1>3. JobsOK'
  BY <1>1, NoJobTyped DEF JobsOK, GoodJob, NoJob
<1> QED BY <1>1, <1>2, <1>3, VotesKept DEF HistoryOK

LEMMA NextTyped == TypeInv /\ [AnyNext]_vars => TypeInv'
<1> SUFFICES ASSUME TypeInv, [AnyNext]_vars PROVE TypeInv'
  OBVIOUS
<1>1. CASE UNCHANGED vars
  BY <1>1, RowsKept, VotesKept, JobsKept, HistoryKept DEF vars, history, TypeInv
<1>2. ASSUME NEW w \in Workers, AnyStatement(w) PROVE TypeInv'
  BY <1>2, EntriesTyped, VotesTyped, CommentsTyped, RemovalsTyped DEF AnyStatement
<1> QED BY <1>1, <1>2, RestartTyped DEF AnyNext

\* The tables keep their columns' types whatever the statements of the workers, their
\* failures and restarts: the codes issued, the votes and the counters (db/news_mgr.cpp).
THEOREM NewsTyped == Spec => []NewsTypeOK
<1>1. Spec => []TypeInv
  BY InitTyped, NextTaken, NextTyped, PTL DEF Spec
<1> QED BY <1>1, TypeInvIsTypeOK, PTL
-----------------------------------------------------------------------------
(* What is published has a name: a worker about to publish an entry has     *)
(* checked it, and a save since then is in unchecked.  A code is never       *)
(* issued twice, so the entry is the one that was checked.                   *)

Vouched(c) == Exists(c) => news[c].named \/ c \in unchecked
Publishing(j) == j.pc \in {"publish", "post"}
NamedInv == PublishedNamed /\ \A w \in Workers : Publishing(job[w]) => Vouched(job[w].code)

\* A statement that publishes nothing but what is vouched for, a worker that checks what
\* it is about to publish.
PublishesVouched ==
  \A c \in DOMAIN news' :
    /\ c \in DOMAIN news /\ news'[c].named = news[c].named
    /\ news'[c].status = 3 => news[c].status = 3 \/ Vouched(c)
TakesVouched ==
  \A w \in Workers : Publishing(job'[w]) => job'[w] = job[w] \/ Vouched(job'[w].code)

LEMMA NamedKept ==
  ASSUME NamedInv, PublishesVouched, TakesVouched, unchecked \subseteq unchecked'
  PROVE  NamedInv'
BY DEF NamedInv, PublishesVouched, TakesVouched, Vouched, PublishedNamed, Exists, Publishing

LEMMA PublishesNothing ==
  ASSUME RowsOK
  PROVE  /\ UNCHANGED news => PublishesVouched
         /\ \A c, n : SetComments(c, n) => PublishesVouched
         /\ \A C \in SUBSET DOMAIN news : Keep(C) => PublishesVouched
         /\ \A c, s : SetStatus(c, s) /\ (s = 3 => Vouched(c)) => PublishesVouched
BY DEF RowsOK, Entry, PublishesVouched, SetComments, SetStatus, Keep

LEMMA TakesNothing ==
  ASSUME JobsOK, NEW w \in Workers
  PROVE  /\ UNCHANGED job => TakesVouched
         /\ \A j : Become(w, j) /\ (Publishing(j) => Vouched(j.code)) => TakesVouched
BY DEF JobsOK, TakesVouched, Become

LEMMA AnswersNothing ==
  ASSUME JobsOK, NEW w \in Workers
  PROVE  /\ Answer(w) => TakesVouched
         /\ \A pc \in Points \ {"publish", "post"} : Goto(w, pc) => TakesVouched
BY TakesNothing DEF Answer, Goto, NoJob, Publishing, JobsOK, Job

LEMMA EntriesNamed ==
  ASSUME TypeInv, NamedInv, NEW w \in Workers,
         CreateNew(w) \/ TakeSave(w) \/ SaveContent(w) \/ TakePublish(w) \/ Publish(w)
           \/ ResetStatus(w)
  PROVE  NamedInv'
<1> USE PublishesNothing, TakesNothing, AnswersNothing DEF TypeInv
<1>f. ASSUME Fails(w) PROVE NamedInv'
  BY <1>f, NamedKept DEF Fails, Reads, tables, history
<1>1. CASE CreateNew(w)
  <2>1. /\ UNCHANGED <<job, unchecked>> /\ DOMAIN news' = DOMAIN news \cup {NewCode}
        /\ \A c \in DOMAIN news : news'[c] = news[c]
        /\ news'[NewCode].status = 1 /\ NewCode \notin Issued
    BY <1>1 DEF CreateNew, Create, history, RowsOK, Issued, NewCode
  <2> QED BY <2>1 DEF NamedInv, PublishedNamed, Vouched, Publishing, Exists, JobsOK, GoodJob
<1>2. CASE TakeSave(w)
  <2>1. PICK c \in Issued, named \in BOOLEAN :
          /\ news' = [k \in DOMAIN news |->
                        IF k = c THEN [news[k] EXCEPT !.named = named, !.status = 2] ELSE news[k]]
          /\ Become(w, [NoJob EXCEPT !.pc = "content", !.code = c])
          /\ unchecked' = unchecked \cup {k \in {c} : Checked(k)}
    BY <1>2 DEF TakeSave, StoreInfo
  <2>2. DOMAIN news' = DOMAIN news
        /\ \A k \in DOMAIN news : IF k = c THEN news'[k].status = 2 ELSE news'[k] = news[k]
    BY <2>1 DEF RowsOK, Entry
  <2>3. \A v \in Workers : Publishing(job'[v]) => job'[v] = job[v]
    BY <2>1 DEF Become, NoJob, Publishing, JobsOK
  <2>4. \A v \in Workers : Publishing(job[v]) /\ job[v].code = c => c \in unchecked'
    BY <2>1 DEF Checked, Publishing
  <2>5. unchecked \subseteq unchecked'
    BY <2>1
  <2> QED BY <2>2, <2>3, <2>4, <2>5 DEF NamedInv, PublishedNamed, Vouched, Exists
<1>3. CASE SaveContent(w)
  BY <1>3, <1>f, NamedKept DEF SaveContent, WriteStatus
<1>4. CASE TakePublish(w)
  <2>1. PICK c \in Issued :
          MayPublish(c) /\ Become(w, [NoJob EXCEPT !.pc = "publish", !.code = c])
    BY <1>4 DEF TakePublish, BeginPublish
  <2>2. Vouched(c) /\ [NoJob EXCEPT !.pc = "publish", !.code = c].code = c
    BY <2>1 DEF MayPublish, Named, Vouched, NoJob
  <2>3. TakesVouched
    BY <2>1, <2>2
  <2> QED BY <1>4, <2>3, NamedKept DEF TakePublish, Reads, tables, history, BeginPublish
<1>5. CASE Publish(w)
  <2>1. Vouched(job[w].code)
    BY <1>5 DEF Publish, At, NamedInv, Publishing, WriteStatus
  <2> QED BY <1>5, <1>f, <2>1, NamedKept DEF Publish, WriteStatus
<1>6. CASE ResetStatus(w)
  BY <1>6, NamedKept DEF ResetStatus
<1> QED BY <1>1, <1>2, <1>3, <1>4, <1>5, <1>6

LEMMA VotesNamed ==
  ASSUME TypeInv, NamedInv, NEW w \in Workers,
         TakeLike(w) \/ ReadTally(w) \/ WriteVote(w) \/ VoteFails(w) \/ WriteTally(w) \/ TallyFails(w)
  PROVE  NamedInv'
<1> USE PublishesNothing, TakesNothing, AnswersNothing DEF TypeInv
<1>j. job[w] \in Job
  BY DEF JobsOK
<1>1. unchecked' = unchecked
  BY DEF TakeLike, ReadVote, ReadTally, WriteVote, VoteFails, WriteTally, TallyFails, Reads, history
<1>2. PublishesVouched
  <2>1. CASE WriteTally(w)
    BY <2>1 DEF WriteTally, PublishesVouched, RowsOK, Entry
  <2>2. UNCHANGED news \/ WriteTally(w)
    BY DEF TakeLike, ReadVote, ReadTally, WriteVote, VoteFails, TallyFails, Reads, tables
  <2> QED BY <2>1, <2>2
<1>3. TakesVouched
  <2>1. CASE TakeLike(w)
    BY <2>1 DEF TakeLike, ReadVote, NoJob, Publishing
  <2>2. CASE ReadTally(w)
    BY <2>2, <1>j DEF ReadTally, Job, Publishing
  <2>3. CASE WriteVote(w)
    BY <2>3, <1>j DEF WriteVote, Job, Publishing
  <2>4. CASE Answer(w)
    BY <2>4
  <2> QED BY <2>1, <2>2, <2>3, <2>4 DEF VoteFails, WriteTally, TallyFails
<1> QED BY <1>1, <1>2, <1>3, NamedKept

LEMMA CommentsNamed ==
  ASSUME TypeInv, NamedInv, NEW w \in Workers,
         CreateComment(w) \/ CheckComment(w) \/ PostComment(w) \/ ReadParent(w) \/ CountComment(w)
  PROVE  NamedInv'
<1> USE PublishesNothing, TakesNothing, AnswersNothing DEF TypeInv
<1>j. job[w] \in Job
  BY DEF JobsOK
<1>f. ASSUME Fails(w) PROVE NamedInv'
  BY <1>f, NamedKept DEF Fails, Reads, tables, history
<1>1. CASE CreateComment(w)
  <2>1. PICK u \in Users \cup {Nobody}, p \in Issued :
          /\ Create(u # Nobody, p)
          /\ Become(w, [NoJob EXCEPT !.pc = "check", !.user = u, !.code = NewCode, !.parent = p])
          /\ UNCHANGED <<votes, history>>
    BY <1>1 DEF CreateComment
  <2>2. /\ UNCHANGED unchecked /\ DOMAIN news' = DOMAIN news \cup {NewCode}
        /\ \A c \in DOMAIN news : news'[c] = news[c]
        /\ news'[NewCode].status = 1 /\ NewCode \notin Issued
    BY <2>1 DEF Create, history, RowsOK, Issued, NewCode
  <2>3. \A v \in Workers : Publishing(job'[v]) => job'[v] = job[v]
    BY <2>1 DEF Become, NoJob, Publishing, JobsOK
  <2> QED BY <2>2, <2>3 DEF NamedInv, PublishedNamed, Vouched, Publishing, Exists, JobsOK, GoodJob
<1>2. CASE CheckComment(w)
  <2>1. CASE Answer(w)
    BY <1>2, <2>1, NamedKept DEF CheckComment, Reads, tables, history
  <2>2. CASE ~Answer(w)
    <3>1. Vouched(job[w].code) /\ Become(w, [job[w] EXCEPT !.pc = "post"])
      BY <1>2, <2>2 DEF CheckComment, MayPublish, Named, Vouched, Goto
    <3>2. [job[w] EXCEPT !.pc = "post"].code = job[w].code
      BY <1>j DEF Job
    <3>3. TakesVouched
      BY <3>1, <3>2
    <3> QED BY <1>2, <3>3, NamedKept DEF CheckComment, Reads, tables, history
  <2> QED BY <2>1, <2>2
<1>3. CASE PostComment(w)
  <2>1. Vouched(job[w].code)
    BY <1>3 DEF PostComment, At, NamedInv, Publishing
  <2>2. CASE SetStatus(job[w].code, 3) /\ Goto(w, "parent") /\ UNCHANGED unchecked
    BY <2>1, <2>2, NamedKept DEF Points
  <2> QED BY <1>3, <1>f, <2>2 DEF PostComment
<1>4. CASE ReadParent(w)
  <2>1. PublishesVouched /\ unchecked' = unchecked
    BY <1>4 DEF ReadParent, tables
  <2>2. TakesVouched
    BY <1>4, <1>j DEF ReadParent, Job, Publishing
  <2> QED BY <2>1, <2>2, NamedKept
<1>5. CASE CountComment(w)
  BY <1>5, NamedKept DEF CountComment
<1> QED BY <1>1, <1>2, <1>3, <1>4, <1>5

LEMMA RemovalsNamed ==
  ASSUME TypeInv, NamedInv, NEW w \in Workers,
         TakeRemove(w) \/ ReadComments(w) \/ DropComment(w) \/ Hide(w)
           \/ TakeDelete(w) \/ DeleteLikes(w) \/ DeleteRow(w)
  PROVE  NamedInv'
<1> USE PublishesNothing, TakesNothing, AnswersNothing DEF TypeInv
<1>j. job[w] \in Job
  BY DEF JobsOK
<1>1. unchecked' = unchecked
  BY DEF TakeRemove, ReadComments, DropComment, Hide, TakeDelete, DeleteLikes, DeleteRow,
         Fails, Reads, history, BeginRemove, BeginDelete
<1>2. PublishesVouched
  <2>1. CASE TakeRemove(w) \/ ReadComments(w) \/ DeleteLikes(w)
    BY <2>1 DEF TakeRemove, ReadComments, DeleteLikes, tables, BeginRemove
  <2>2. CASE DropComment(w) \/ Hide(w)
    BY <2>2 DEF DropComment, Hide, Fails, Reads, tables
  <2>3. CASE TakeDelete(w)
    BY <2>3 DEF TakeDelete, BeginDelete
  <2>4. CASE DeleteRow(w)
    BY <2>4 DEF DeleteRow, Fails, Reads, tables
  <2> QED BY <2>1, <2>2, <2>3, <2>4
<1>3. TakesVouched
  <2>1. CASE TakeRemove(w)
    BY <2>1 DEF TakeRemove, NoJob, Publishing, BeginRemove
  <2>2. CASE ReadComments(w)
    BY <2>2, <1>j DEF ReadComments, Job, Publishing
  <2>3. CASE DropComment(w) \/ Hide(w) \/ DeleteLikes(w) \/ DeleteRow(w)
    BY <2>3 DEF DropComment, Hide, DeleteLikes, DeleteRow, Fails, Points
  <2>4. CASE TakeDelete(w)
    BY <2>4 DEF TakeDelete, NoJob, Publishing, BeginDelete
  <2> QED BY <2>1, <2>2, <2>3, <2>4
<1> QED BY <1>1, <1>2, <1>3, NamedKept

LEMMA NextNamed == TypeInv /\ NamedInv /\ [AnyNext]_vars => NamedInv'
<1> SUFFICES ASSUME TypeInv, NamedInv, [AnyNext]_vars PROVE NamedInv'
  OBVIOUS
<1>1. CASE UNCHANGED vars
  BY <1>1 DEF vars, NamedInv, PublishedNamed, Vouched, Exists
<1>2. ASSUME NEW w \in Workers, AnyStatement(w) PROVE NamedInv'
  BY <1>2, EntriesNamed, VotesNamed, CommentsNamed, RemovalsNamed DEF AnyStatement
<1>3. CASE Restart
  <2>1. PublishesVouched
    BY <1>3 DEF Restart, PublishesVouched, TypeInv, RowsOK, Entry
  <2>2. TakesVouched /\ unchecked' = unchecked
    BY <1>3 DEF Restart, TakesVouched, Publishing, NoJob
  <2> QED BY <2>1, <2>2, NamedKept
<1> QED BY <1>1, <1>2, <1>3 DEF AnyNext

\* A published entry has a title and an author, whatever the workers' statements, failures
\* and restarts (reset_status, news_mgr.cpp:313), but for a save that came between the check
\* and the write of a publication.
THEOREM PublishedIsNamed == Spec => []PublishedNamed
<1>1. Init => NamedInv
  BY DEF Init, NamedInv, PublishedNamed, Publishing, NoJob
<1>2. Spec => [](TypeInv /\ NamedInv)
  BY <1>1, InitTyped, NextTaken, NextTyped, NextNamed, PTL DEF Spec
<1>3. NamedInv => PublishedNamed
  BY DEF NamedInv
<1> QED BY <1>2, <1>3, PTL
-----------------------------------------------------------------------------
(* Votes are counted: an entry that is not torn has one voter at a time,    *)
(* whose copies of the vote and of the counters are still what the tables   *)
(* hold; while it is between its two writes, its counters are the votes'.    *)

Casting(j) == j.pc \in {"tally", "vote", "count"}
Recording(c) == \E w \in Workers : job[w].pc = "count" /\ job[w].code = c
Copied(j, c) ==
  /\ j.pc \in {"tally", "vote"} => j.old = votes[c][j.user]
  /\ j.pc = "vote" => j.like = news[c].like /\ j.unlike = news[c].unlike
  /\ j.pc = "count" => j.like = Votes(c, 1) /\ j.unlike = Votes(c, -1)
Counts(c) == news[c].like = Votes(c, 1) /\ news[c].unlike = Votes(c, -1)
OneVoter(c) == \A v, w \in Workers : Voting(v, c) /\ Voting(w, c) => v = w
CountedFor(c) ==
  /\ OneVoter(c)
  /\ \A w \in Workers : Voting(w, c) => Copied(job[w], c)
  /\ ~Recording(c) => Counts(c)
CountInv == \A c \in DOMAIN news \ torn : CountedFor(c)
\* A code that is not issued has no votes.
FreshInv == \A c \in Codes \ Issued : \A u \in Users : votes[c][u] = 0
TallyInv == CountInv /\ FreshInv

LEMMA CountInvCounts == CountInv => VotesCounted
BY DEF CountInv, CountedFor, VotesCounted, Recording, Counts, At

LEMMA NoVotes ==
  ASSUME NEW c, \A u \in Users : votes[c][u] = 0 PROVE Votes(c, 1) = 0 /\ Votes(c, -1) = 0
<1>1. {u \in Users : votes[c][u] = 1} = {} /\ {u \in Users : votes[c][u] = -1} = {}
  OBVIOUS
<1> QED BY <1>1, FS_EmptySet DEF Votes

\* One user's vote moves the counters as Counted computes them.
LEMMA OneVote ==
  ASSUME NEW f \in [Users -> -1..1], NEW u \in Users, NEW b \in -1..1, NEW value \in {-1, 1},
         NEW g, g = [f EXCEPT ![u] = b]
  PROVE  Cardinality({x \in Users : g[x] = value}) =
           Cardinality({x \in Users : f[x] = value})
             + (IF b = value THEN 1 ELSE 0) - (IF f[u] = value THEN 1 ELSE 0)
<1> DEFINE A == {x \in Users \ {u} : f[x] = value}
           F == {x \in Users : f[x] = value}
           G == {x \in Users : g[x] = value}
<1>1. IsFiniteSet(A) /\ u \notin A
  BY FS_Subset
<1>2. Cardinality(A) \in Nat /\ Cardinality(A \cup {u}) = Cardinality(A) + 1
  BY <1>1, FS_CardinalityType, FS_AddElement
<1>3. IF f[u] = value THEN F = A \cup {u} ELSE F = A
  OBVIOUS
<1>4. IF b = value THEN G = A \cup {u} ELSE G = A
  OBVIOUS
<1> HIDE DEF A, F, G
<1>5. Cardinality(G) = Cardinality(F) + (IF b = value THEN 1 ELSE 0)
                                      - (IF f[u] = value THEN 1 ELSE 0)
  <2>1. Cardinality(F) = Cardinality(A) + (IF f[u] = value THEN 1 ELSE 0)
    <3>1. CASE f[u] = value
      <4>1. F = A \cup {u}
        BY <1>3, <3>1
      <4> QED BY <1>2, <3>1, <4>1
    <3>2. CASE f[u] # value
      <4>1. F = A
        BY <1>3, <3>2
      <4> QED BY <1>2, <3>2, <4>1
    <3> QED BY <3>1, <3>2
  <2>2. Cardinality(G) = Cardinality(A) + (IF b = value THEN 1 ELSE 0)
    <3>1. CASE b = value
      <4>1. G = A \cup {u}
        BY <1>4, <3>1
      <4> QED BY <1>2, <3>1, <4>1
    <3>2. CASE b # value
      <4>1. G = A
        BY <1>4, <3>2
      <4> QED BY <1>2, <3>2, <4>1
    <3> QED BY <3>1, <3>2
  <2> QED BY <1>2, <2>1, <2>2
<1> QED BY <1>5 DEF F, G

\* Statements that are not about votes.
LeavesCounters ==
  \A c \in DOMAIN news' :
    \/ c \in DOMAIN news /\ news'[c].like = news[c].like /\ news'[c].unlike = news[c].unlike
    \/ c \in Codes \ Issued /\ news'[c].like = 0 /\ news'[c].unlike = 0
LeavesVoters ==
  \A w \in Workers :
    /\ Casting(job'[w]) => job'[w] = job[w]
    /\ job[w].pc = "count" => job'[w] = job[w] \/ job[w].code \in torn'
LeavesVotes ==
  /\ torn \subseteq torn'
  /\ \A c \in DOMAIN news' \ torn' : votes'[c] = votes[c]

LEMMA CountKept ==
  ASSUME TypeInv, TallyInv, LeavesCounters, LeavesVoters, LeavesVotes
  PROVE  CountInv'
<1> SUFFICES ASSUME NEW c \in DOMAIN news' \ torn' PROVE CountedFor(c)'
  BY DEF CountInv
<1>1. votes'[c] = votes[c] /\ Votes(c, 1)' = Votes(c, 1) /\ Votes(c, -1)' = Votes(c, -1)
  BY DEF LeavesVotes, Votes
<1>2. \A w \in Workers : Voting(w, c)' => Voting(w, c) /\ job'[w] = job[w]
  BY DEF LeavesVoters, Voting, Casting
<1>3. OneVoter(c) => OneVoter(c)'
  BY <1>2 DEF OneVoter
<1>4. Recording(c) => Recording(c)'
  BY DEF LeavesVoters, Recording
<1>5. CASE c \in DOMAIN news
  <2>1. CountedFor(c)
    BY <1>5 DEF TallyInv, CountInv, LeavesVotes
  <2>2. news'[c].like = news[c].like /\ news'[c].unlike = news[c].unlike
    BY <1>5 DEF LeavesCounters, TypeInv, RowsOK
  <2> QED BY <1>1, <1>2, <1>3, <1>4, <2>1, <2>2 DEF CountedFor, Copied, Counts
<1>6. CASE c \notin DOMAIN news
  <2>1. c \in Codes \ Issued /\ news'[c].like = 0 /\ news'[c].unlike = 0
    BY <1>6 DEF LeavesCounters
  <2>2. Votes(c, 1) = 0 /\ Votes(c, -1) = 0
    BY <2>1, NoVotes DEF TallyInv, FreshInv
  <2>3. \A w \in Workers : ~Voting(w, c)
    BY <2>1 DEF Voting, TypeInv, JobsOK, GoodJob
  <2> QED BY <1>1, <1>2, <2>1, <2>2, <2>3 DEF CountedFor, OneVoter, Counts
<1> QED BY <1>5, <1>6

LEMMA FreshKept ==
  ASSUME FreshInv, UNCHANGED votes, created \in Nat, created' = created \/ created' = created + 1
  PROVE  FreshInv'
BY DEF FreshInv, Issued

LEMMA CountersLeft ==
  ASSUME RowsOK
  PROVE  /\ UNCHANGED news => LeavesCounters
         /\ \A c, n : SetComments(c, n) => LeavesCounters
         /\ \A C \in SUBSET DOMAIN news : Keep(C) => LeavesCounters
         /\ \A c, s : SetStatus(c, s) => LeavesCounters
BY DEF RowsOK, Entry, LeavesCounters, SetComments, SetStatus, Keep

LEMMA CountersCreated ==
  ASSUME RowsOK, NEW named, NEW p, Create(named, p) PROVE LeavesCounters
BY DEF RowsOK, LeavesCounters, Create, NewCode, Issued

LEMMA VotersLeft ==
  ASSUME JobsOK, NEW w \in Workers
  PROVE  /\ UNCHANGED job => LeavesVoters
         /\ \A j : job[w].pc # "count" /\ Become(w, j) /\ ~Casting(j) => LeavesVoters
         /\ job[w].pc # "count" /\ Answer(w) => LeavesVoters
         /\ \A pc \in Points : job[w].pc # "count" /\ Goto(w, pc)
                               /\ pc \notin {"tally", "vote", "count"} => LeavesVoters
<1>1. UNCHANGED job => LeavesVoters
  BY DEF LeavesVoters
<1>2. \A j : job[w].pc # "count" /\ Become(w, j) /\ ~Casting(j) => LeavesVoters
  BY DEF JobsOK, LeavesVoters, Become
<1>3. \A pc \in Points : [job[w] EXCEPT !.pc = pc].pc = pc
  BY DEF JobsOK, Job
<1>4. ~Casting(NoJob)
  BY DEF Casting, NoJob
<1> QED BY <1>1, <1>2, <1>3, <1>4 DEF Answer, Goto, Casting

\* Every statement but those of like, and a restart, leaves the votes' side alone.
LEMMA EntriesTallied ==
  ASSUME TypeInv, TallyInv, NEW w \in Workers,
         CreateNew(w) \/ TakeSave(w) \/ SaveContent(w) \/ TakePublish(w) \/ Publish(w)
           \/ ResetStatus(w)
  PROVE  TallyInv'
<1> USE CountersLeft, VotersLeft DEF TypeInv
<1>1. LeavesVotes /\ votes' = votes /\ created \in Nat /\ (created' = created \/ created' = created + 1)
  <2>1. created \in Nat
    BY DEF RowsOK
  <2>2. votes' = votes /\ torn' = torn
    BY DEF CreateNew, TakeSave, SaveContent, TakePublish, Publish, ResetStatus, Fails, Reads,
           tables, history, StoreInfo, WriteStatus, BeginPublish
  <2>3. created' = created \/ created' = created + 1
    BY DEF CreateNew, TakeSave, SaveContent, TakePublish, Publish, ResetStatus, Fails, Reads,
           tables, Create, NewCode, StoreInfo, WriteStatus, BeginPublish
  <2> QED BY <2>1, <2>2, <2>3 DEF LeavesVotes
<1>2. LeavesCounters
  <2>1. CASE CreateNew(w)
    BY <2>1, CountersCreated DEF CreateNew
  <2>2. CASE TakeSave(w)
    BY <2>2 DEF TakeSave, LeavesCounters, RowsOK, Entry, StoreInfo
  <2>3. CASE SaveContent(w) \/ Publish(w) \/ ResetStatus(w)
    BY <2>3 DEF SaveContent, Publish, ResetStatus, Fails, Reads, tables, WriteStatus
  <2>4. CASE TakePublish(w)
    BY <2>4 DEF TakePublish, Reads, tables, BeginPublish
  <2> QED BY <2>1, <2>2, <2>3, <2>4
<1>3. LeavesVoters
  <2>1. CASE CreateNew(w) \/ ResetStatus(w)
    BY <2>1 DEF CreateNew, ResetStatus
  <2>2. CASE TakeSave(w)
    BY <2>2 DEF TakeSave, Free, At, NoJob, Casting, StoreInfo
  <2>3. CASE TakePublish(w)
    BY <2>3 DEF TakePublish, Free, At, NoJob, Casting, BeginPublish
  <2>4. CASE SaveContent(w) \/ Publish(w)
    BY <2>4 DEF SaveContent, Publish, Fails, At, WriteStatus
  <2> QED BY <2>1, <2>2, <2>3, <2>4
<1> QED BY <1>1, <1>2, <1>3, CountKept, FreshKept DEF TallyInv

LEMMA CommentsTallied ==
  ASSUME TypeInv, TallyInv, NEW w \in Workers,
         CreateComment(w) \/ CheckComment(w) \/ PostComment(w) \/ ReadParent(w) \/ CountComment(w)
  PROVE  TallyInv'
<1> USE CountersLeft, VotersLeft DEF TypeInv
<1>j. job[w] \in Job
  BY DEF JobsOK
<1>1. LeavesVotes /\ votes' = votes /\ created \in Nat /\ (created' = created \/ created' = created + 1)
  <2>1. created \in Nat
    BY DEF RowsOK
  <2>2. votes' = votes /\ torn' = torn
    BY DEF CreateComment, CheckComment, PostComment, ReadParent, CountComment, Fails, Reads,
           tables, history
  <2>3. created' = created \/ created' = created + 1
    BY DEF CreateComment, CheckComment, PostComment, ReadParent, CountComment, Fails, Reads,
           tables, Create, NewCode
  <2> QED BY <2>1, <2>2, <2>3 DEF LeavesVotes
<1>2. LeavesCounters
  <2>1. CASE CreateComment(w)
    BY <2>1, CountersCreated DEF CreateComment
  <2>2. CASE CheckComment(w) \/ ReadParent(w)
    BY <2>2 DEF CheckComment, ReadParent, Reads, tables
  <2>3. CASE PostComment(w) \/ CountComment(w)
    BY <2>3 DEF PostComment, CountComment, Fails, Reads, tables
  <2> QED BY <2>1, <2>2, <2>3
<1>3. LeavesVoters
  <2>1. CASE CreateComment(w)
    BY <2>1 DEF CreateComment, Free, At, NoJob, Casting
  <2>2. CASE CheckComment(w) \/ PostComment(w) \/ CountComment(w)
    BY <2>2 DEF CheckComment, PostComment, CountComment, Fails, At, Points
  <2>3. CASE ReadParent(w)
    BY <2>3, <1>j DEF ReadParent, At, Job, Casting
  <2> QED BY <2>1, <2>2, <2>3
<1> QED BY <1>1, <1>2, <1>3, CountKept, FreshKept DEF TallyInv

LEMMA RemovalsTallied ==
  ASSUME TypeInv, TallyInv, NEW w \in Workers,
         TakeRemove(w) \/ ReadComments(w) \/ DropComment(w) \/ Hide(w)
           \/ TakeDelete(w) \/ DeleteLikes(w) \/ DeleteRow(w)
  PROVE  TallyInv'
<1> USE CountersLeft, VotersLeft DEF TypeInv
<1>j. job[w] \in Job /\ GoodJob(job[w])
  BY DEF JobsOK
<1>1. LeavesVotes /\ FreshInv' /\ created \in Nat /\ created' = created
  <2>1. CASE DeleteLikes(w)
    <3>1. \/ /\ votes' = [votes EXCEPT ![job[w].code] = [u \in Users |-> 0]]
             /\ torn' = torn \cup {k \in {job[w].code} : votes'[k] # votes[k]}
          \/ UNCHANGED <<votes, torn>>
      BY <2>1 DEF DeleteLikes
    <3>2. created' = created /\ created \in Nat /\ DOMAIN news' \subseteq Codes
      BY <2>1, IssuedCodes DEF DeleteLikes, RowsOK
    <3>3. LeavesVotes
      <4>1. CASE UNCHANGED <<votes, torn>>
        BY <4>1 DEF LeavesVotes
      <4>2. CASE ~UNCHANGED <<votes, torn>>
        <5>1. \A c \in Codes \ {job[w].code} : votes'[c] = votes[c]
          BY <3>1, <4>2 DEF VotesOK
        <5> QED BY <3>1, <3>2, <4>2, <5>1 DEF LeavesVotes
      <4> QED BY <4>1, <4>2
    <3>4. FreshInv'
      BY <3>1, <3>2 DEF TallyInv, FreshInv, Issued, VotesOK
    <3> QED BY <3>2, <3>3, <3>4
  <2>2. CASE ~DeleteLikes(w)
    <3>1. LeavesVotes /\ votes' = votes /\ created \in Nat /\ created' = created
      <4>1. UNCHANGED <<votes, created, torn>>
        BY <2>2 DEF TakeRemove, ReadComments, DropComment, Hide, TakeDelete, DeleteRow, Fails, Reads,
           tables, history, BeginRemove, BeginDelete
      <4> QED BY <4>1 DEF LeavesVotes, RowsOK
    <3> QED BY <3>1, FreshKept DEF TallyInv
  <2> QED BY <2>1, <2>2
<1>2. LeavesCounters
  <2>1. CASE TakeRemove(w) \/ ReadComments(w) \/ DeleteLikes(w)
    BY <2>1 DEF TakeRemove, ReadComments, DeleteLikes, tables, BeginRemove
  <2>2. CASE DropComment(w) \/ Hide(w)
    BY <2>2 DEF DropComment, Hide, Fails, Reads, tables
  <2>3. CASE TakeDelete(w)
    BY <2>3 DEF TakeDelete, BeginDelete
  <2>4. CASE DeleteRow(w)
    BY <2>4 DEF DeleteRow, Fails, Reads, tables
  <2> QED BY <2>1, <2>2, <2>3, <2>4
<1>3. LeavesVoters
  <2>1. CASE TakeRemove(w)
    BY <2>1 DEF TakeRemove, Free, At, NoJob, Casting, BeginRemove
  <2>2. CASE ReadComments(w)
    BY <2>2, <1>j DEF ReadComments, At, Job, Casting
  <2>3. CASE DropComment(w) \/ Hide(w) \/ DeleteLikes(w) \/ DeleteRow(w)
    BY <2>3 DEF DropComment, Hide, DeleteLikes, DeleteRow, Fails, At, Points
  <2>4. CASE TakeDelete(w)
    BY <2>4 DEF TakeDelete, Free, At, NoJob, Casting, BeginDelete
  <2> QED BY <2>1, <2>2, <2>3, <2>4
<1> QED BY <1>1, <1>2, <1>3, CountKept DEF TallyInv

LEMMA RestartTallied == ASSUME TypeInv, TallyInv, Restart PROVE TallyInv'
<1> USE DEF TypeInv
<1>1. LeavesVotes /\ votes' = votes /\ created \in Nat /\ created' = created
  BY DEF Restart, LeavesVotes, RowsOK
<1>2. LeavesCounters
  BY DEF Restart, LeavesCounters, RowsOK, Entry
<1>3. LeavesVoters
  <2>1. \A w \in Workers : ~Casting(job'[w])
    BY DEF Restart, Casting, NoJob
  <2>2. \A w \in Workers : job[w].pc = "count" => job[w].code \in torn'
    BY IssuedCodes DEF Restart, At, JobsOK, GoodJob
  <2> QED BY <2>1, <2>2 DEF LeavesVoters
<1> QED BY <1>1, <1>2, <1>3, CountKept, FreshKept DEF TallyInv

\* A worker's step of like, seen from another entry and from its own.
LEMMA OtherEntry ==
  ASSUME TypeInv, NEW w \in Workers, NEW j \in Job, Become(w, j), NEW e, NEW c, c # e, CountedFor(c),
         job[w].pc = "idle" \/ job[w].code = e, j.pc = "idle" \/ j.code = e,
         votes'[c] = votes[c], news'[c].like = news[c].like, news'[c].unlike = news[c].unlike
  PROVE  CountedFor(c)'
<1>1. \A v \in Workers : (Voting(v, c)' <=> Voting(v, c)) /\ (Voting(v, c) => job'[v] = job[v])
  BY DEF Become, Voting, TypeInv, JobsOK
<1>2. Recording(c)' <=> Recording(c)
  BY DEF Become, Recording, TypeInv, JobsOK
<1>3. Votes(c, 1)' = Votes(c, 1) /\ Votes(c, -1)' = Votes(c, -1)
  BY DEF Votes
<1> QED BY <1>1, <1>2, <1>3 DEF CountedFor, OneVoter, Copied, Counts

LEMMA OwnEntry ==
  ASSUME TypeInv, NEW w \in Workers, NEW j \in Job, Become(w, j), NEW e,
         \A v \in Workers \ {w} : ~Voting(v, e),
         j.pc # "idle" => j.code = e /\ Casting(j) /\ Copied(j, e)',
         j.pc # "count" => Counts(e)'
  PROVE  CountedFor(e)'
<1>1. job'[w] = j /\ \A v \in Workers \ {w} : job'[v] = job[v] /\ ~Voting(v, e)'
  BY DEF Become, Voting, TypeInv, JobsOK
<1>2. OneVoter(e)'
  BY <1>1 DEF OneVoter
<1>3. \A v \in Workers : Voting(v, e)' => v = w /\ j.pc # "idle"
  BY <1>1 DEF Voting
<1>4. j.pc = "count" => Recording(e)'
  BY <1>1 DEF Recording
<1> QED BY <1>1, <1>2, <1>3, <1>4 DEF CountedFor

LEMMA VotesTallied ==
  ASSUME TypeInv, TallyInv, NEW w \in Workers,
         TakeLike(w) \/ ReadTally(w) \/ WriteVote(w) \/ VoteFails(w) \/ WriteTally(w) \/ TallyFails(w)
  PROVE  TallyInv'
<1> USE CountersLeft, VotersLeft DEF TypeInv
<1>j. job[w] \in Job /\ GoodJob(job[w]) /\ created \in Nat
  BY DEF JobsOK, RowsOK
<1>c. PICK c \in 0..MaxEntries : c = job[w].code
  BY <1>j DEF Job
<1> USE <1>c
<1>v. ASSUME Casting(job[w]), c \in DOMAIN news \ torn
      PROVE  /\ Voting(w, c) /\ \A v \in Workers \ {w} : ~Voting(v, c)
             /\ Copied(job[w], c)
             /\ job[w].pc # "count" => Counts(c)
  <2>1. CountedFor(c) /\ Voting(w, c)
    BY <1>v DEF TallyInv, CountInv, Voting, Casting
  <2>2. \A v \in Workers \ {w} : ~Voting(v, c)
    BY <2>1 DEF CountedFor, OneVoter
  <2>3. job[w].pc # "count" => ~Recording(c)
    BY <2>2 DEF Recording, Voting
  <2> QED BY <2>1, <2>2, <2>3 DEF CountedFor
<1>1. CASE TakeLike(w)
  <2>1. PICK u \in Users, e \in Issued, v \in {-1, 1} : ReadVote(w, u, e, v) /\ job[w].pc = "idle"
    BY <1>1 DEF TakeLike, Free, At
  <2>2. PICK j \in Job : /\ Become(w, j) /\ j.pc = "tally" /\ j.code = e
                        /\ j.old = votes[e][j.user]
    <3> DEFINE k == [NoJob EXCEPT !.pc = "tally", !.user = u, !.code = e,
                                  !.vote = v, !.old = votes[e][u]]
    <3>1. e \in 0..MaxEntries /\ votes[e][u] \in -1..1 /\ "tally" \in Points
      BY CodeBound, IssuedCodes DEF VotesOK, Points
    <3>2. k \in Job /\ k.pc = "tally" /\ k.code = e /\ k.user = u /\ k.old = votes[e][u]
      BY NoJobTyped, <3>1, Zenon DEF Job, NoJob
    <3>3. Become(w, k)
      BY <2>1 DEF ReadVote
    <3> HIDE DEF k
    <3> QED BY <3>2, <3>3
  <2>3. UNCHANGED tables /\ torn' = torn \cup {k \in {e} : \E other \in Workers : Voting(other, k)}
    BY <2>1 DEF ReadVote
  <2>4. ASSUME NEW d \in DOMAIN news' \ torn' PROVE CountedFor(d)'
    <3>1. d \in DOMAIN news \ torn /\ CountedFor(d)
      BY <2>3, <2>4 DEF tables, TallyInv, CountInv
    <3>2. CASE d # e
      BY <2>1, <2>2, <2>3, <3>1, <3>2, OtherEntry DEF tables
    <3>3. CASE d = e
      <4>1. \A other \in Workers : ~Voting(other, e)
        BY <2>3, <2>4, <3>3
      <4>2. Counts(e)'
        BY <2>3, <3>1, <3>3, <4>1 DEF CountedFor, Recording, Voting, Counts, Votes, tables
      <4>3. Copied(j, e)'
        BY <2>2, <2>3 DEF Copied, tables
      <4> QED BY <2>2, <3>3, <4>1, <4>2, <4>3, OwnEntry DEF Casting
    <3> QED BY <3>2, <3>3
  <2> QED BY <1>j, <2>3, <2>4, FreshKept DEF TallyInv, CountInv, tables
<1>2. CASE ReadTally(w)
  <2> DEFINE k == [job[w] EXCEPT !.pc = "vote",
                     !.like = IF Visible(c) THEN news[c].like ELSE 0,
                     !.unlike = IF Visible(c) THEN news[c].unlike ELSE 0]
  <2>1. job[w].pc = "tally" /\ Become(w, k) /\ UNCHANGED tables
        /\ torn' = torn \cup {e \in {c} : ~Visible(e)}
    BY <1>2 DEF ReadTally, At
  <2>2. PICK j \in Job :
          /\ Become(w, j) /\ j.pc = "vote" /\ j.code = c /\ j.old = job[w].old
          /\ j.user = job[w].user
          /\ Visible(c) => j.like = news[c].like /\ j.unlike = news[c].unlike
    <3>1. (IF Visible(c) THEN news[c].like ELSE 0) \in Int
          /\ (IF Visible(c) THEN news[c].unlike ELSE 0) \in Int
      BY DEF RowsOK, Visible, Exists, Entry
    <3>2. /\ k \in Job /\ k.pc = "vote" /\ k.code = c /\ k.old = job[w].old /\ k.user = job[w].user
          /\ k.like = (IF Visible(c) THEN news[c].like ELSE 0)
          /\ k.unlike = (IF Visible(c) THEN news[c].unlike ELSE 0)
      BY <1>j, <3>1 DEF Job, Points
    <3> HIDE DEF k
    <3> QED BY <2>1, <3>2
  <2>3. ASSUME NEW d \in DOMAIN news' \ torn' PROVE CountedFor(d)'
    <3>1. d \in DOMAIN news \ torn /\ CountedFor(d)
      BY <2>1, <2>3 DEF tables, TallyInv, CountInv
    <3>2. CASE d # c
      BY <2>1, <2>2, <3>1, <3>2, OtherEntry DEF tables
    <3>3. CASE d = c
      <4>1. (\A v \in Workers \ {w} : ~Voting(v, c)) /\ Copied(job[w], c) /\ Counts(c)
        BY <1>v, <2>1, <3>1, <3>3 DEF Casting
      <4>2. Counts(c)' /\ Visible(c)
        <5>1. Visible(c)
          BY <2>1, <2>3, <3>3
        <5> QED BY <2>1, <4>1, <5>1 DEF Counts, Votes, tables
      <4>3. Copied(j, c)'
        BY <2>1, <2>2, <4>1, <4>2 DEF Copied, tables
      <4> QED BY <2>2, <3>3, <4>1, <4>2, <4>3, OwnEntry DEF Casting
    <3> QED BY <3>2, <3>3
  <2> QED BY <1>j, <2>1, <2>3, FreshKept DEF TallyInv, CountInv, tables
<1>3. CASE WriteVote(w)
  <2> DEFINE old == job[w].old
             user == job[w].user
             vote == job[w].vote
             vanished == old # 0 /\ votes[c][user] = 0
             k == [job[w] EXCEPT !.pc = "count",
                     !.like = Counted(job[w].like, 1, old, vote),
                     !.unlike = Counted(job[w].unlike, -1, old, vote)]
  <2>1. /\ job[w].pc = "vote" /\ Become(w, k) /\ UNCHANGED <<news, created, torn>>
        /\ votes' = [votes EXCEPT ![c][user] = IF vanished THEN 0 ELSE NewVote(old, vote)]
    BY <1>3 DEF WriteVote, At, history
  <2>2. /\ c \in Issued /\ c \in Codes /\ user \in Users /\ old \in -1..1 /\ vote \in {-1, 1}
        /\ job[w].like \in Int /\ job[w].unlike \in Int
    BY <1>j, <2>1, IssuedCodes DEF GoodJob, Job
  <2>3. PICK j \in Job : /\ Become(w, j) /\ j.pc = "count" /\ j.code = c
                        /\ j.like = Counted(job[w].like, 1, old, vote)
                        /\ j.unlike = Counted(job[w].unlike, -1, old, vote)
    <3> DEFINE like == Counted(job[w].like, 1, old, vote)
               unlike == Counted(job[w].unlike, -1, old, vote)
    <3>1. 1 \in {-1, 1} /\ -1 \in {-1, 1}
      OBVIOUS
    <3>2. like \in Int /\ unlike \in Int
      BY <2>2, <3>1, NewVoteRange, Zenon
    <3> HIDE DEF like, unlike
    <3>3. k \in Job /\ k.pc = "count" /\ k.code = c /\ k.like = like /\ k.unlike = unlike
      BY <1>j, <3>2 DEF Job, Points, like, unlike
    <3> HIDE DEF k
    <3> QED BY <2>1, <3>3 DEF like, unlike
  <2>4. \A d \in Codes \ {c} : votes'[d] = votes[d]
    BY <2>1 DEF VotesOK
  <2>5. ASSUME NEW d \in DOMAIN news' \ torn' PROVE CountedFor(d)'
    <3>1. d \in DOMAIN news \ torn /\ CountedFor(d) /\ d \in Codes
      BY <2>1, <2>5, IssuedCodes DEF TallyInv, CountInv
    <3>2. CASE d # c
      BY <2>1, <2>3, <2>4, <3>1, <3>2, OtherEntry
    <3>3. CASE d = c
      <4>1. (\A v \in Workers \ {w} : ~Voting(v, c)) /\ Copied(job[w], c) /\ Counts(c)
        BY <1>v, <2>1, <3>1, <3>3 DEF Casting
      <4>2. old = votes[c][user] /\ job[w].like = Votes(c, 1) /\ job[w].unlike = Votes(c, -1)
        BY <2>1, <4>1 DEF Copied, Counts
      <4>3. PICK b \in -1..1 : b = NewVote(old, vote)
        BY <2>2, NewVoteRange
      <4>4. PICK f \in [Users -> -1..1] : f = votes[c]
        BY <2>2 DEF VotesOK
      <4>5. PICK g : g = votes'[c]
        OBVIOUS
      <4>6. ~vanished
        BY <4>2
      <4>7. g = [f EXCEPT ![user] = b]
        <5> HIDE DEF vanished
        <5> QED BY <2>1, <2>2, <4>3, <4>4, <4>5, <4>6 DEF VotesOK
      <4>8. PICK u \in Users : u = user
        BY <2>2
      <4>9. ASSUME NEW value \in {-1, 1}
            PROVE  Votes(c, value)' = Counted(Votes(c, value), value, old, vote)
        <5>1. Cardinality({x \in Users : g[x] = value}) =
                Cardinality({x \in Users : f[x] = value})
                  + (IF b = value THEN 1 ELSE 0) - (IF f[u] = value THEN 1 ELSE 0)
          BY <4>7, <4>8, OneVote
        <5> QED BY <5>1, <4>2, <4>3, <4>4, <4>5, <4>8 DEF Votes, Counted
      <4>10. Votes(c, 1)' = j.like /\ Votes(c, -1)' = j.unlike
        BY <2>3, <4>2, <4>9
      <4>11. Copied(j, c)'
        BY <2>3, <4>10 DEF Copied
      <4> QED BY <2>3, <3>3, <4>1, <4>11, OwnEntry DEF Casting
    <3> QED BY <3>2, <3>3
  <2>6. FreshInv'
    BY <2>1, <2>2, <2>4 DEF TallyInv, FreshInv, Issued
  <2> QED BY <2>5, <2>6 DEF TallyInv, CountInv
<1>5. CASE WriteTally(w)
  <2>1. /\ Become(w, NoJob) /\ UNCHANGED <<votes, created, torn>> /\ job[w].pc = "count"
        /\ news' = [e \in DOMAIN news |->
                      IF e = c THEN [news[e] EXCEPT !.like = job[w].like, !.unlike = job[w].unlike]
                      ELSE news[e]]
    BY <1>5 DEF WriteTally, At, Answer, history
  <2>2. /\ DOMAIN news' = DOMAIN news
        /\ \A e \in DOMAIN news :
             IF e = c THEN news'[e].like = job[w].like /\ news'[e].unlike = job[w].unlike
                      ELSE news'[e] = news[e]
    BY <2>1 DEF RowsOK, Entry
  <2>3. PICK j \in Job : Become(w, j) /\ j.pc = "idle"
    BY <2>1, NoJobTyped DEF NoJob
  <2>4. ASSUME NEW d \in DOMAIN news' \ torn' PROVE CountedFor(d)'
    <3>1. d \in DOMAIN news \ torn /\ CountedFor(d)
      BY <2>1, <2>2, <2>4 DEF TallyInv, CountInv
    <3>2. CASE d # c
      BY <2>1, <2>2, <2>3, <3>1, <3>2, OtherEntry
    <3>3. CASE d = c
      <4>1. (\A v \in Workers \ {w} : ~Voting(v, c)) /\ Copied(job[w], c)
        BY <1>v, <2>1, <3>1, <3>3 DEF Casting
      <4>2. Counts(c)'
        BY <2>1, <2>2, <3>1, <3>3, <4>1 DEF Copied, Counts, Votes
      <4> QED BY <2>3, <3>3, <4>1, <4>2, OwnEntry
    <3> QED BY <3>2, <3>3
  <2> QED BY <1>j, <2>1, <2>4, FreshKept DEF TallyInv, CountInv
<1>4. CASE VoteFails(w)
  <2>1. job[w].pc = "vote" /\ Answer(w) /\ UNCHANGED <<news, votes, created, torn>>
    BY <1>4 DEF VoteFails, At, Reads, tables, history
  <2>2. LeavesVotes /\ LeavesCounters /\ LeavesVoters
    BY <2>1 DEF LeavesVotes
  <2> QED BY <1>j, <2>1, <2>2, CountKept, FreshKept DEF TallyInv
<1>6. CASE TallyFails(w)
  <2>1. /\ job[w].pc = "count" /\ Become(w, NoJob) /\ UNCHANGED tables
        /\ torn' = torn \cup {c}
    BY <1>6 DEF TallyFails, At, Answer
  <2>2. LeavesVoters
    BY <2>1 DEF LeavesVoters, Become, JobsOK, Casting, NoJob
  <2>3. LeavesVotes /\ LeavesCounters
    BY <2>1 DEF LeavesVotes, tables
  <2> QED BY <1>j, <2>1, <2>2, <2>3, CountKept, FreshKept DEF TallyInv, tables
<1> QED BY <1>1, <1>2, <1>3, <1>4, <1>5, <1>6

LEMMA NextTallied == TypeInv /\ TallyInv /\ [AnyNext]_vars => TallyInv'
<1> SUFFICES ASSUME TypeInv, TallyInv, [AnyNext]_vars PROVE TallyInv'
  OBVIOUS
<1>1. CASE UNCHANGED vars
  <2>1. LeavesVotes /\ LeavesCounters /\ LeavesVoters /\ UNCHANGED <<votes, created>> /\ created \in Nat
    BY <1>1 DEF vars, LeavesVotes, LeavesCounters, LeavesVoters, TypeInv, RowsOK
  <2> QED BY <2>1, CountKept, FreshKept DEF TallyInv
<1>2. ASSUME NEW w \in Workers, AnyStatement(w) PROVE TallyInv'
  BY <1>2, EntriesTallied, VotesTallied, CommentsTallied, RemovalsTallied DEF AnyStatement
<1> QED BY <1>1, <1>2, RestartTallied DEF AnyNext

\* like_num and unlike_num are the numbers of the entry's votes, for any numbers of users,
\* workers and entries (like, news_mgr.cpp:114): where no two votes overlap, none meets a
\* removed entry and none is cut short, the copies like() computes with are never stale.
THEOREM VotesAreCounted == Spec => []VotesCounted
<1>1. Init => TallyInv
  BY DEF Init, TallyInv, CountInv, FreshInv
<1>2. Spec => [](TypeInv /\ TallyInv)
  BY <1>1, InitTyped, NextTaken, NextTyped, NextTallied, PTL DEF Spec
<1>3. TallyInv => VotesCounted
  BY CountInvCounts DEF TallyInv
<1> QED BY <1>2, <1>3, PTL
-----------------------------------------------------------------------------
(* Comments are counted: comment_num of an entry that is not uncounted is   *)
(* the number of its published comments but for those a worker has in hand, *)
(* that is, whose status and whose count are not both written.  At most one *)
(* worker holds a copy of comment_num, and no two are about one comment.     *)

CommentPoints == {"check", "post", "parent", "bump", "comments", "drop", "hide"}
HandPoints == {"parent", "bump", "hide"}
InHand(p) == {job[w].code : w \in {v \in Workers : job[v].parent = p /\ job[v].pc \in HandPoints}}
Settled(p) == Published(p) \ InHand(p)
Concerns(w, p) == job[w].parent = p /\ job[w].pc \in CommentPoints
Fits(j, p) ==
  /\ j.pc \in {"check", "post"} => j.code \notin Published(p)
  /\ j.pc \in CommentPoints \ {"check", "post"} => j.code \in Published(p)
  /\ j.pc = "bump" => j.n = news[p].comments + 1
  /\ j.pc = "drop" => j.n = news[p].comments - 1
OneCounter(p) == \A v, w \in Workers : Counting(v, p) /\ Counting(w, p) => v = w
OneEach(p) ==
  \A v, w \in Workers : Concerns(v, p) /\ Concerns(w, p) /\ job[v].code = job[w].code => v = w
AccountFor(p) ==
  /\ news[p].comments = Cardinality(Settled(p))
  /\ \A w \in Workers : Concerns(w, p) => Fits(job[w], p)
  /\ OneCounter(p) /\ OneEach(p)
AccountInv == \A p \in DOMAIN news \ uncounted : AccountFor(p)
\* The parent a worker counts for is the one of its comment's row.
OfFamily(j) ==
  j.pc \in CommentPoints =>
    /\ j.parent \in 0..created
    /\ Exists(j.code) => news[j.code].parent = j.parent
FamilyInv ==
  /\ \A c \in DOMAIN news : news[c].parent \in 0..created
  /\ \A w \in Workers : OfFamily(job[w])
CommentsInv == FamilyInv /\ AccountInv

USE DEF CommentPoints, HandPoints

LEMMA CommentsInvCounts == CommentsInv => CommentsCounted
<1> SUFFICES ASSUME CommentsInv, NEW p \in DOMAIN news, p \notin uncounted,
                    ~ \E w \in Workers : job[w].parent = p /\ job[w].pc \in HandPoints
             PROVE  news[p].comments = Cardinality(Published(p))
  BY DEF CommentsCounted
<1>1. InHand(p) = {}
  BY DEF InHand
<1> QED BY <1>1 DEF CommentsInv, AccountInv, AccountFor, Settled

LEMMA SettledFinite ==
  ASSUME RowsOK, NEW p
  PROVE  IsFiniteSet(Settled(p)) /\ Cardinality(Settled(p)) \in Nat
<1>1. Settled(p) \subseteq 1..created /\ created \in Nat
  BY DEF RowsOK, Settled, Published, Issued
<1>2. IsFiniteSet(1..created)
  BY <1>1, FS_Interval
<1> QED BY <1>1, <1>2, FS_Subset, FS_CardinalityType

\* What a worker's step changes of the comments in hand.
LEMMA HandsMove ==
  ASSUME JobsOK, NEW w \in Workers, NEW j, Become(w, j), NEW p
  PROVE  /\ \A x : x # job[w].code /\ x # j.code => (x \in InHand(p)' <=> x \in InHand(p))
         /\ j.parent = p /\ j.pc \in HandPoints => j.code \in InHand(p)'
         /\ Concerns(w, p) /\ OneEach(p) /\ ~(j.parent = p /\ j.pc \in HandPoints)
              => job[w].code \notin InHand(p)'
         /\ ~(job[w].parent = p /\ job[w].pc \in HandPoints)
            /\ ~(j.parent = p /\ j.pc \in HandPoints) => InHand(p)' = InHand(p)
<1>1. job'[w] = j /\ \A v \in Workers \ {w} : job'[v] = job[v]
  BY DEF Become, JobsOK
<1>2. \A x : x \in InHand(p) <=> \E v \in Workers : job[v].parent = p /\ job[v].pc \in HandPoints
                                                    /\ x = job[v].code
  BY DEF InHand
<1>3. \A x : x \in InHand(p)' <=> \E v \in Workers : job'[v].parent = p /\ job'[v].pc \in HandPoints
                                                     /\ x = job'[v].code
  BY DEF InHand
<1>4. \A x : x # job[w].code /\ x # j.code => (x \in InHand(p)' <=> x \in InHand(p))
  BY <1>1, <1>2, <1>3
<1>5. j.parent = p /\ j.pc \in HandPoints => j.code \in InHand(p)'
  BY <1>1, <1>3
<1>6. Concerns(w, p) /\ OneEach(p) /\ ~(j.parent = p /\ j.pc \in HandPoints)
        => job[w].code \notin InHand(p)'
  BY <1>1, <1>3 DEF Concerns, OneEach
<1>7. ASSUME ~(job[w].parent = p /\ job[w].pc \in HandPoints), ~(j.parent = p /\ j.pc \in HandPoints)
      PROVE  InHand(p)' = InHand(p)
  <2>1. \A x : x \in InHand(p)' <=> x \in InHand(p)
    BY <1>1, <1>2, <1>3, <1>7
  <2> QED BY <2>1
<1> QED BY <1>4, <1>5, <1>6, <1>7

\* Steps that leave the comments of an entry and the workers that count them alone: a
\* worker may give up what it does not have in hand.
LEMMA AccountKept ==
  ASSUME NEW p, AccountFor(p), Published(p)' = Published(p),
         news'[p].comments = news[p].comments,
         \A w \in Workers : Concerns(w, p)' => job'[w] = job[w],
         \A w \in Workers : Concerns(w, p) /\ job[w].pc \in HandPoints => job'[w] = job[w]
  PROVE  AccountFor(p)'
<1>1. \A w \in Workers : Concerns(w, p)' => Concerns(w, p)
  BY DEF Concerns
<1>2. \A w \in Workers : job'[w].parent = p /\ job'[w].pc \in HandPoints <=>
                         job[w].parent = p /\ job[w].pc \in HandPoints
  BY DEF Concerns
<1>3. InHand(p)' = InHand(p)
  <2>1. \A x : x \in InHand(p) <=> \E v \in Workers : job[v].parent = p /\ job[v].pc \in HandPoints
                                                      /\ x = job[v].code
    BY DEF InHand
  <2>2. \A x : x \in InHand(p)' <=> \E v \in Workers : job'[v].parent = p /\ job'[v].pc \in HandPoints
                                                       /\ x = job'[v].code
    BY DEF InHand
  <2>3. \A x : x \in InHand(p)' <=> x \in InHand(p)
    BY <1>2, <2>1, <2>2 DEF Concerns
  <2> QED BY <2>3
<1>4. Settled(p)' = Settled(p)
  BY <1>3 DEF Settled
<1>5. \A w \in Workers : Counting(w, p)' => Counting(w, p)
  BY DEF Counting, Concerns
<1>6. OneCounter(p)' /\ OneEach(p)'
  BY <1>1, <1>5 DEF AccountFor, OneCounter, OneEach
<1>7. \A w \in Workers : Concerns(w, p)' => Fits(job[w], p)'
  BY <1>1 DEF AccountFor, Fits
<1> QED BY <1>4, <1>6, <1>7 DEF AccountFor

\* A step of a worker that is about another parent.
LEMMA OtherParent ==
  ASSUME JobsOK, NEW w \in Workers, NEW j, Become(w, j), NEW p, AccountFor(p),
         ~Concerns(w, p), j.pc \in CommentPoints => j.parent # p,
         Published(p)' = Published(p), news'[p].comments = news[p].comments
  PROVE  AccountFor(p)'
<1>1. job'[w] = j /\ \A v \in Workers \ {w} : job'[v] = job[v]
  BY DEF Become, JobsOK
<1>2. ~Concerns(w, p)'
  BY <1>1 DEF Concerns
<1> QED BY <1>1, <1>2, AccountKept

\* A step of a worker that is about this parent: what remains to be shown.
LEMMA OwnParent ==
  ASSUME JobsOK, NEW w \in Workers, NEW j, Become(w, j), NEW p, AccountFor(p),
         news'[p].comments = Cardinality(Settled(p)'),
         \A v \in Workers \ {w} : Concerns(v, p) => Fits(job[v], p)',
         j.pc \in CommentPoints => /\ j.parent = p /\ Fits(j, p)'
                                   /\ \A v \in Workers \ {w} : Concerns(v, p) => job[v].code # j.code,
         j.pc \in {"bump", "drop"} => \A v \in Workers \ {w} : ~Counting(v, p)
  PROVE  AccountFor(p)'
<1>1. job'[w] = j /\ \A v \in Workers \ {w} : job'[v] = job[v]
  BY DEF Become, JobsOK
<1>2. \A v \in Workers \ {w} : (Concerns(v, p)' <=> Concerns(v, p)) /\ (Counting(v, p)' <=> Counting(v, p))
  BY <1>1 DEF Concerns, Counting
<1>3. OneCounter(p)'
  <2>1. Counting(w, p)' => j.pc \in {"bump", "drop"}
    BY <1>1 DEF Counting
  <2> QED BY <1>2, <2>1 DEF AccountFor, OneCounter
<1>4. OneEach(p)'
  <2>1. Concerns(w, p)' => j.pc \in CommentPoints
    BY <1>1 DEF Concerns
  <2> QED BY <1>1, <1>2, <2>1 DEF AccountFor, OneEach
<1>5. \A v \in Workers : Concerns(v, p)' => Fits(job[v], p)'
  <2>1. ASSUME NEW v \in Workers, Concerns(v, p)' PROVE Fits(job[v], p)'
    <3>1. CASE v = w
      BY <1>1, <2>1, <3>1 DEF Concerns, Fits
    <3>2. CASE v # w
      BY <1>2, <2>1, <3>2
    <3> QED BY <3>1, <3>2
  <2> QED BY <2>1
<1> QED BY <1>3, <1>4, <1>5 DEF AccountFor

\* Statements that are not about comments.
LeavesComments ==
  \A p \in DOMAIN news' \ uncounted' :
    /\ p \in DOMAIN news \ uncounted
    /\ Published(p)' = Published(p) /\ news'[p].comments = news[p].comments
LeavesFamilies == \A c \in DOMAIN news' : c \in DOMAIN news /\ news'[c].parent = news[c].parent
LeavesCommenters ==
  \A w \in Workers :
    /\ job'[w].pc \in CommentPoints => job'[w] = job[w]
    /\ job[w].pc \in HandPoints => job'[w] = job[w] \/ job[w].parent \in uncounted' \cup {0}

LEMMA CommentsKept ==
  ASSUME TypeInv, CommentsInv, created' = created, LeavesComments, LeavesFamilies, LeavesCommenters
  PROVE  CommentsInv'
<1>1. FamilyInv'
  <2>1. \A c \in DOMAIN news' : news'[c].parent \in 0..created'
    BY DEF CommentsInv, FamilyInv, LeavesFamilies
  <2>2. ASSUME NEW w \in Workers PROVE OfFamily(job[w])'
    BY DEF CommentsInv, FamilyInv, LeavesFamilies, LeavesCommenters, OfFamily, Exists
  <2> QED BY <2>1, <2>2 DEF FamilyInv
<1>2. ASSUME NEW p \in DOMAIN news' \ uncounted' PROVE AccountFor(p)'
  <2>1. p \in DOMAIN news \ uncounted /\ p # 0
    BY DEF LeavesComments, TypeInv, RowsOK, Issued
  <2> QED BY <2>1, AccountKept
      DEF CommentsInv, AccountInv, LeavesComments, LeavesCommenters, Concerns
<1> QED BY <1>1, <1>2 DEF CommentsInv, AccountInv

\* A new entry has no comments, and is none that is published.
LEMMA EntryAdded ==
  ASSUME TypeInv, FamilyInv, NEW named, NEW q \in 0..created, Create(named, q), NEW k, k = NewCode
  PROVE  /\ \A p \in Codes : Published(p)' = Published(p)
         /\ \A c \in DOMAIN news : news'[c] = news[c]
         /\ DOMAIN news' = DOMAIN news \cup {k} /\ k \notin Issued
         /\ news'[k].comments = 0 /\ news'[k].parent = q /\ news'[k].status = 1
         /\ Published(k)' = {}
         /\ \A c \in DOMAIN news' : news'[c].parent \in 0..created'
         /\ \A v \in Workers : OfFamily(job[v]) /\ job'[v] = job[v] => OfFamily(job[v])'
<1>1. /\ \A c \in DOMAIN news : news'[c] = news[c]
      /\ DOMAIN news' = DOMAIN news \cup {k} /\ k \notin Issued
      /\ news'[k].comments = 0 /\ news'[k].parent = q /\ news'[k].status = 1
      /\ created' = created + 1 /\ created \in Nat
  BY DEF Create, TypeInv, RowsOK, Issued, NewCode
<1>2. \A p : Published(p)' = Published(p)
  BY <1>1 DEF Published, TypeInv, RowsOK
<1>3. Published(k) = {}
  BY <1>1 DEF Published, FamilyInv, Issued, NewCode
<1>4. \A c \in DOMAIN news' : news'[c].parent \in 0..created'
  BY <1>1 DEF FamilyInv
<1>5. ASSUME NEW v \in Workers, OfFamily(job[v]), job'[v] = job[v] PROVE OfFamily(job[v])'
  BY <1>1, <1>5 DEF OfFamily, Exists, TypeInv, JobsOK, GoodJob
<1> QED BY <1>1, <1>2, <1>3, <1>4, <1>5

LEMMA NewEntryAccount ==
  ASSUME NEW p, Published(p)' = {}, news'[p].comments = 0, \A w \in Workers : ~Concerns(w, p)'
  PROVE  AccountFor(p)'
<1>1. Settled(p)' = {}
  BY DEF Settled
<1>2. \A w \in Workers : ~Counting(w, p)'
  BY DEF Concerns, Counting
<1> QED BY <1>1, <1>2, FS_EmptySet DEF AccountFor, OneCounter, OneEach

\* What a statement leaves alone.
LEMMA CommentsLeft ==
  ASSUME TypeInv
  PROVE  /\ UNCHANGED <<news, uncounted>> => LeavesComments /\ LeavesFamilies
         /\ \A c, s : SetStatus(c, s) /\ Unpaired => LeavesComments /\ LeavesFamilies
         /\ \A C \in SUBSET DOMAIN news : Keep(C) /\ Unpaired => LeavesComments /\ LeavesFamilies
<1> USE DEF TypeInv
<1>1. UNCHANGED <<news, uncounted>> => LeavesComments /\ LeavesFamilies
  BY DEF LeavesComments, LeavesFamilies, Published
<1>2. Unpaired => \A p \in Codes \ uncounted' : p \notin uncounted /\ Published(p)' = Published(p)
  BY DEF Unpaired
<1>3. ASSUME NEW c, NEW s, SetStatus(c, s), Unpaired PROVE LeavesComments /\ LeavesFamilies
  <2>1. DOMAIN news' = DOMAIN news
        /\ \A k \in DOMAIN news : news'[k].parent = news[k].parent /\ news'[k].comments = news[k].comments
    BY <1>3 DEF SetStatus, RowsOK, Entry
  <2> QED BY <1>2, <1>3, <2>1, IssuedCodes DEF LeavesComments, LeavesFamilies
<1>4. ASSUME NEW C \in SUBSET DOMAIN news, Keep(C), Unpaired PROVE LeavesComments /\ LeavesFamilies
  <2>1. DOMAIN news' = C /\ \A k \in C : news'[k] = news[k]
    BY <1>4 DEF Keep
  <2> QED BY <1>2, <1>4, <2>1, IssuedCodes DEF LeavesComments, LeavesFamilies
<1> QED BY <1>1, <1>3, <1>4

LEMMA CommentersLeft ==
  ASSUME TypeInv, NEW w \in Workers
  PROVE  /\ UNCHANGED job => LeavesCommenters
         /\ \A j : job[w].pc \notin HandPoints /\ Become(w, j) /\ j.pc \notin CommentPoints
                     => LeavesCommenters
         /\ job[w].pc \notin HandPoints /\ Answer(w) => LeavesCommenters
BY DEF TypeInv, JobsOK, LeavesCommenters, Become, Answer, NoJob

LEMMA EntriesAccounted ==
  ASSUME TypeInv, CommentsInv, NEW w \in Workers,
         CreateNew(w) \/ TakeSave(w) \/ SaveContent(w) \/ TakePublish(w) \/ Publish(w)
           \/ ResetStatus(w)
  PROVE  CommentsInv'
<1> USE CommentsLeft, CommentersLeft
<1>1. CASE CreateNew(w)
  <2> DEFINE named == FALSE
             q == 0
  <2>1. Create(named, q) /\ q \in 0..created /\ UNCHANGED <<job, uncounted>>
    <3>1. q \in 0..created
      BY DEF TypeInv, RowsOK
    <3>2. Create(named, q) /\ UNCHANGED <<job, history>>
      BY <1>1, Zenon DEF CreateNew
    <3> QED BY <3>1, <3>2 DEF history
  <2>k. PICK k : k = NewCode
    OBVIOUS
  <2> HIDE DEF named, q
  <2>2. /\ \A p \in Codes : Published(p)' = Published(p)
        /\ \A c \in DOMAIN news : news'[c] = news[c]
        /\ DOMAIN news' = DOMAIN news \cup {k} /\ k \notin Issued
        /\ news'[k].comments = 0 /\ Published(k)' = {}
        /\ \A c \in DOMAIN news' : news'[c].parent \in 0..created'
        /\ \A v \in Workers : OfFamily(job[v]) /\ job'[v] = job[v] => OfFamily(job[v])'
    BY <2>1, <2>k, EntryAdded DEF CommentsInv
  <2>3. FamilyInv'
    BY <2>1, <2>2 DEF CommentsInv, FamilyInv
  <2>4. ASSUME NEW p \in DOMAIN news' \ uncounted' PROVE AccountFor(p)'
    <3>1. CASE p = k
      <4>1. \A v \in Workers : ~Concerns(v, p)
        BY <2>2, <2>k, <3>1 DEF Concerns, CommentsInv, FamilyInv, OfFamily, NewCode, TypeInv, RowsOK
      <4>2. \A v \in Workers : ~Concerns(v, p)'
        BY <2>1, <4>1 DEF Concerns
      <4> QED BY <2>2, <3>1, <4>2, NewEntryAccount
    <3>2. CASE p # k
      <4>1. p \in DOMAIN news \ uncounted /\ p \in Codes /\ news'[p] = news[p]
        BY <2>1, <2>2, <3>2, IssuedCodes DEF TypeInv
      <4> QED BY <2>1, <2>2, <4>1, AccountKept DEF CommentsInv, AccountInv
    <3> QED BY <3>1, <3>2
  <2> QED BY <2>3, <2>4 DEF CommentsInv, AccountInv
<1>2. CASE TakeSave(w)
  <2>1. PICK c \in Issued, named \in BOOLEAN :
          /\ news' = [k \in DOMAIN news |->
                        IF k = c THEN [news[k] EXCEPT !.named = named, !.status = 2] ELSE news[k]]
          /\ Become(w, [NoJob EXCEPT !.pc = "content", !.code = c])
    BY <1>2 DEF TakeSave, StoreInfo
  <2>2. job[w].pc = "idle" /\ Unpaired /\ created' = created
    BY <1>2 DEF TakeSave, StoreInfo, Free, At
  <2>3. DOMAIN news' = DOMAIN news
        /\ \A k \in DOMAIN news : news'[k].parent = news[k].parent /\ news'[k].comments = news[k].comments
    BY <2>1 DEF TypeInv, RowsOK, Entry
  <2>4. LeavesComments /\ LeavesFamilies
    BY <2>2, <2>3, IssuedCodes DEF LeavesComments, LeavesFamilies, Unpaired, TypeInv
  <2>5. LeavesCommenters
    BY <2>1, <2>2 DEF NoJob
  <2> QED BY <2>2, <2>4, <2>5, CommentsKept
<1>3. CASE TakePublish(w)
  <2>1. LeavesCommenters
    BY <1>3 DEF TakePublish, BeginPublish, Free, At, NoJob
  <2>2. UNCHANGED <<news, uncounted, created>>
    BY <1>3 DEF TakePublish, BeginPublish, Reads, tables, history
  <2> QED BY <2>1, <2>2, CommentsKept
<1>4. CASE SaveContent(w) \/ Publish(w)
  <2>1. LeavesCommenters
    BY <1>4 DEF SaveContent, Publish, WriteStatus, Fails, At
  <2>2. LeavesComments /\ LeavesFamilies /\ created' = created
    BY <1>4 DEF SaveContent, Publish, WriteStatus, Fails, Reads, tables, history
  <2> QED BY <2>1, <2>2, CommentsKept
<1>5. CASE ResetStatus(w)
  BY <1>5, CommentsKept DEF ResetStatus
<1> QED BY <1>1, <1>2, <1>3, <1>4, <1>5

LEMMA VotesAccounted ==
  ASSUME TypeInv, CommentsInv, NEW w \in Workers,
         TakeLike(w) \/ ReadTally(w) \/ WriteVote(w) \/ VoteFails(w) \/ WriteTally(w) \/ TallyFails(w)
  PROVE  CommentsInv'
<1> USE CommentsLeft, CommentersLeft
<1>j. job[w] \in Job
  BY DEF TypeInv, JobsOK
<1>1. LeavesCommenters
  <2>1. CASE TakeLike(w)
    BY <2>1 DEF TakeLike, ReadVote, At, NoJob
  <2>2. CASE ReadTally(w)
    BY <2>2, <1>j DEF ReadTally, At, Job
  <2>3. CASE WriteVote(w)
    BY <2>3, <1>j DEF WriteVote, At, Job
  <2>4. CASE VoteFails(w) \/ WriteTally(w) \/ TallyFails(w)
    BY <2>4 DEF VoteFails, WriteTally, TallyFails, At
  <2> QED BY <2>1, <2>2, <2>3, <2>4
<1>2. uncounted' = uncounted /\ created' = created
  BY DEF TakeLike, ReadVote, ReadTally, WriteVote, VoteFails, WriteTally, TallyFails, Reads, tables, history
<1>3. LeavesComments /\ LeavesFamilies
  <2>1. CASE WriteTally(w)
    <3>1. /\ DOMAIN news' = DOMAIN news
          /\ \A k \in DOMAIN news : /\ news'[k].parent = news[k].parent
                                    /\ news'[k].comments = news[k].comments
                                    /\ news'[k].status = news[k].status
      BY <2>1 DEF WriteTally, TypeInv, RowsOK, Entry
    <3>2. \A p : Published(p)' = Published(p)
      BY <3>1 DEF Published
    <3> QED BY <1>2, <3>1, <3>2 DEF LeavesComments, LeavesFamilies
  <2>2. CASE ~WriteTally(w)
    BY <1>2, <2>2 DEF TakeLike, ReadVote, ReadTally, WriteVote, VoteFails, TallyFails, Reads, tables
  <2> QED BY <2>1, <2>2
<1> QED BY <1>1, <1>2, <1>3, CommentsKept

\* The job after a step that stays with its comment.
LEMMA Moved ==
  ASSUME TypeInv, NEW w \in Workers, NEW pc \in Points, Goto(w, pc)
  PROVE  \E j \in Job : /\ Become(w, j) /\ j.pc = pc /\ j.n = job[w].n
                        /\ j.code = job[w].code /\ j.parent = job[w].parent
<1> DEFINE k == [job[w] EXCEPT !.pc = pc]
<1>1. /\ k \in Job /\ k.pc = pc /\ k.n = job[w].n
      /\ k.code = job[w].code /\ k.parent = job[w].parent
  BY DEF TypeInv, JobsOK, Job
<1>2. Become(w, k)
  BY DEF Goto
<1> HIDE DEF k
<1> QED BY <1>1, <1>2

\* A step that is about parent p accounts for every entry if it does for p.
LEMMA StepAccounted ==
  ASSUME TypeInv, CommentsInv, NEW w \in Workers, NEW j, Become(w, j), OfFamily(j),
         created' = created, LeavesFamilies, uncounted \subseteq uncounted', NEW p,
         job[w].pc \in CommentPoints => job[w].parent = p,
         j.pc \in CommentPoints => j.parent = p,
         \A q \in DOMAIN news \ uncounted' :
           q # p => Published(q)' = Published(q) /\ news'[q].comments = news[q].comments,
         p \in DOMAIN news' \ uncounted' => AccountFor(p)'
  PROVE  CommentsInv'
<1>1. job'[w] = j /\ \A v \in Workers \ {w} : job'[v] = job[v]
  BY DEF Become, TypeInv, JobsOK
<1>2. FamilyInv'
  <2>1. \A c \in DOMAIN news' : news'[c].parent \in 0..created'
    BY DEF CommentsInv, FamilyInv, LeavesFamilies
  <2>2. ASSUME NEW v \in Workers PROVE OfFamily(job[v])'
    <3>1. OfFamily(job'[v])
      BY <1>1 DEF CommentsInv, FamilyInv
    <3> QED BY <3>1 DEF LeavesFamilies, OfFamily, Exists
  <2> QED BY <2>1, <2>2 DEF FamilyInv
<1>3. ASSUME NEW q \in DOMAIN news' \ uncounted' PROVE AccountFor(q)'
  <2>1. q \in DOMAIN news \ uncounted /\ AccountFor(q)
    BY DEF LeavesFamilies, CommentsInv, AccountInv
  <2>2. CASE q # p
    <3>1. ~Concerns(w, q)
      BY <2>2 DEF Concerns
    <3> QED BY <2>1, <2>2, <3>1, OtherParent DEF TypeInv
  <2> QED BY <1>3, <2>2
<1> QED BY <1>2, <1>3 DEF CommentsInv, AccountInv

\* The comments of an entry that keep their status, and the one that does not.
LEMMA OneStatus ==
  ASSUME TypeInv, NEW c \in DOMAIN news, NEW s \in 0..3, SetStatus(c, s), NEW p
  PROVE  /\ LeavesFamilies /\ \A q \in DOMAIN news : news'[q].comments = news[q].comments
         /\ \A x : x # c => (x \in Published(p)' <=> x \in Published(p))
         /\ c \in Published(p)' <=> s = 3 /\ news[c].parent = p
         /\ news[c].parent # p => Published(p)' = Published(p)
<1>1. /\ DOMAIN news' = DOMAIN news
      /\ \A k \in DOMAIN news : /\ news'[k].parent = news[k].parent
                                /\ news'[k].comments = news[k].comments
                                /\ k # c => news'[k].status = news[k].status
      /\ news'[c].status = s
  BY DEF SetStatus, TypeInv, RowsOK, Entry
<1>2. /\ \A x : x # c => (x \in Published(p)' <=> x \in Published(p))
      /\ c \in Published(p)' <=> s = 3 /\ news[c].parent = p
  BY <1>1 DEF Published
<1>3. ASSUME news[c].parent # p PROVE Published(p)' = Published(p)
  BY <1>1, <1>3 DEF Published
<1> QED BY <1>1, <1>2, <1>3 DEF LeavesFamilies

LEMMA OneCount ==
  ASSUME TypeInv, NEW p, NEW n, SetComments(p, n)
  PROVE  /\ LeavesFamilies /\ DOMAIN news' = DOMAIN news /\ \A q : Published(q)' = Published(q)
         /\ \A q \in DOMAIN news : news'[q].comments = IF q = p THEN n ELSE news[q].comments
<1>1. /\ DOMAIN news' = DOMAIN news
      /\ \A k \in DOMAIN news : /\ news'[k].parent = news[k].parent
                                /\ news'[k].status = news[k].status
                                /\ news'[k].comments = IF k = p THEN n ELSE news[k].comments
  BY DEF SetComments, TypeInv, RowsOK, Entry
<1>2. \A q : Published(q)' = Published(q)
  BY <1>1 DEF Published
<1> QED BY <1>1, <1>2 DEF LeavesFamilies

\* What the invariant says of a worker's own comment.
LEMMA OwnComment ==
  ASSUME TypeInv, CommentsInv, NEW w \in Workers, job[w].pc \in CommentPoints,
         NEW p, p = job[w].parent, NEW c, c = job[w].code
  PROVE  /\ OfFamily(job[w]) /\ p \in 0..created /\ (c \in DOMAIN news => news[c].parent = p)
         /\ p \in DOMAIN news \ uncounted =>
              /\ AccountFor(p) /\ Fits(job[w], p) /\ news[p].comments \in Int
              /\ \A v \in Workers \ {w} : Concerns(v, p) => job[v].code # c /\ Fits(job[v], p)
              /\ c \in InHand(p) <=> job[w].pc \in HandPoints
<1>1. Concerns(w, p)
  BY DEF Concerns
<1>2. ASSUME p \in DOMAIN news \ uncounted
      PROVE  /\ AccountFor(p) /\ Fits(job[w], p) /\ news[p].comments \in Int
             /\ \A v \in Workers \ {w} : Concerns(v, p) => job[v].code # c /\ Fits(job[v], p)
             /\ c \in InHand(p) <=> job[w].pc \in HandPoints
  <2>1. AccountFor(p)
    BY <1>2 DEF CommentsInv, AccountInv
  <2>2. \A v \in Workers \ {w} : Concerns(v, p) => job[v].code # c /\ Fits(job[v], p)
    BY <1>1, <2>1 DEF AccountFor, OneEach
  <2>3. c \in InHand(p) <=> job[w].pc \in HandPoints
    BY <2>2 DEF InHand, Concerns
  <2>4. news[p].comments \in Int
    BY <1>2 DEF TypeInv, RowsOK, Entry
  <2> QED BY <1>1, <2>1, <2>2, <2>3, <2>4 DEF AccountFor
<1> QED BY <1>2 DEF CommentsInv, FamilyInv, OfFamily, Exists

LEMMA CreateAccounted ==
  ASSUME TypeInv, CommentsInv, NEW w \in Workers, CreateComment(w)
  PROVE  CommentsInv'
<1>1. PICK u \in Users \cup {Nobody}, p \in Issued :
        /\ Create(u # Nobody, p)
        /\ Become(w, [NoJob EXCEPT !.pc = "check", !.user = u, !.code = NewCode, !.parent = p])
  BY DEF CreateComment
<1>2. uncounted' = uncounted /\ job[w].pc = "idle" /\ p \in 0..created /\ NewCode \in Codes
  BY <1>1 DEF CreateComment, history, Free, At, Issued, Create
<1>k. PICK k : k = NewCode
  OBVIOUS
<1>3. /\ \A q \in Codes : Published(q)' = Published(q)
      /\ \A c \in DOMAIN news : news'[c] = news[c]
      /\ DOMAIN news' = DOMAIN news \cup {k} /\ k \notin Issued
      /\ news'[k].comments = 0 /\ Published(k)' = {}
      /\ news'[k].parent = p
      /\ \A c \in DOMAIN news' : news'[c].parent \in 0..created'
      /\ \A v \in Workers : OfFamily(job[v]) /\ job'[v] = job[v] => OfFamily(job[v])'
  <2> DEFINE named == u # Nobody
  <2>1. Create(named, p)
    BY <1>1
  <2> HIDE DEF named
  <2> QED BY <1>2, <1>k, <2>1, EntryAdded DEF CommentsInv
<1>4. PICK j \in Job : Become(w, j) /\ j.pc = "check" /\ j.code = k /\ j.parent = p
  <2> DEFINE i == [NoJob EXCEPT !.pc = "check", !.user = u, !.code = k, !.parent = p]
  <2>1. k \in 0..MaxEntries /\ p \in 0..MaxEntries /\ "check" \in Points
    BY <1>2, <1>k, CodeBound DEF Codes, Points, TypeInv
  <2>2. i \in Job /\ i.pc = "check" /\ i.code = k /\ i.parent = p
    BY <2>1, NoJobTyped, Zenon DEF Job, NoJob
  <2>3. Become(w, i)
    BY <1>1, <1>k
  <2> HIDE DEF i
  <2> QED BY <2>2, <2>3
<1>5. job'[w] = j /\ \A v \in Workers \ {w} : job'[v] = job[v]
  BY <1>4 DEF Become, TypeInv, JobsOK
<1>6. created' = created + 1 /\ created \in Nat /\ k = created + 1
  BY <1>1, <1>k DEF Create, NewCode, TypeInv, RowsOK
<1>7. FamilyInv'
  <2>1. OfFamily(job[w])'
    BY <1>2, <1>3, <1>4, <1>5, <1>6 DEF OfFamily, Exists
  <2>2. \A v \in Workers : OfFamily(job[v])'
    BY <1>3, <1>5, <2>1 DEF CommentsInv, FamilyInv
  <2> QED BY <1>3, <2>2 DEF FamilyInv
<1>8. ASSUME NEW q \in DOMAIN news' \ uncounted' PROVE AccountFor(q)'
  <2>1. CASE q = k
    <3>1. \A v \in Workers : ~Concerns(v, q)'
      <4>1. \A v \in Workers \ {w} : job[v].pc \in CommentPoints => job[v].parent # k
        BY <1>6 DEF CommentsInv, FamilyInv, OfFamily
      <4>2. j.parent # k
        BY <1>4, <1>6, <1>2
      <4> QED BY <1>5, <2>1, <4>1, <4>2 DEF Concerns
    <3> QED BY <1>3, <2>1, <3>1, NewEntryAccount
  <2>2. CASE q # k
    <3>1. /\ q \in DOMAIN news \ uncounted /\ news'[q] = news[q] /\ Published(q)' = Published(q)
          /\ AccountFor(q)
      BY <1>2, <1>3, <2>2, IssuedCodes DEF TypeInv, CommentsInv, AccountInv
    <3>2. CASE q # p
      BY <1>2, <1>4, <3>1, <3>2, OtherParent DEF TypeInv, Concerns
    <3>3. CASE q = p
      <4>1. InHand(q)' = InHand(q)
        BY <1>2, <1>4, HandsMove DEF TypeInv
      <4>2. news'[q].comments = Cardinality(Settled(q)')
        BY <3>1, <4>1 DEF AccountFor, Settled
      <4>3. \A v \in Workers \ {w} : Concerns(v, q) => Fits(job[v], q)'
        BY <1>5, <3>1 DEF AccountFor, Fits
      <4>4. \A v \in Workers \ {w} : Concerns(v, q) => job[v].code # k
        BY <1>3 DEF Concerns, TypeInv, JobsOK, GoodJob
      <4>5. k \notin Published(q)
        BY <1>3, IssuedCodes DEF Published, TypeInv, RowsOK
      <4>6. Fits(j, q)'
        BY <1>4, <3>1, <4>5 DEF Fits
      <4> QED BY <1>4, <3>1, <3>3, <4>2, <4>3, <4>4, <4>6, OwnParent DEF TypeInv
    <3> QED BY <3>2, <3>3
  <2> QED BY <2>1, <2>2
<1> QED BY <1>7, <1>8 DEF CommentsInv, AccountInv

\* The code of a worker without a request is no entry's.
LEMMA NoEntry == ASSUME TypeInv PROVE JobsOK /\ \A p : NoJob.code \notin Published(p)
BY IssuedCodes DEF NoJob, Published, TypeInv, Codes

LEMMA CommentsAccounted ==
  ASSUME TypeInv, CommentsInv, NEW w \in Workers,
         CheckComment(w) \/ PostComment(w) \/ ReadParent(w) \/ CountComment(w)
  PROVE  CommentsInv'
<1> USE CommentsLeft, CommentersLeft
<1>j. job[w] \in Job /\ job[w].pc \in CommentPoints
  BY DEF TypeInv, JobsOK, CheckComment, PostComment, ReadParent, CountComment, At
<1>p. PICK p : p = job[w].parent
  OBVIOUS
<1>c. PICK c : c = job[w].code
  OBVIOUS
<1>o. /\ OfFamily(job[w]) /\ p \in 0..created /\ (c \in DOMAIN news => news[c].parent = p)
      /\ p \in DOMAIN news \ uncounted =>
           /\ AccountFor(p) /\ Fits(job[w], p) /\ news[p].comments \in Int
           /\ \A v \in Workers \ {w} : Concerns(v, p) => job[v].code # c /\ Fits(job[v], p)
           /\ c \in InHand(p) <=> job[w].pc \in HandPoints
  BY <1>j, <1>p, <1>c, OwnComment
<1>f. ASSUME Fails(w), job[w].pc \notin HandPoints PROVE CommentsInv'
  BY <1>f, CommentsKept DEF Fails, Reads, tables, history
<1>n. OfFamily(NoJob) /\ NoJob.pc \notin CommentPoints
  BY DEF OfFamily, NoJob
<1>1. CASE CheckComment(w)
  <2>1. job[w].pc = "check" /\ UNCHANGED <<news, uncounted, created>>
    BY <1>1 DEF CheckComment, At, Reads, tables, history
  <2>2. CASE Answer(w)
    BY <2>1, <2>2, CommentsKept
  <2>3. CASE Goto(w, "post")
    <3>1. PICK j \in Job : /\ Become(w, j) /\ j.pc = "post" /\ j.code = c /\ j.parent = p
      BY <1>p, <1>c, <2>3, Moved DEF Points
    <3>2. LeavesFamilies /\ \A q : Published(q)' = Published(q)
      BY <2>1 DEF Published
    <3>3. OfFamily(j)
      BY <1>p, <1>c, <1>o, <2>1, <3>1 DEF OfFamily
    <3>4. ASSUME p \in DOMAIN news' \ uncounted' PROVE AccountFor(p)'
      <4>1. InHand(p)' = InHand(p)
        BY <2>1, <3>1, HandsMove DEF TypeInv
      <4>2. news'[p].comments = Cardinality(Settled(p)')
        BY <1>o, <2>1, <3>2, <3>4, <4>1 DEF AccountFor, Settled
      <4>3. \A v \in Workers \ {w} : Concerns(v, p) => Fits(job[v], p)'
        BY <1>o, <2>1, <3>1, <3>2, <3>4 DEF Fits, Become, TypeInv, JobsOK
      <4>4. Fits(j, p)'
        BY <1>o, <1>c, <2>1, <3>1, <3>2, <3>4 DEF Fits
      <4> QED BY <1>o, <2>1, <3>1, <3>4, <4>2, <4>3, <4>4, OwnParent DEF TypeInv
    <3> QED BY <1>p, <2>1, <3>1, <3>2, <3>3, <3>4, StepAccounted
  <2> QED BY <1>1, <2>2, <2>3 DEF CheckComment
<1>2. CASE PostComment(w)
  <2>1. CASE Fails(w)
    BY <1>2, <1>f, <2>1 DEF PostComment, At
  <2>2. CASE ~Fails(w)
    <3>1. /\ job[w].pc = "post" /\ SetStatus(c, 3) /\ Goto(w, "parent") /\ created' = created
          /\ uncounted' = uncounted \cup {q \in {p} : ~Exists(c)}
      BY <1>2, <1>p, <1>c, <2>2 DEF PostComment, At
    <3>2. PICK j \in Job : /\ Become(w, j) /\ j.pc = "parent" /\ j.code = c /\ j.parent = p
      BY <1>p, <1>c, <3>1, Moved DEF Points
    <3>3. OfFamily(j)
      BY <1>p, <1>c, <1>o, <3>1, <3>2 DEF OfFamily
    <3>4. CASE ~Exists(c)
      <4>1. news' = news
        BY <3>1, <3>4 DEF SetStatus, Exists, TypeInv, RowsOK
      <4>2. LeavesFamilies /\ \A q : Published(q)' = Published(q)
        BY <4>1 DEF Published, LeavesFamilies
      <4> QED BY <1>p, <3>1, <3>2, <3>3, <3>4, <4>1, <4>2, StepAccounted
    <3>5. CASE Exists(c)
      <4>1. c \in DOMAIN news /\ news[c].parent = p /\ uncounted' = uncounted
        BY <1>o, <3>1, <3>5 DEF Exists
      <4>2. /\ LeavesFamilies /\ \A q \in DOMAIN news : news'[q].comments = news[q].comments
            /\ \A x : x # c => (x \in Published(p)' <=> x \in Published(p))
            /\ c \in Published(p)'
            /\ \A q : q # p => Published(q)' = Published(q)
        BY <3>1, <4>1, OneStatus
      <4>3. ASSUME p \in DOMAIN news' \ uncounted' PROVE AccountFor(p)'
        <5>1. p \in DOMAIN news \ uncounted
          BY <4>1, <4>2, <4>3 DEF LeavesFamilies
        <5>2. c \in InHand(p)' /\ \A x : x # c => (x \in InHand(p)' <=> x \in InHand(p))
          BY <1>c, <3>2, HandsMove DEF TypeInv
        <5>3. c \notin Published(p)
          BY <1>c, <1>o, <3>1, <5>1 DEF Fits
        <5>4. \A x : x \in Settled(p)' <=> x \in Settled(p)
          BY <4>2, <5>2, <5>3 DEF Settled
        <5>5. Settled(p)' = Settled(p)
          BY <5>4
        <5>6. news'[p].comments = Cardinality(Settled(p)')
          BY <1>o, <4>2, <5>1, <5>5 DEF AccountFor
        <5>7. \A v \in Workers \ {w} : Concerns(v, p) => Fits(job[v], p)'
          BY <1>o, <3>2, <4>2, <5>1 DEF Fits, Become, TypeInv, JobsOK
        <5>8. Fits(j, p)'
          BY <3>2, <4>2 DEF Fits
        <5> QED BY <1>o, <3>2, <5>1, <5>6, <5>7, <5>8, OwnParent DEF TypeInv
      <4> QED BY <1>p, <3>1, <3>2, <3>3, <4>1, <4>2, <4>3, StepAccounted
    <3> QED BY <3>4, <3>5
  <2> QED BY <2>1, <2>2
<1>3. CASE ReadParent(w)
  <2>1. job[w].pc = "parent" /\ UNCHANGED <<news, created>>
    BY <1>3 DEF ReadParent, At, tables
  <2>2. LeavesFamilies /\ \A q : Published(q)' = Published(q)
    BY <2>1 DEF Published, LeavesFamilies
  <2>3. CASE Visible(p)
    <3>1. /\ Become(w, [job[w] EXCEPT !.pc = "bump", !.n = news[p].comments + 1])
          /\ uncounted' = uncounted \cup Overlapped(w, p)
      BY <1>3, <1>p, <2>3 DEF ReadParent
    <3>2. PICK j \in Job : /\ Become(w, j) /\ j.pc = "bump" /\ j.code = c /\ j.parent = p
                          /\ j.n = news[p].comments + 1
      <4> DEFINE n == news[p].comments + 1
                 k == [job[w] EXCEPT !.pc = "bump", !.n = n]
      <4>1. n \in Int
        BY <2>3 DEF TypeInv, RowsOK, Entry, Visible, Exists
      <4>2. Become(w, k)
        BY <3>1
      <4> HIDE DEF n
      <4>3. k \in Job /\ k.pc = "bump" /\ k.code = c /\ k.parent = p /\ k.n = n
        BY <1>j, <1>p, <1>c, <4>1 DEF Job, Points
      <4> HIDE DEF k
      <4> QED BY <4>2, <4>3 DEF n
    <3>3. OfFamily(j)
      BY <1>p, <1>c, <1>o, <2>1, <3>2 DEF OfFamily
    <3>4. ASSUME p \in DOMAIN news' \ uncounted' PROVE AccountFor(p)'
      <4>1. p \in DOMAIN news \ uncounted /\ \A v \in Workers \ {w} : ~Counting(v, p)
        BY <2>1, <3>1, <3>4 DEF Overlapped
      <4>2. c \in InHand(p)' /\ \A x : x # c => (x \in InHand(p)' <=> x \in InHand(p))
        BY <1>c, <3>2, HandsMove DEF TypeInv
      <4>3. c \in InHand(p)
        BY <1>o, <2>1, <4>1
      <4>4. \A x : x \in Settled(p)' <=> x \in Settled(p)
        BY <2>2, <4>2, <4>3 DEF Settled
      <4>5. Settled(p)' = Settled(p)
        BY <4>4
      <4>6. news'[p].comments = Cardinality(Settled(p)')
        BY <1>o, <2>1, <4>1, <4>5 DEF AccountFor
      <4>7. \A v \in Workers \ {w} : Concerns(v, p) => Fits(job[v], p)'
        BY <1>o, <2>1, <2>2, <3>2, <4>1 DEF Fits, Become, TypeInv, JobsOK
      <4>8. Fits(j, p)'
        BY <1>o, <1>c, <2>1, <2>2, <3>2, <4>1 DEF Fits
      <4> QED BY <1>o, <3>2, <4>1, <4>6, <4>7, <4>8, OwnParent DEF TypeInv
    <3> QED BY <1>p, <2>1, <2>2, <3>1, <3>2, <3>3, <3>4, StepAccounted
  <2>4. CASE ~Visible(p)
    <3>1. Become(w, NoJob) /\ uncounted' = uncounted \cup {p}
      BY <1>3, <1>p, <2>4 DEF ReadParent, Answer
    <3> QED BY <1>n, <1>p, <2>1, <2>2, <3>1, StepAccounted
  <2> QED BY <2>3, <2>4
<1>4. CASE CountComment(w)
  <2>1. job[w].pc = "bump" /\ Become(w, NoJob) /\ created' = created
    BY <1>4 DEF CountComment, At, Answer
  <2>2. CASE UNCHANGED news /\ uncounted' = uncounted \cup {p}
    <3>1. LeavesFamilies /\ \A q : Published(q)' = Published(q)
      BY <2>2 DEF Published, LeavesFamilies
    <3> QED BY <1>n, <1>p, <2>1, <2>2, <3>1, StepAccounted
  <2>3. CASE SetComments(p, job[w].n) /\ UNCHANGED uncounted
    <3>1. PICK n : n = job[w].n
      OBVIOUS
    <3>2. /\ LeavesFamilies /\ DOMAIN news' = DOMAIN news /\ \A q : Published(q)' = Published(q)
          /\ \A q \in DOMAIN news : news'[q].comments = IF q = p THEN n ELSE news[q].comments
      BY <2>3, <3>1, OneCount
    <3>3. ASSUME p \in DOMAIN news' \ uncounted' PROVE AccountFor(p)'
      <4>1. p \in DOMAIN news \ uncounted
        BY <2>3, <3>2, <3>3
      <4>2. c \in Published(p) /\ n = news[p].comments + 1 /\ c \in InHand(p)
        BY <1>c, <1>o, <2>1, <3>1, <4>1 DEF Fits
      <4>3. c \notin InHand(p)'
        BY <1>c, <1>n, <1>o, <1>p, <2>1, <4>1, HandsMove DEF TypeInv, AccountFor, Concerns
      <4>4. \A x \in Published(p) : x # c => (x \in InHand(p)' <=> x \in InHand(p))
        BY <1>c, <2>1, HandsMove, NoEntry
      <4>5. Settled(p)' = Settled(p) \cup {c} /\ c \notin Settled(p)
        BY <3>2, <4>2, <4>3, <4>4 DEF Settled
      <4>6. Cardinality(Settled(p)') = Cardinality(Settled(p)) + 1
        BY <4>5, SettledFinite, FS_AddElement DEF TypeInv
      <4>7. news'[p].comments = Cardinality(Settled(p)')
        BY <1>o, <3>2, <4>1, <4>2, <4>6 DEF AccountFor
      <4>8. \A v \in Workers \ {w} : ~Counting(v, p)
        BY <1>o, <1>p, <2>1, <4>1 DEF AccountFor, OneCounter, Counting
      <4>9. \A v \in Workers \ {w} : Concerns(v, p) => Fits(job[v], p)'
        BY <1>o, <2>1, <3>2, <4>1, <4>8 DEF Fits, Become, TypeInv, JobsOK, Counting, Concerns
      <4> QED BY <1>n, <1>o, <2>1, <4>1, <4>7, <4>9, OwnParent DEF TypeInv
    <3> QED BY <1>n, <1>p, <2>1, <2>3, <3>2, <3>3, StepAccounted
  <2> QED BY <1>4, <1>p, <2>2, <2>3 DEF CountComment
<1> QED BY <1>1, <1>2, <1>3, <1>4

LEMMA RemovalsAccounted ==
  ASSUME TypeInv, CommentsInv, NEW w \in Workers,
         ReadComments(w) \/ DropComment(w) \/ Hide(w)
  PROVE  CommentsInv'
<1> USE CommentsLeft, CommentersLeft
<1>j. job[w] \in Job /\ job[w].pc \in CommentPoints
  BY DEF TypeInv, JobsOK, ReadComments, DropComment, Hide, At
<1>p. PICK p : p = job[w].parent
  OBVIOUS
<1>c. PICK c : c = job[w].code
  OBVIOUS
<1>o. /\ OfFamily(job[w]) /\ p \in 0..created /\ (c \in DOMAIN news => news[c].parent = p)
      /\ p \in DOMAIN news \ uncounted =>
           /\ AccountFor(p) /\ Fits(job[w], p) /\ news[p].comments \in Int
           /\ \A v \in Workers \ {w} : Concerns(v, p) => job[v].code # c /\ Fits(job[v], p)
           /\ c \in InHand(p) <=> job[w].pc \in HandPoints
  BY <1>j, <1>p, <1>c, OwnComment
<1>n. OfFamily(NoJob) /\ NoJob.pc \notin CommentPoints
  BY DEF OfFamily, NoJob
<1>1. CASE ReadComments(w)
  <2> DEFINE n == IF Exists(p) THEN news[p].comments ELSE 0
             pc == IF n > 0 THEN "drop" ELSE "hide"
             k == [job[w] EXCEPT !.pc = pc, !.n = OneLess(n)]
  <2>1. /\ job[w].pc = "comments" /\ UNCHANGED <<news, created>> /\ Become(w, k)
        /\ uncounted' = uncounted \cup Overlapped(w, p)
    BY <1>1, <1>p DEF ReadComments, At, tables
  <2>2. LeavesFamilies /\ \A q : Published(q)' = Published(q)
    BY <2>1 DEF Published, LeavesFamilies
  <2>3. n \in Int /\ pc \in {"drop", "hide"}
    BY DEF TypeInv, RowsOK, Entry, Exists
  <2>4. PICK j \in Job : /\ Become(w, j) /\ j.pc = pc /\ j.code = c /\ j.parent = p /\ j.n = n - 1
    <3>1. n - 1 \in Int
      BY <2>3
    <3>2. OneLess(n) = n - 1
      BY DEF OneLess
    <3> HIDE DEF n, pc
    <3>3. k \in Job /\ k.pc = pc /\ k.code = c /\ k.parent = p /\ k.n = n - 1
      BY <1>j, <1>p, <1>c, <2>3, <3>1, <3>2 DEF Job, Points
    <3> HIDE DEF k
    <3> QED BY <2>1, <3>3
  <2>5. OfFamily(j)
    BY <1>p, <1>c, <1>o, <2>1, <2>4 DEF OfFamily
  <2>6. ASSUME p \in DOMAIN news' \ uncounted' PROVE AccountFor(p)'
    <3>1. p \in DOMAIN news \ uncounted /\ \A v \in Workers \ {w} : ~Counting(v, p)
      BY <2>1, <2>6 DEF Overlapped
    <3>2. n = news[p].comments /\ n = Cardinality(Settled(p))
      BY <1>o, <3>1 DEF Exists, AccountFor
    <3>3. c \in Settled(p)
      BY <1>c, <1>o, <2>1, <3>1 DEF Fits, Settled
    <3>4. n > 0
      <4>1. Cardinality(Settled(p)) # 0 /\ Cardinality(Settled(p)) \in Nat
        BY <3>3, SettledFinite, FS_EmptySet DEF TypeInv
      <4> QED BY <3>2, <4>1
    <3>5. j.pc = "drop" /\ j.n = news[p].comments - 1
      BY <2>4, <3>2, <3>4
    <3>6. InHand(p)' = InHand(p)
      BY <2>1, <2>4, <3>5, HandsMove DEF TypeInv
    <3>7. news'[p].comments = Cardinality(Settled(p)')
      BY <1>o, <2>1, <2>2, <3>1, <3>6 DEF AccountFor, Settled
    <3>8. \A v \in Workers \ {w} : Concerns(v, p) => Fits(job[v], p)'
      BY <1>o, <2>1, <2>2, <2>4, <3>1 DEF Fits, Become, TypeInv, JobsOK
    <3>9. Fits(j, p)'
      BY <1>o, <1>c, <2>1, <2>2, <2>4, <3>1, <3>5 DEF Fits
    <3> QED BY <1>o, <2>4, <3>1, <3>7, <3>8, <3>9, OwnParent DEF TypeInv
  <2> HIDE DEF n, pc, k
  <2> QED BY <1>p, <2>1, <2>2, <2>4, <2>5, <2>6, StepAccounted
<1>2. CASE DropComment(w)
  <2>1. CASE Fails(w)
    BY <1>2, <2>1, CommentsKept DEF DropComment, At, Fails, Reads, tables, history
  <2>2. CASE ~Fails(w)
    <3>1. PICK n : n = job[w].n
      OBVIOUS
    <3>2. /\ job[w].pc = "drop" /\ SetComments(p, n) /\ Goto(w, "hide")
          /\ UNCHANGED <<created, uncounted>>
      BY <1>2, <1>p, <2>2, <3>1 DEF DropComment, At, history
    <3>3. PICK j \in Job : /\ Become(w, j) /\ j.pc = "hide" /\ j.code = c /\ j.parent = p
      BY <1>p, <1>c, <3>2, Moved DEF Points
    <3>4. OfFamily(j)
      BY <1>p, <1>c, <1>o, <3>2, <3>3 DEF OfFamily
    <3>5. /\ LeavesFamilies /\ DOMAIN news' = DOMAIN news /\ \A q : Published(q)' = Published(q)
          /\ \A q \in DOMAIN news : news'[q].comments = IF q = p THEN n ELSE news[q].comments
      BY <3>2, OneCount
    <3>6. ASSUME p \in DOMAIN news' \ uncounted' PROVE AccountFor(p)'
      <4>1. p \in DOMAIN news \ uncounted
        BY <3>2, <3>5, <3>6
      <4>2. c \in Published(p) /\ n = news[p].comments - 1 /\ c \notin InHand(p)
        BY <1>c, <1>o, <3>1, <3>2, <4>1 DEF Fits
      <4>3. c \in InHand(p)' /\ \A x : x # c => (x \in InHand(p)' <=> x \in InHand(p))
        BY <1>c, <3>3, HandsMove DEF TypeInv
      <4>4. Settled(p)' = Settled(p) \ {c} /\ c \in Settled(p)
        BY <3>5, <4>2, <4>3 DEF Settled
      <4>5. Cardinality(Settled(p)') = Cardinality(Settled(p)) - 1
        BY <4>4, SettledFinite, FS_RemoveElement DEF TypeInv
      <4>6. news'[p].comments = Cardinality(Settled(p)')
        BY <1>o, <3>5, <4>1, <4>2, <4>5 DEF AccountFor
      <4>7. \A v \in Workers \ {w} : ~Counting(v, p)
        BY <1>o, <1>p, <3>2, <4>1 DEF AccountFor, OneCounter, Counting
      <4>8. \A v \in Workers \ {w} : Concerns(v, p) => Fits(job[v], p)'
        BY <1>o, <3>3, <3>5, <4>1, <4>7 DEF Fits, Become, TypeInv, JobsOK, Counting, Concerns
      <4>9. Fits(j, p)'
        BY <3>3, <3>5, <4>2 DEF Fits
      <4> QED BY <1>o, <3>3, <4>1, <4>6, <4>8, <4>9, OwnParent DEF TypeInv
    <3> QED BY <1>p, <3>2, <3>3, <3>4, <3>5, <3>6, StepAccounted
  <2> QED BY <2>1, <2>2
<1>3. CASE Hide(w)
  <2>1. job[w].pc = "hide" /\ Become(w, NoJob) /\ created' = created
    BY <1>3 DEF Hide, At, Answer
  <2>2. CASE UNCHANGED news /\ uncounted' = uncounted \cup ({p} \ {0})
    <3>1. LeavesFamilies /\ \A q : Published(q)' = Published(q)
      BY <2>2 DEF Published, LeavesFamilies
    <3>2. p \notin DOMAIN news' \ uncounted'
      BY <2>2 DEF TypeInv, RowsOK, Issued
    <3> QED BY <1>n, <1>p, <2>1, <2>2, <3>1, <3>2, StepAccounted
  <2>3. CASE SetStatus(c, 0) /\ UNCHANGED uncounted
    <3>1. /\ LeavesFamilies /\ \A q \in DOMAIN news : news'[q].comments = news[q].comments
          /\ \A q, x : x # c => (x \in Published(q)' <=> x \in Published(q))
          /\ \A q : c \notin Published(q)' /\ (q # p => Published(q)' = Published(q))
      <4>1. CASE c \in DOMAIN news
        BY <1>o, <2>3, <4>1, OneStatus
      <4>2. CASE c \notin DOMAIN news
        <5>1. news' = news
          BY <2>3, <4>2 DEF SetStatus, TypeInv, RowsOK
        <5> QED BY <4>2, <5>1 DEF LeavesFamilies, Published
      <4> QED BY <4>1, <4>2
    <3>2. ASSUME p \in DOMAIN news' \ uncounted' PROVE AccountFor(p)'
      <4>1. p \in DOMAIN news \ uncounted
        BY <2>3, <3>1, <3>2 DEF LeavesFamilies
      <4>2. c \in InHand(p)
        BY <1>o, <2>1, <4>1
      <4>3. \A x \in Published(p) : x # c => (x \in InHand(p)' <=> x \in InHand(p))
        BY <1>c, <2>1, HandsMove, NoEntry
      <4>4. \A x : x \in Settled(p)' <=> x \in Settled(p)
        BY <3>1, <4>2, <4>3 DEF Settled
      <4>5. Settled(p)' = Settled(p)
        BY <4>4
      <4>6. news'[p].comments = Cardinality(Settled(p)')
        BY <1>o, <3>1, <4>1, <4>5 DEF AccountFor
      <4>7. \A v \in Workers \ {w} : Concerns(v, p) => Fits(job[v], p)'
        BY <1>o, <2>1, <3>1, <4>1 DEF Fits, Become, TypeInv, JobsOK
      <4> QED BY <1>n, <1>o, <2>1, <4>1, <4>6, <4>7, OwnParent DEF TypeInv
    <3> QED BY <1>n, <1>p, <2>1, <2>3, <3>1, <3>2, StepAccounted
  <2> QED BY <1>3, <1>p, <1>c, <2>2, <2>3 DEF Hide
<1> QED BY <1>1, <1>2, <1>3

LEMMA RemoveAccounted ==
  ASSUME TypeInv, CommentsInv, NEW w \in Workers, TakeRemove(w)
  PROVE  CommentsInv'
<1>1. PICK c \in Issued : job[w].pc = "idle" /\ BeginRemove(w, c)
  BY DEF TakeRemove, Free, At
<1>2. PICK p : p = IF Exists(c) THEN news[c].parent ELSE 0
  OBVIOUS
<1> DEFINE pc == IF p = 0 THEN "hide" ELSE "comments"
           k == [NoJob EXCEPT !.pc = pc, !.code = c, !.parent = p]
<1>3. /\ Become(w, k) /\ UNCHANGED <<news, created>>
      /\ uncounted' = uncounted \cup
           {q \in {p} \ {0} : \/ news[c].status # 3
                              \/ \E other \in Workers : Removing(other, c) \/ Posting(other, c)}
  BY <1>1, <1>2 DEF BeginRemove, tables
<1>4. PICK j : Become(w, j) /\ j.pc = pc /\ j.code = c /\ j.parent = p
  <2>1. k.pc = pc /\ k.code = c /\ k.parent = p
    BY DEF NoJob
  <2> HIDE DEF k
  <2> QED BY <1>3, <2>1
<1>5. OfFamily(j)
  BY <1>2, <1>4 DEF OfFamily, Exists, CommentsInv, FamilyInv, TypeInv, RowsOK
<1>6. LeavesFamilies /\ \A q : Published(q)' = Published(q)
  BY <1>3 DEF Published, LeavesFamilies
<1>7. ASSUME p \in DOMAIN news' \ uncounted' PROVE AccountFor(p)'
  <2>1. p \in DOMAIN news \ uncounted /\ p # 0 /\ AccountFor(p)
    BY <1>3, <1>7 DEF TypeInv, RowsOK, Issued, CommentsInv, AccountInv
  <2>2. /\ c \in DOMAIN news /\ news[c].parent = p /\ news[c].status = 3
        /\ \A other \in Workers : ~Removing(other, c) /\ ~Posting(other, c)
    BY <1>2, <1>3, <1>7, <2>1 DEF Exists
  <2>3. j.pc = "comments" /\ c \in Published(p)
    BY <1>4, <2>1, <2>2 DEF Published
  <2>4. InHand(p)' = InHand(p)
    BY <1>1, <1>4, <2>3, HandsMove DEF TypeInv
  <2>5. news'[p].comments = Cardinality(Settled(p)')
    BY <1>3, <1>6, <2>1, <2>4 DEF AccountFor, Settled
  <2>6. \A v \in Workers \ {w} : Concerns(v, p) => Fits(job[v], p)'
    BY <1>3, <1>4, <1>6, <2>1 DEF AccountFor, Fits, Become, TypeInv, JobsOK
  <2>7. \A v \in Workers : Concerns(v, p) => job[v].code # c
    BY <2>2 DEF Concerns, Removing, Posting
  <2>8. Fits(j, p)'
    BY <1>4, <1>6, <2>3 DEF Fits
  <2> QED BY <1>4, <2>1, <2>3, <2>5, <2>6, <2>7, <2>8, OwnParent DEF TypeInv
<1> HIDE DEF pc, k
<1> QED BY <1>1, <1>3, <1>4, <1>5, <1>6, <1>7, StepAccounted

LEMMA DeletesAccounted ==
  ASSUME TypeInv, CommentsInv, NEW w \in Workers,
         TakeDelete(w) \/ DeleteLikes(w) \/ DeleteRow(w)
  PROVE  CommentsInv'
<1> USE CommentsLeft, CommentersLeft
<1>1. CASE TakeDelete(w)
  <2>1. PICK c \in Issued : job[w].pc = "idle" /\ BeginDelete(w, c)
    BY <1>1 DEF TakeDelete, Free, At
  <2>2. LeavesCommenters /\ created' = created
    BY <2>1 DEF BeginDelete, NoJob
  <2>3. LeavesComments /\ LeavesFamilies
    BY <2>1 DEF BeginDelete
  <2> QED BY <2>2, <2>3, CommentsKept
<1>2. CASE DeleteLikes(w)
  <2>1. LeavesCommenters
    BY <1>2 DEF DeleteLikes, Goto, At, TypeInv, JobsOK, Job
  <2> QED BY <1>2, <2>1, CommentsKept DEF DeleteLikes
<1>3. CASE DeleteRow(w)
  <2>1. LeavesCommenters
    BY <1>3 DEF DeleteRow, Fails, At
  <2>2. LeavesComments /\ LeavesFamilies /\ created' = created
    BY <1>3 DEF DeleteRow, Fails, Reads, tables, history
  <2> QED BY <2>1, <2>2, CommentsKept
<1> QED BY <1>1, <1>2, <1>3

LEMMA RestartAccounted == ASSUME TypeInv, CommentsInv, Restart PROVE CommentsInv'
<1>1. /\ DOMAIN news' = DOMAIN news
      /\ \A k \in DOMAIN news : /\ news'[k].parent = news[k].parent
                                /\ news'[k].comments = news[k].comments
                                /\ news'[k].status = 3 <=> news[k].status = 3
  BY DEF Restart, TypeInv, RowsOK, Entry
<1>2. \A p : Published(p)' = Published(p)
  BY <1>1 DEF Published
<1>3. LeavesComments /\ LeavesFamilies /\ created' = created
  BY <1>1, <1>2 DEF Restart, LeavesComments, LeavesFamilies
<1>4. LeavesCommenters
  BY DEF Restart, LeavesCommenters, NoJob, TypeInv, JobsOK, Job, Codes
<1> QED BY <1>3, <1>4, CommentsKept

LEMMA NextAccounted == TypeInv /\ CommentsInv /\ [AnyNext]_vars => CommentsInv'
<1> SUFFICES ASSUME TypeInv, CommentsInv, [AnyNext]_vars PROVE CommentsInv'
  OBVIOUS
<1>1. CASE UNCHANGED vars
  <2>1. LeavesComments /\ LeavesFamilies /\ LeavesCommenters /\ created' = created
    BY <1>1, CommentsLeft DEF vars, LeavesCommenters
  <2> QED BY <2>1, CommentsKept
<1>2. ASSUME NEW w \in Workers, AnyStatement(w) PROVE CommentsInv'
  BY <1>2, EntriesAccounted, VotesAccounted, CreateAccounted, CommentsAccounted, RemovalsAccounted,
     RemoveAccounted, DeletesAccounted DEF AnyStatement
<1> QED BY <1>1, <1>2, RestartAccounted DEF AnyNext

\* comment_num is the number of an entry's published comments, for any numbers of workers
\* and entries (comment, news_mgr.cpp:331, and remove, 258): where no two of them count from
\* one copy, none is cut short and no other handler changes the status of a comment, each
\* comment is counted once when it is published and taken off once when it is removed.
THEOREM CommentsAreCounted == Spec => []CommentsCounted
<1>1. Init => CommentsInv
  BY DEF Init, CommentsInv, FamilyInv, AccountInv, OfFamily, NoJob
<1>2. Spec => [](TypeInv /\ CommentsInv)
  BY <1>1, InitTyped, NextTaken, NextTyped, NextAccounted, PTL DEF Spec
<1>3. CommentsInv => CommentsCounted
  BY CommentsInvCounts
<1> QED BY <1>2, <1>3, PTL
=============================================================================
