------------------------------ MODULE EditPage ------------------------------
(***************************************************************************)
(* The page that edits an entry (web_root/edit.html).  It asks for the      *)
(* entry once; from then on it keeps its status and whether something is    *)
(* unsaved itself, by the answers to what it sends: saves, a publication    *)
(* (a save and, when that is answered, a change of the status), removals,   *)
(* and the deletion of a draft that is left.  The user goes on typing and   *)
(* clicking while requests are in flight.                                   *)
(*                                                                         *)
(* A text is known by the time it was typed, its two parts apart because    *)
(* the server stores them in two statements.                                *)
(***************************************************************************)
EXTENDS Browser

CONSTANTS
  MaxTexts,     \* bound: the times the user types
  Nameless      \* those at which the title or the author is left empty

ASSUME EditAssumption ==
  /\ MaxTexts \in Nat
  /\ Nameless \subseteq 0..MaxTexts /\ 0 \in Nameless

VARIABLES
  editor,     \* what the script keeps: now_new and is_edit
  post,       \* [Connections -> the request in flight on it]
  typed,      \* how often the user has typed
  kept,       \* the text the tables have
  carries,    \* [Workers -> the content of the save it serves]
  strayed     \* history: of the editor's status or text, what changed without it

editVars == <<editor, post, typed, kept, carries, strayed>>
allEditVars == <<vars, browserVars, editVars>>

Texts == 0..MaxTexts
Text == [info : Texts, content : Texts]      \* title and author, and the rest
Blank == [info |-> 0, content |-> 0]
Editor == [state : {"closed", "asked", "open"}, status : 0..3, dirty : BOOLEAN, text : Text]
ClosedEditor == [state |-> "closed", status |-> 0, dirty |-> FALSE, text |-> Blank]
Kinds == {"save", "publish", "status", "remove", "delete"}
Post == [state : {"none", "sent", "served", "ok", "failed"}, kind : Kinds, text : Text]
NoPost == [state |-> "none", kind |-> "save", text |-> Blank]

EditTypeOK ==
  /\ BrowserTypeOK
  /\ editor \in Editor /\ post \in [Connections -> Post]
  /\ typed \in Texts /\ kept \in Text
  /\ carries \in [Workers -> Texts]
  /\ strayed \subseteq {"status", "text", "draft"}

EditInit ==
  /\ BrowserInit
  /\ editor = ClosedEditor
  /\ post = [k \in Connections |-> NoPost]
  /\ typed = 0 /\ kept = Blank
  /\ carries = [w \in Workers |-> 0]
  /\ strayed = {}
-----------------------------------------------------------------------------
Open == editor.state = "open"
Pending == {k \in Connections : post[k].state # "none"}
SetPost(k, state) == post' = [post EXCEPT ![k].state = state]
\* Marks the things that go astray when condition holds.
Stray(things, condition) == strayed' = strayed \cup {s \in things : condition}
NothingStrays == UNCHANGED strayed
\* The request of k has another text than the page.
Outdated(k) == post[k].text # editor.text
\* What the page does not hear of when the request of k is cut short.
Unheard(k) ==
  IF post[k].state \in {"served", "ok"} \/ post[k].kind = "status"
  THEN {"status"} \cup {s \in {"text"} : post[k].kind = "delete" \/ Outdated(k)}
  ELSE {}

\* get_new.action reads the entry; init() shows it.
AskEditor ==
  /\ editor.state = "closed" /\ Visible(Shown)
  /\ editor' = [state |-> "asked", status |-> news[Shown].status, dirty |-> FALSE,
                text |-> kept]
  /\ strayed' = {}
  /\ UNCHANGED <<vars, browserVars, post, typed, kept, carries>>

LoadEditor ==
  /\ editor.state = "asked"
  /\ editor' = [editor EXCEPT !.state = "open", !.dirty = editor.status = 1]
  /\ UNCHANGED <<vars, browserVars, post, typed, kept, carries, strayed>>

\* The user types, or only leaves a field: both count as an edit (afterBlur, onblur).
TypeText ==
  /\ Open
  /\ \/ /\ typed < MaxTexts /\ typed' = typed + 1
        /\ editor' = [editor EXCEPT !.text = [info |-> typed', content |-> typed'], !.dirty = TRUE]
     \/ ~editor.dirty /\ editor' = [editor EXCEPT !.dirty = TRUE] /\ UNCHANGED typed
  /\ UNCHANGED <<vars, browserVars, post, kept, carries, strayed>>

DiscardsUnsaved(e) == e.dirty                  \* seeded fault: whatever the status
\* The back button deletes what was never saved.
Discards(e) == e.dirty /\ e.status = 1

\* $.post of the page's text.  A draft may be deleted together with what is still sent.
Send(k, kind) ==
  /\ Open /\ post[k] = NoPost
  /\ post' = [post EXCEPT ![k] = [state |-> "sent", kind |-> kind, text |-> editor.text]]
  /\ Stray({"draft"}, Pending # {} /\ \E p \in Pending \cup {k} : post'[p].kind = "delete")
  /\ UNCHANGED <<vars, browserVars, editor, typed, kept, carries>>

ClickSave(k) == Send(k, "save")
\* The button publishes and, once published, saves, which ends the publication.
ClickPublish(k) ==
  \/ editor.status = 3 /\ Send(k, "save")
  \/ editor.status # 3 /\ editor.text.info \notin Nameless /\ Send(k, "publish")
ClickRemove(k) == Send(k, "remove")
ClickBack(k) == Discards(editor) /\ Send(k, "delete")
-----------------------------------------------------------------------------
(* The server.                                                             *)

Saves(k) == post[k].kind \in {"save", "publish"}
AtWork(w) == ~At(w, "idle") /\ job[w].code = Shown

\* A worker takes a request: its first statement.
ServePost(w, k) ==
  LET p == post[k] IN
  /\ p.state = "sent" /\ At(w, "idle")
  /\ \/ /\ Saves(k) /\ StoreInfo(w, Shown, p.text.info \notin Nameless)
        /\ kept' = [kept EXCEPT !.info = IF Exists(Shown) THEN p.text.info ELSE @]
        /\ carries' = [carries EXCEPT ![w] = p.text.content]
     \/ /\ \/ p.kind = "status" /\ BeginPublish(w, Shown)
           \/ p.kind = "remove" /\ BeginRemove(w, Shown)
           \/ p.kind = "delete" /\ BeginDelete(w, Shown)
        /\ UNCHANGED <<kept, carries>>
  /\ SetPost(k, "served") /\ Serves(w, k)
  /\ Stray({"status", "text"}, \E other \in Workers : AtWork(other))
  /\ UNCHANGED <<stored, editor, typed>>

\* It is refused: by a filter, for its names, or its first statement fails.
RefusePost(k) ==
  /\ post[k].state = "sent" /\ SetPost(k, "failed")
  /\ UNCHANGED <<vars, browserVars, editor, typed, kept, carries, strayed>>

\* The last statement is done and answered; or it fails, the others being done.
Effect(w) ==
  /\ SetPost(serving[w], "ok") /\ Serves(w, NoConnection)
  /\ Stored(serving[w]) /\ NothingStrays
Failure(w) ==
  /\ SetPost(serving[w], "failed") /\ Serves(w, NoConnection)
  /\ UNCHANGED stored

WritesContent(w) ==
  /\ At(w, "content") /\ WriteStatus(w, 2)
  /\ kept' = [kept EXCEPT !.content = IF Exists(Shown) THEN carries[w] ELSE @]
  /\ carries' = [carries EXCEPT ![w] = 0]
LosesContent(w) ==
  /\ At(w, "content") /\ Fails(w)
  /\ carries' = [carries EXCEPT ![w] = 0] /\ UNCHANGED kept

ServeEdit(w) ==
  /\ serving[w] # NoConnection
  /\ \/ WritesContent(w) /\ Effect(w)
     \/ LosesContent(w) /\ Failure(w) /\ Stray(Unheard(serving[w]), TRUE)
     \/ /\ \/ At(w, "publish") /\ WriteStatus(w, 3) /\ Effect(w)
           \/ At(w, "publish") /\ Fails(w) /\ Failure(w) /\ NothingStrays
           \/ Hide(w) /\ SetPost(serving[w], "ok") /\ Serves(w, NoConnection)
              /\ UNCHANGED <<stored, strayed>>
           \/ Hide(w) /\ news' = news /\ Failure(w) /\ NothingStrays
           \/ DeleteLikes(w) /\ UNCHANGED <<post, serving, stored, strayed>>
           \/ DeleteRow(w) /\ SetPost(serving[w], "ok") /\ Serves(w, NoConnection)
              /\ UNCHANGED <<stored, strayed>>
        /\ UNCHANGED <<kept, carries>>
  /\ UNCHANGED <<editor, typed>>
-----------------------------------------------------------------------------
(* The answers.                                                            *)

AlwaysSaved(kind) == 2                         \* seeded fault: never published
StatusAfter(kind) == IF kind = "save" THEN 2 ELSE 3
StepsOn(e, kind) == [e EXCEPT !.status = @ + 1, !.dirty = FALSE]   \* seeded fault
\* The callback of a save, or of the change of the status.
Saved(e, kind) == [e EXCEPT !.status = StatusAfter(kind), !.dirty = FALSE]

CloseEditor ==
  /\ editor' = ClosedEditor
  /\ post' = [k \in Connections |-> NoPost]
  /\ Disconnect(Connections)

DeliverAnswer(k) ==
  LET p == post[k] IN
  /\ \/ /\ p.state = "ok" /\ p.kind \in {"save", "status"}
        /\ editor' = Saved(editor, p.kind)
        /\ post' = [post EXCEPT ![k] = NoPost]
        /\ strayed' = strayed \cup {s \in {"status", "text"} : Overtakes(k)}
                              \cup {s \in {"text"} : Outdated(k)}
        /\ Delivered(k) /\ UNCHANGED serving
     \/ /\ p.state = "ok" /\ p.kind = "publish"
        /\ post' = [post EXCEPT ![k].kind = "status", ![k].state = "sent"]
        /\ Stray({"text"}, Outdated(k))
        /\ Delivered(k) /\ UNCHANGED <<serving, editor>>
     \/ /\ p.state = "failed" /\ p.kind # "delete"
        /\ post' = [post EXCEPT ![k] = NoPost]
        /\ Stray(Unheard(k), TRUE)
        /\ UNCHANGED <<browserVars, editor>>
     \/ /\ <<p.kind, p.state>> \in {<<"delete", "ok">>, <<"delete", "failed">>, <<"remove", "ok">>}
        /\ CloseEditor /\ NothingStrays
  /\ UNCHANGED <<vars, typed, kept, carries>>

PostFails(k) ==
  /\ post[k].state # "none" /\ post' = [post EXCEPT ![k] = NoPost]
  /\ Disconnect({k})
  /\ Stray(Unheard(k), TRUE)
  /\ UNCHANGED <<vars, editor, typed, kept, carries>>

\* The user goes back with nothing to discard, leaves the page or reloads it.
LeaveEditor ==
  /\ editor.state # "closed" /\ CloseEditor
  /\ UNCHANGED <<vars, typed, kept, carries, strayed>>

\* New entries, and requests that nobody waits for any more.
ElsewhereEdit(w) ==
  /\ serving[w] = NoConnection
  /\ \/ WritesContent(w) \/ LosesContent(w)
     \/ /\ CreateNew(w) \/ Publish(w) \/ Hide(w)
           \/ DeleteLikes(w) \/ DeleteRow(w)
        /\ UNCHANGED <<kept, carries>>
  /\ Stray({"status", "text"}, AtWork(w) /\ editor.state # "closed")
  /\ UNCHANGED <<browserVars, editor, post, typed>>

\* The server ends: requests that are sent or served fail, and drafts are removed.
RestartEdit ==
  LET K == {k \in Connections : post[k].state \in {"sent", "served"}} IN
  /\ Restart /\ Disconnect(K)
  /\ post' = [k \in Connections |-> IF k \in K THEN NoPost ELSE post[k]]
  /\ carries' = [w \in Workers |-> 0]
  /\ strayed' = strayed \cup {s \in {"status"} : news' # news} \cup UNION {Unheard(k) : k \in K}
  /\ UNCHANGED <<editor, typed, kept>>

EditNext ==
  \/ AskEditor \/ LoadEditor \/ TypeText \/ LeaveEditor \/ RestartEdit
  \/ \E k \in Connections : \/ ClickSave(k) \/ ClickPublish(k) \/ ClickRemove(k) \/ ClickBack(k)
                            \/ RefusePost(k) \/ DeliverAnswer(k) \/ PostFails(k)
  \/ \E w \in Workers : \/ \E k \in Connections : ServePost(w, k)
                        \/ ServeEdit(w) \/ ElsewhereEdit(w)

EditSpec == EditInit /\ [][EditNext]_allEditVars
-----------------------------------------------------------------------------
(* Properties.                                                             *)

\* The page never reads its entry again: every successful save or publication sets the
\* status and clears the mark of an unsaved text (edit.html:282, 354).  Once everything is
\* answered the status is the server's, and a text that is not marked is what the server
\* has.  The exceptions: an answer to something stored is lost or overtaken, two requests
\* are at the server at once, a save is stored by half, the second request of a publication
\* fails, the entry changes elsewhere; and of the text, that the user goes on typing while
\* a save is in flight, whose answer clears the mark all the same.
EditorAgrees ==
  Open /\ Pending = {} =>
    /\ "status" \in strayed \/ (Exists(Shown) /\ editor.status = news[Shown].status)
    /\ "text" \in strayed \/ editor.dirty \/ editor.text = kept

\* Leaving the page deletes an entry only if it was never saved (edit.html:242), with the
\* same exceptions: and unless a save was in flight when the user left.
DraftsOnly ==
  [][\A w \in Workers :
       At(w, "idle") /\ At(w, "likes")' /\ Exists(Shown) =>
         news[Shown].status = 1 \/ strayed' \cap {"status", "draft"} # {}]_allEditVars
=============================================================================
