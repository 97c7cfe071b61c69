-------------------------------- MODULE Pages --------------------------------
(***************************************************************************)
(* The browser of one user, who is at the page of an entry or at the page   *)
(* that edits it.                                                           *)
(***************************************************************************)
EXTENDS NewPage, EditPage

VARIABLE at     \* "entry" or "editor"

PagesInit == PageInit /\ EditInit /\ at \in {"entry", "editor"}

PagesNext ==
  \/ at = "entry" /\ PageNext /\ UNCHANGED <<editVars, at>>
  \/ at = "editor" /\ EditNext /\ UNCHANGED <<pageVars, at>>

PagesSpec == PagesInit /\ [][PagesNext]_<<vars, browserVars, pageVars, editVars, at>>
=============================================================================
