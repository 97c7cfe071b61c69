------------------------------- MODULE Browser -------------------------------
(***************************************************************************)
(* What the pages of the news application have in common: a page in the     *)
(* browser of one user is about one entry and sends its requests to the     *)
(* server's handlers (News), each on a connection of its own, so that they  *)
(* are served and answered in any order.  Callbacks run one at a time.  A   *)
(* request that fails on the way has no callback at all ($.post is given    *)
(* none for errors), and the server goes on with it.                        *)
(***************************************************************************)
EXTENDS News

CONSTANTS
  Shown,        \* the code of the entry
  Connections,  \* the browser's connections
  NoConnection

ASSUME BrowserAssumption ==
  /\ Shown \in Codes
  /\ NoConnection \notin Connections

VARIABLES
  serving,    \* [Workers -> the connection whose request it serves]
  stored      \* history: for a connection whose effect is stored and not delivered, the
              \* connections of which that holds up to this one, in the order of storing

browserVars == <<serving, stored>>

BrowserTypeOK ==
  /\ serving \in [Workers -> Connections \cup {NoConnection}]
  /\ stored \in [Connections -> SUBSET Connections]

BrowserInit ==
  /\ Init
  /\ serving = [w \in Workers |-> NoConnection]
  /\ stored = [k \in Connections |-> {}]
-----------------------------------------------------------------------------
Serves(w, k) == serving' = [serving EXCEPT ![w] = k]
IsStored(k) == stored[k] # {}
Stored(k) == stored' = [stored EXCEPT ![k] = {k} \cup {c \in Connections : IsStored(c)}]
Forgotten(K) == stored' = [k \in Connections |-> IF k \in K THEN {} ELSE stored[k] \ K]
Delivered(k) == Forgotten({k})
\* An answer to a request whose effect came after another one's, not yet delivered.
Overtakes(k) == stored[k] # {k}

\* The connections K are gone: their workers serve nobody.
Disconnect(K) ==
  /\ serving' = [w \in Workers |-> IF serving[w] \in K THEN NoConnection ELSE serving[w]]
  /\ Forgotten(K)
=============================================================================
