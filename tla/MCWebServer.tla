---------------------------- MODULE MCWebServer ----------------------------
(* Two workers, one page and the forms that browsers and broken            *)
(* connections send.                                                       *)
EXTENDS WebServer, TLC

Entry(type, dll, uri) == [type |-> type, dll |-> dll, uri |-> uri]
ShippedHandlers ==
  <<Entry("before", "parser", None), Entry("after", "parser", None),
    Entry("before", "np", None), Entry("after", "np", None),
    Entry("uri", "np", Upload)>>
ASSUME ShippedHandlersAreShipped == Shipped

\* A value whose text reads like headers with a file name.
Value == [file |-> FALSE, data |-> <<"f">>]
Picture == [file |-> TRUE, data |-> <<"d", "n", "d", "d", "d">>]
Empty == [file |-> TRUE, data |-> <<>>]
Cut(form, n) == SubSeq(Encode(form), 1, Len(Encode(form)) - n)
TimedForms == {Cut(<<Value, Empty>>, 0), Cut(<<Picture>>, 1)}
Forms == TimedForms \cup {Cut(<<Value, Picture>>, 0), Cut(<<Value>>, 1)}
Sent(uri, user, form) ==
  [uri |-> uri, user |-> user, form |-> form, timed |-> form \in TimedForms]
SomeRequests ==
  {Sent("page", FALSE, <<>>), Sent(Index, TRUE, <<>>), Sent(Upload, FALSE, <<>>)}
    \cup {Sent(Upload, TRUE, form) : form \in Forms}
\* The theorem about forms is about these too: a browser sends them.
ASSUME FormsAreSent ==
  \A form \in Forms : \E parts \in {<<Value, Empty>>, <<Value, Picture>>, <<Picture>>, <<Value>>} :
    parts \in Seq(FormPart) \ {<<>>} /\ Arrives(form, parts)
SomePages == {"page"}
SomeProtected == {Upload}
Symmetry == Permutations(Workers)
=============================================================================
