--------------------------- MODULE MCConversation ---------------------------
(* Instances of ConversationEngine for TLC.                                *)
EXTENDS ConversationEngine, TLC

CONSTANTS s1, s2, w1, w2, x1, d1

\* Two services that ask for free text; one with two questions answered by
\* buttons; one that asks for free text after a button.
TwoTexts       == (s1 :> <<2>>) @@ (s2 :> <<2>>)
TwoButtons     == (s1 :> <<0, 0>>)
ButtonThenText == (s1 :> <<0, 2>>)

\* Nothing has been sent at the start, or both templates.
SentNone == << >>
SentBoth == <<s1, s2>>

Symmetry == Permutations(Worker)
=============================================================================
