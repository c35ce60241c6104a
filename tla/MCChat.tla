--------------------------------- MODULE MCChat ---------------------------------
(* An instance of Chat for TLC: two posts, in one conversation or in two. *)
EXTENDS Chat

CONSTANTS p1, p2

ConversationSymmetry == Permutations(Conversations)

W(stem, capital, ends) == [kind |-> "word", stem |-> stem, capital |-> capital, ends |-> ends]
MCCustomers == <<<<"hotel", "grad">>, <<"hotel", "grad", "objekat">>>>
MCDigits == <<{7}, {}>>
MCMaxSteps == [p \in {p1, p2} |-> IF p = p1 THEN 2 ELSE 0]
MCVisible == [p \in {p1, p2} |-> IF p = p1 THEN {1, 2} ELSE {1}]
\* "Marko Ana. Hotel Grad Objekat": a name nobody knows and the longer of two names;
\* "pad Hotel Grad": the name that is part of it
MCTexts == {<<W("marko", TRUE, FALSE), W("ana", TRUE, TRUE), W("hotel", TRUE, FALSE),
              W("grad", TRUE, FALSE), W("objekat", TRUE, FALSE)>>,
            <<W("pad", FALSE, FALSE), W("hotel", TRUE, FALSE), W("grad", TRUE, FALSE)>>}
=============================================================================
