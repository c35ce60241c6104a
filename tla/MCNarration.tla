------------------------------- MODULE MCNarration -------------------------------
(* An instance of Narration for TLC. *)
EXTENDS Narration

MCCustomers == <<<<"aria">>, <<"hotel", "grad">>>>
MCDigits == <<{7}, {}>>

N(whole, point) == [whole |-> whole, point |-> point]
NumberField(n) == [key |-> "number", number |-> n]
MCData == {{[key |-> "customer_name", customer |-> 2], NumberField(N(12, <<5, 0>>))},
           {[key |-> "contact", number |-> N(33, <<>>)], NumberField(N(4, <<>>))}}
MCCounts == {N(3, <<>>), N(250, <<5, 0>>)}
MCScopes == {{1, 2}, {2}}

A(c, inflected) == [kind |-> "alias", of |-> c, inflected |-> inflected, ends |-> FALSE]
Num(n) == [kind |-> "number", number |-> n]
MCReplies == {<<A(1, TRUE)>>, <<A(1, FALSE), A(2, TRUE)>>, <<A(2, TRUE), Num(N(12, <<5>>))>>,
              <<Num(N(12, <<>>))>>, <<Num(N(12, <<9>>))>>, <<Num(N(33, <<>>))>>,
              <<Num(N(4, <<0>>)), A(1, FALSE)>>}
=============================================================================
