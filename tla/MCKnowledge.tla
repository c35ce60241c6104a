------------------------------- MODULE MCKnowledge -------------------------------
(* An instance of Knowledge for TLC: what is said is a fact, a fact twice, a fact and an
   event, about an ambiguous name - which is about a customer once its alias is learned -
   and an event with an edge of a customer. *)
EXTENDS Knowledge

TheItem(kind, about, safe) ==
    CHOOSE i \in [kind : {kind}, about : about, slot : Slots, safe : {safe}] : TRUE
Fact == TheItem("fact", Mentions, TRUE)
Event == TheItem("event", Mentions, FALSE)
Edge == TheItem("edge", Customers, FALSE)

FewCaptures == {<<Fact>>, <<Fact, Fact>>, <<Fact, Event>>, <<Event, Edge>>}
=============================================================================
