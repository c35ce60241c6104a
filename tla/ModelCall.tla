-------------------------------- MODULE ModelCall --------------------------------
(***************************************************************************)
(* What the service promises of every question it puts to the language     *)
(* model (llm/structured.py, llm/narration.py): only a validated output    *)
(* ever leaves the gateway, the best one there is, and the caller is       *)
(* refused only when there is none or when the gateway is down; any other  *)
(* failure is an exception, not a refusal, and yields no output.           *)
(***************************************************************************)
EXTENDS Naturals

CONSTANT Requests    \* the questions

VARIABLES
    status,    \* "new", "open", "answered", "refused" or "raised"
    valid,     \* the attempts whose outputs passed the validators
    answer,    \* the attempt whose output was returned, or 0
    outage     \* has the gateway been unavailable to this question?

question == <<status, valid, answer, outage>>

Init ==
    /\ status = [r \in Requests |-> "new"]
    /\ valid = [r \in Requests |-> {}]
    /\ answer = [r \in Requests |-> 0]
    /\ outage = [r \in Requests |-> FALSE]

Same(r) ==
    /\ status'[r] = status[r]
    /\ valid'[r] = valid[r]
    /\ answer'[r] = answer[r]
    /\ outage'[r] = outage[r]

Ask(r) ==
    /\ status[r] = "new"
    /\ status'[r] = "open"
    /\ valid'[r] = {} /\ answer'[r] = 0 /\ ~outage'[r]

\* A rejected attempt leaves the question as it is; a valid one may be held back.
Attempt(r) ==
    /\ status[r] = "open" /\ status'[r] = "open"
    /\ valid[r] \subseteq valid'[r]
    /\ answer'[r] = 0 /\ ~outage'[r]

\* The newest valid output is returned: it comes from the strongest tier that gave one.
Answer(r) ==
    /\ status[r] = "open" /\ status'[r] = "answered"
    /\ valid[r] \subseteq valid'[r]
    /\ answer'[r] \in valid'[r]
    /\ \A attempt \in valid'[r] : attempt <= answer'[r]
    /\ ~outage'[r]

Refuse(r) ==
    /\ status[r] = "open" /\ status'[r] = "refused"
    /\ valid'[r] = valid[r]
    /\ answer'[r] = 0
    /\ valid[r] = {} \/ outage'[r]

Raise(r) ==
    /\ status[r] = "open" /\ status'[r] = "raised"
    /\ valid[r] \subseteq valid'[r]
    /\ answer'[r] = 0 /\ ~outage'[r]

Next ==
    \E r \in Requests :
        /\ Ask(r) \/ Attempt(r) \/ Answer(r) \/ Refuse(r) \/ Raise(r)
        /\ \A other \in Requests \ {r} : Same(other)

Spec == Init /\ [][Next]_question
=============================================================================
