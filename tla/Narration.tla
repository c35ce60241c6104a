-------------------------------- MODULE Narration --------------------------------
(***************************************************************************)
(* A reply of the chat that the language model narrates, about a tool's    *)
(* output (conversation/answer.py) or, when no tool fits, about a few      *)
(* facts of the user's own picture (conversation/assistant.py).  The data  *)
(* are masked, the model writes something, the number contract accepts it  *)
(* or not, and what is accepted is shown with the names in it; what is not *)
(* is replaced by a template that formats the data.  A proposed rule is    *)
(* shown by a template around the description that the model wrote of it,  *)
(* which has passed the contract with the user's own words as its data.    *)
(***************************************************************************)
EXTENDS Masking, FiniteSets

CONSTANTS
    Data,          \* the outputs of tools: sets of fields
    Counts,        \* the numbers that the user's picture may have
    Scopes,        \* visible_customer_ids of the users; Ids stands for an unscoped one
    AtRisk,        \* the customers with an open signal of decline
    Replies        \* what the model may write

VARIABLES
    stage,      \* "new", "asked", "llm" or "template"
    data,       \* the output or the bundle
    known,      \* the customers whose pseudonyms the MaskingContext has
    shown       \* what the reader sees

vars == <<stage, data, known, shown>>

Init == stage = "new" /\ data = {} /\ known = {} /\ shown = <<>>

Fixed == {[key |-> "text"]}                  \* a text that no data is in

\* What a tool refused or failed at gets a fixed text; so do an investigation that was queued
\* and the capabilities: there is no text of the model in those templates.
Refuse ==
    /\ stage = "new"
    /\ stage' = "template"
    /\ data' = Fixed
    /\ UNCHANGED <<known, shown>>

\* The pseudonyms of these customers stand in the payload beside the data.
About(customers) == {[key |-> "asked_about", customer |-> c] : c \in customers}
NumberFields(numbers) == {[key |-> "number", number |-> n] : n \in numbers}

\* propose_rule_change: the description is an output of narrate_structured about the masked
\* reason, and the template adds the number of signals the rule would hide.  Nothing is
\* rehydrated.
ShowProposal(reason, mentioned, description, effect) ==
    /\ stage = "new"
    /\ Violations(description, NumberFields(reason) \cup About(mentioned)) = {}
    /\ stage' = "template"
    /\ data' = NumberFields(reason \cup {effect}) \cup About(mentioned)
    /\ shown' = Append(description, [kind |-> "number", number |-> effect])
    /\ UNCHANGED known

\* Up to the call; the message has registered some customers already.
Asked(d, mentioned) ==
    /\ stage = "new"
    /\ stage' = "asked"
    /\ data' = d
    /\ known' = mentioned \cup NamedIn(d)
    /\ UNCHANGED shown

\* narrate_answer: kupci_u_pitanju are all the pseudonyms registered so far.
AskAboutOutput(d, mentioned) == Asked(d \cup About(mentioned \cup NamedIn(d)), mentioned)

\* _context_bundle: the open signals and tasks, at most three visible customers at risk, and
\* the company's turnover for those who see all of it.
Bundle(scope, signals, tasks, turnover, risky) ==
    NumberFields({signals, tasks})
      \cup NumberFields({turnover : all \in {scope} \cap {Ids}})
      \cup {[key |-> "customer_name", customer |-> c] : c \in risky}
AskAssistant(scope, mentioned) ==
    \E signals, tasks, turnover \in Counts, risky \in SUBSET (AtRisk \cap scope) :
        /\ Cardinality(risky) = IF Cardinality(AtRisk \cap scope) < 3
                                THEN Cardinality(AtRisk \cap scope) ELSE 3
        /\ Asked(Bundle(scope, signals, tasks, turnover, risky), mentioned)

\* _template_answer and _assistant_template format values of the data, none of which is
\* computed; a template shows some of the fields.
Template(fields) ==
    LET token(f) == IF f.key = "number" THEN [kind |-> "number", number |-> f.number]
                    ELSE [kind |-> "name", of |-> f.customer]
        said == SetToSeq({f \in fields : f.key \in {"number", "customer_name"}})
    IN  [i \in DOMAIN said |-> token(said[i])]

Reply(tokens) ==
    /\ stage = "asked"
    /\ IF Violations(tokens, data) = {}
       THEN stage' = "llm" /\ shown' = Rehydrate(tokens, known)
       ELSE \E fields \in SUBSET data : stage' = "template" /\ shown' = Template(fields)
    /\ UNCHANGED <<data, known>>

Next ==
    \/ Refuse
    \/ \E reason \in SUBSET Counts, mentioned \in SUBSET Ids, description \in Replies,
          effect \in Counts : ShowProposal(reason, mentioned, description, effect)
    \/ \E d \in Data, mentioned \in SUBSET Ids : AskAboutOutput(d, mentioned)
    \/ \E scope \in Scopes, mentioned \in SUBSET Ids : AskAssistant(scope, mentioned)
    \/ \E tokens \in Replies : Reply(tokens)

Spec == Init /\ [][Next]_vars

------------------------------------------------------------------------------

\* llm/validators.py:3-5: every number in a narration exists in the payload, in digits that
\* differ at most by trailing zeros, or as the integer part alone.
NumbersComeFromTheData ==
    \A i \in DOMAIN shown : shown[i].kind = "number" =>
        \E f \in data :
            /\ f.key = "number"
            /\ \/ Normalised(shown[i].number) \subseteq Normalised(f.number)
               \/ Stripped(shown[i].number.point) = Stripped(f.number.point)
                     /\ shown[i].number.whole = f.number.whole
=============================================================================
