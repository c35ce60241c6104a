-------------------------------- MODULE Knowledge --------------------------------
(***************************************************************************)
(* What the system believes about its customers (valeri_api/kb): captured  *)
(* facts, events and edges between customers, the queue in which humans    *)
(* confirm, reject or edit them, and the questions about names that could  *)
(* mean several customers.                                                 *)
(*                                                                         *)
(* An answer to a question reads the records it covers and then updates    *)
(* them: two steps here, between which other requests commit.  A capture   *)
(* is one, but may have looked up a name before its alias was learned.     *)
(* The other requests are one step each.  Summaries are left out.          *)
(***************************************************************************)
EXTENDS Naturals, Sequences, FiniteSets, Functions

CONSTANTS
    Customers,     \* core.customer, the prospects an answer may create included
    Nobody,        \* customer_id IS NULL
    Mentions,      \* names as spoken, without a confident match of their own
    NoMention,     \* mentioned_name IS NULL
    Ambiguous,     \* the mentions that have candidates
    Slots,         \* fact_type and fact_key; the other end and rel_type of an edge
    Captures,      \* what the language model may extract from a text: sequences of items
    Requests,      \* the API's request threads that answer questions
    MaxRecords,    \* bound on the records
    MaxQuestions   \* bound on app.clarification

\* What the language model extracts.  An item names a customer who is in focus or matches
\* uniquely, or it names a mention; it is safe if its stakes are low and its confidence
\* high, which an edge never is.
Kinds == {"fact", "event", "edge"}
Item == {i \in [kind : Kinds, about : Customers \cup Mentions, slot : Slots, safe : BOOLEAN] :
           i.kind = "edge" => ~i.safe}

ASSUME KnowledgeAssumption ==
    /\ Nobody \notin Customers
    /\ NoMention \notin Mentions /\ Ambiguous \subseteq Mentions
    /\ Mentions \cap Customers = {}
    /\ Captures \subseteq Seq(Item)
    /\ MaxRecords \in Nat /\ MaxQuestions \in Nat

VARIABLES
    records,    \* client_fact, commercial_event and client_relationship, by id
    questions,  \* app.clarification: the mention and the status of each
    aliases,    \* app.customer_alias
    decisions,  \* app.decision, without order and multiplicity: what let a record take
                \* effect, and the matches that were refused
    request     \* what each request has read

vars == <<records, questions, aliases, decisions, request>>

RecordIds == DOMAIN records
QuestionIds == DOMAIN questions

\* What a human is shown: what waits in the queue (pending_queue), and what counts as known
\* of a customer (knowledge_for_customer).
PendingRecords == {i \in RecordIds : records[i].status = "proposed"}
PendingQuestions == {q \in QuestionIds : questions[q].status = "pending"}
KnownFacts(customer) ==
    {i \in RecordIds : /\ records[i].kind = "fact" /\ records[i].status = "active"
                       /\ records[i].owner = customer}

Free == [question |-> 0, choice |-> Nobody, found |-> <<>>]

------------------------------------------------------------------------------
(* Activation: merge_fact, _supersede_active_fact.                           *)

\* Does the activation a, of a record with the customer and the key it was read with, take
\* the slot of fact f?
Takes(a, f) ==
    /\ a.kind = "fact" /\ f.kind = "fact"
    /\ a.owner # Nobody
    /\ a.owner = f.owner /\ a.slot = f.slot

\* Activations happen in turn, and push out what is active or was activated before.
Place(turn, j) == IF \E k \in DOMAIN turn : turn[k].id = j
                  THEN CHOOSE k \in DOMAIN turn : turn[k].id = j ELSE 0
PriorRows(recs, turn, j) ==  \* mutant: one SELECT for the whole loop
    {k \in DOMAIN turn : Place(turn, j) = 0 /\ recs[j].status = "active" /\ Takes(turn[k], recs[j])}
Ousting(recs, turn, j) ==
    {k \in DOMAIN turn :
       /\ k > Place(turn, j)
       /\ Place(turn, j) = 0 => recs[j].status = "active"
       /\ Takes(turn[k], recs[j])}

\* What is pushed out of its slot is superseded, what is activated and stays is active.
OldestHeir(r, i) == IF r.by = 0 THEN i ELSE r.by  \* mutant: superseded_by is set once
Heir(r, i) == i
Activate(recs, turn) ==
    [j \in DOMAIN recs |->
       LET ousting == Ousting(recs, turn, j) IN
       IF ousting # {}
       THEN LET k == CHOOSE k \in ousting : \A l \in ousting : k <= l
            IN [recs[j] EXCEPT !.status = "superseded", !.by = Heir(recs[j], turn[k].id)]
       ELSE IF Place(turn, j) = 0 THEN recs[j] ELSE [recs[j] EXCEPT !.status = "active"]]

Turn(i, r) == [id |-> i, kind |-> r.kind, owner |-> r.owner, slot |-> r.slot]

\* ux_rel_dedup and ux_fact_active.
EdgesUnique(recs) ==
    \A i, j \in DOMAIN recs :
      /\ recs[i].kind = "edge" /\ recs[j].kind = "edge"
      /\ recs[i].status # "rejected" /\ recs[j].status # "rejected"
      /\ recs[i].owner = recs[j].owner /\ recs[i].slot = recs[j].slot
      => i = j
FactsUnique(recs) ==
    \A i, j \in DOMAIN recs :
      /\ recs[i].kind = "fact" /\ recs[j].kind = "fact"
      /\ recs[i].status = "active" /\ recs[j].status = "active"
      /\ recs[i].owner = recs[j].owner /\ recs[i].owner # Nobody
      /\ recs[i].slot = recs[j].slot
      => i = j

\* log_decision
Decided(what, on) == [what |-> what, on |-> on]
Log(what, on) == decisions' = decisions \cup {Decided(what, on)}

------------------------------------------------------------------------------
(* Captures: run_capture.                                                    *)

\* resolve_mention, for a name that has no match of its own: the alias that was learned, or
\* none if it was learned only after this capture had looked.
Seen(m) == {Nobody, aliases[m]}

Owner(seen, item) == IF item.about \in Customers THEN item.about ELSE seen[item.about]
Unresolved(seen, item) == Owner(seen, item) = Nobody

\* The graduated apply: a fact and an event are saved without a human if they are safe and
\* resolved; an edge waits for one, and is stored only if both of its ends are resolved.
SafeIsEnough(seen, item) == item.safe  \* mutant: attached to nobody
SavesFact(seen, item) == item.kind = "fact" /\ item.safe /\ ~Unresolved(seen, item)
SavesEvent(seen, item) == item.kind = "event" /\ item.safe /\ ~Unresolved(seen, item)
AutoSaves(seen, item) == SavesFact(seen, item) \/ SavesEvent(seen, item)
Stored(seen, item) == item.kind # "edge" \/ ~Unresolved(seen, item)

NewRecord(seen, item) ==
    [kind |-> item.kind, owner |-> Owner(seen, item),
     mention |-> IF Unresolved(seen, item) THEN item.about ELSE NoMention,
     slot |-> item.slot, safe |-> item.safe, status |-> "proposed", by |-> 0]

\* _clarify_for_mention: one question per ambiguous name and capture.
Open(m) == \E q \in PendingQuestions : questions[q].mention = m
Named(seen, items) == {items[k].about : k \in {k \in DOMAIN items : Unresolved(seen, items[k])}}
AskedOnce(seen, items) == {m \in Ambiguous \cap Named(seen, items) : ~Open(m)}
    \* mutant: a question that is open is not asked again
Asked(seen, items) == Ambiguous \cap Named(seen, items)
Orders(S) == Bijection(1..Cardinality(S), S)
InTurn(S) == {turn \in Orders(S) : \A j, k \in DOMAIN turn : j < k => turn[j] < turn[k]}

\* The items in their order; an edge with an open end is not stored.  An edge that is
\* known already breaks the index, and the whole capture is rolled back.
Capture(items, seen) ==
    \E kept \in InTurn({k \in DOMAIN items : Stored(seen, items[k])}) :
      LET n == Len(records)
          all == records \o [k \in DOMAIN kept |-> NewRecord(seen, items[kept[k]])]
          saved == {k \in DOMAIN kept : AutoSaves(seen, items[kept[k]])}
      IN /\ Len(all) <= MaxRecords
         /\ EdgesUnique(all)
         /\ \E turn \in InTurn(saved) :
              records' = Activate(all, [k \in DOMAIN turn |-> Turn(n + turn[k], all[n + turn[k]])])
         /\ \E asked \in Orders(Asked(seen, items)) :
              /\ Len(questions) + Len(asked) <= MaxQuestions
              /\ questions' = questions
                   \o [k \in DOMAIN asked |-> [mention |-> asked[k], status |-> "pending"]]
         /\ decisions' = decisions \cup {Decided("saved", n + k) : k \in saved}
         /\ UNCHANGED <<aliases, request>>

------------------------------------------------------------------------------
(* The review queue: confirm_item, reject_item, edit_item.  None of them     *)
(* looks at the status the record is in.                                     *)

Confirm(i) ==
    /\ records' = Activate(records, <<Turn(i, records[i])>>)
    /\ EdgesUnique(records')
    /\ Log("confirmed", i)
    /\ UNCHANGED <<questions, aliases, request>>

Reject(i) ==
    /\ records' = [records EXCEPT ![i].status = "rejected"]
    /\ UNCHANGED <<questions, aliases, decisions, request>>

\* A fact or an event gets another customer, a fact another key; an edge has neither.  The
\* index refuses an active fact in a slot that is taken.
Edit(i, customer, slot) ==
    /\ records[i].kind # "edge"
    /\ records[i].kind = "event" => slot = records[i].slot
    /\ records' = [records EXCEPT ![i].owner = customer, ![i].slot = slot]
    /\ FactsUnique(records')
    /\ UNCHANGED <<questions, aliases, decisions, request>>

------------------------------------------------------------------------------
(* Answers: answer_clarification.  It may have been answered already.        *)

\* _clarification_records
Covered(r, m) == r.mention = m /\ r.status = "proposed" /\ r.owner = Nobody

\* The choice is a customer, perhaps a new one, or Nobody: no match.
ReadQuestion(p, q, choice) ==
    /\ request[p] = Free
    /\ LET found == {i \in RecordIds : Covered(records[i], questions[q].mention)} IN
       request' = [request EXCEPT ![p] =
         [question |-> q, choice |-> choice,
          found |-> [i \in found |-> Turn(i, [records[i] EXCEPT !.owner = choice])]]]
    /\ UNCHANGED <<records, questions, aliases, decisions>>

Answered(p) ==
    /\ questions' = [questions EXCEPT ![request[p].question].status = "answered"]
    /\ request' = [request EXCEPT ![p] = Free]

Links(p) == request[p].choice # Nobody /\ DOMAIN request[p].found # {}

\* _write_alias: the name means this customer from now on.
LearnAlias(mention, customer) == aliases' = [aliases EXCEPT ![mention] = customer]

\* Every record that was found is linked and activated, whatever has become of it, and the
\* alias is learned.
Link(p) ==
    LET found == request[p].found
        mention == questions[request[p].question].mention
        owned == [j \in RecordIds |-> IF j \in DOMAIN found
                                      THEN [records[j] EXCEPT !.owner = request[p].choice]
                                      ELSE records[j]]
    IN /\ Links(p)
       /\ \E turn \in Orders(DOMAIN found) :
            records' = Activate(owned, [k \in DOMAIN turn |-> found[turn[k]]])
       /\ FactsUnique(records')
       /\ LearnAlias(mention, request[p].choice)
       /\ Log("linked", mention)
       /\ Answered(p)

\* No match, or nothing left to link.
Decline(p) ==
    /\ request[p] # Free /\ ~Links(p)
    /\ Log("refused", questions[request[p].question].mention)
    /\ Answered(p)
    /\ UNCHANGED <<records, aliases>>

\* An exception rolls the transaction back.
Refuse(p) ==
    /\ request[p] # Free
    /\ request' = [request EXCEPT ![p] = Free]
    /\ UNCHANGED <<records, questions, aliases, decisions>>

------------------------------------------------------------------------------
Init ==
    /\ records = <<>> /\ questions = <<>> /\ decisions = {}
    /\ aliases = [m \in Mentions |-> Nobody]
    /\ request = [p \in Requests |-> Free]

Next == \/ \E items \in Captures :
             \E seen \in [Mentions -> Customers \cup {Nobody}] :
               /\ \A m \in Mentions : seen[m] \in Seen(m)
               /\ Capture(items, seen)
        \/ \E i \in RecordIds : Confirm(i)
        \/ \E i \in RecordIds : Reject(i)
        \/ \E i \in RecordIds : \E customer \in Customers \cup {records[i].owner}, slot \in Slots :
             Edit(i, customer, slot)
        \/ \E p \in Requests, q \in QuestionIds, choice \in Customers \cup {Nobody} :
             ReadQuestion(p, q, choice)
        \/ \E p \in Requests : Link(p)
        \/ \E p \in Requests : Decline(p)
        \/ \E p \in Requests : Refuse(p)

Spec == Init /\ [][Next]_vars
------------------------------------------------------------------------------
(* Properties.                                                               *)

Record == [kind : Kinds, owner : Customers \cup {Nobody}, mention : Mentions \cup {NoMention},
           slot : Slots, safe : BOOLEAN,
           status : {"proposed", "active", "superseded", "rejected"}, by : Nat]
Question == [mention : Ambiguous, status : {"pending", "answered"}]
Decision == [what : {"saved", "confirmed"}, on : Nat \ {0}]
              \cup [what : {"linked", "refused"}, on : Ambiguous]

\* Every table holds rows of its schema, and what is superseded names what it was
\* superseded by.
TypeOK ==
    /\ records \in Seq(Record)
    /\ questions \in Seq(Question)
    /\ aliases \in [Mentions -> Customers \cup {Nobody}]
    /\ decisions \subseteq Decision
    /\ \A p \in Requests : request[p].question \in 0..Len(questions)
    /\ \A i \in RecordIds : records[i].status = "superseded" => records[i].by \in RecordIds \ {i}

\* "There is always at most one active fact per key": the panel of a customer never shows two
\* values of one slot, although nothing but an edit or an overlap relies on the index:
\* whatever activates a fact frees its slot first.
OneActivePerSlot ==
    \A customer \in Customers : \A i, j \in KnownFacts(customer) :
      records[i].slot = records[j].slot => i = j

\* "prior.superseded_by": who follows a superseded fact to the one that replaced it, and so
\* on, comes to a fact that was not replaced - also after old facts were confirmed anew,
\* edited or linked.  No set of superseded facts refers only to itself.
ChainsEnd ==
    \A S \in SUBSET {i \in RecordIds : records[i].status = "superseded"} :
      S # {} => \E i \in S : records[i].by \notin S

\* "Nothing consequential is ever applied silently": what is active was confirmed by a
\* human or linked by an answer, or was safe, resolved and put on record when it was saved.
ConsequentialIsConfirmed ==
    \A i \in RecordIds : records[i].status = "active" =>
      \/ Decided("confirmed", i) \in decisions
      \/ Decided("linked", records[i].mention) \in decisions
      \/ /\ Decided("saved", i) \in decisions
         /\ records[i].safe /\ records[i].mention = NoMention

\* "Any ambiguity requires confirmation", and nothing falls through: while a record waits for
\* the customer it is about, a question about its name is open or somebody has refused one,
\* whatever captures and answers overlap.
QuestionsStayOpen ==
    \A i \in PendingRecords :
      records[i].mention \in Ambiguous /\ records[i].owner = Nobody
      => \/ Open(records[i].mention)
         \/ Decided("refused", records[i].mention) \in decisions
=============================================================================
