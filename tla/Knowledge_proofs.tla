----------------------------- MODULE Knowledge_proofs -----------------------------
(***************************************************************************)
(* Proofs about Knowledge, for any customers, names, captures, answers and *)
(* records: at most one active fact per slot, no loop of supersessions,    *)
(* nothing consequential in force unconfirmed, and no record that waits    *)
(* for a customer nobody is asked about.                                   *)
(*                                                                         *)
(* Activate is looked at first, for one activation or many in turn; what   *)
(* is said of the records by the rest follows action by action.            *)
(***************************************************************************)
EXTENDS Knowledge, SequenceTheorems, FiniteSetTheorems, WellFoundedInduction, TLAPS

------------------------------------------------------------------------------
(* Numbers and orders.                                                       *)

\* A set of natural numbers has a least element.
LEMMA LeastOne ==
  ASSUME NEW T, T \subseteq Nat, T # {}
  PROVE  \E x \in T : \A y \in T : x <= y
<1> DEFINE R == OpToRel(<, Nat)
<1>1. IsWellFoundedOn(R, Nat)  BY NatLessThanWellFounded
<1>2. \A x, y \in Nat : y < x => <<y, x>> \in R  BY DEF OpToRel
<1> HIDE DEF R
<1>3. \E x \in T : \A y \in T : ~(<<y, x>> \in R)  BY <1>1, WFMin
<1>4. PICK x \in T : \A y \in T : ~(<<y, x>> \in R)  BY <1>3
<1>5. ASSUME NEW y \in T PROVE x <= y
  <2>1. x \in Nat /\ y \in Nat  OBVIOUS
  <2>2. ~(y < x)  BY <1>2, <1>4, <2>1
  <2> QED  BY <2>1, <2>2
<1> QED  BY <1>5

\* A set of natural numbers with a bound has a greatest element.
LEMMA GreatestOne ==
  ASSUME NEW T, T \subseteq Nat, T # {}, NEW n \in Nat, \A x \in T : x <= n
  PROVE  \E x \in T : \A y \in T : y <= x
<1> DEFINE Bounds == {b \in Nat : \A y \in T : y <= b}
<1>1. n \in Bounds  OBVIOUS
<1>2. PICK b \in Bounds : \A c \in Bounds : b <= c
  BY <1>1, LeastOne
<1>3. CASE b \in T
  BY <1>2, <1>3
<1>4. CASE b \notin T
  <2>1. PICK t : t \in T  OBVIOUS
  <2>2. \A y \in T : y < b /\ y \in Nat  BY <1>2, <1>4
  <2>3. b - 1 \in Bounds  BY <2>1, <2>2
  <2> QED  BY <1>2, <2>3
<1> QED  BY <1>3, <1>4

\* An order of a finite set goes through its elements, each once.
LEMMA OrderLists ==
  ASSUME NEW S, IsFiniteSet(S), NEW turn \in Orders(S)
  PROVE  /\ \E n \in Nat : turn \in [1..n -> S] /\ DOMAIN turn = 1..n
         /\ turn \in Seq(S)
         /\ \A j, k \in DOMAIN turn : turn[j] = turn[k] => j = k
         /\ \A x \in S : \E k \in DOMAIN turn : turn[k] = x
<1>1. Cardinality(S) \in Nat  BY FS_CardinalityType
<1>2. PICK n \in Nat : n = Cardinality(S)  BY <1>1
<1>3. turn \in Bijection(1..n, S)  BY <1>2 DEF Orders
<1>4. /\ turn \in [1..n -> S]
      /\ \A j, k \in DOMAIN turn : turn[j] = turn[k] => j = k
      /\ \A x \in S : \E k \in 1..n : turn[k] = x
  BY <1>3 DEF Bijection, Injection, Surjection, IsInjective
<1> QED  BY <1>4

------------------------------------------------------------------------------
(* Activation.                                                               *)

\* The activations of distinct records.
Turns(recs, turn) ==
    /\ \E n \in Nat : DOMAIN turn = 1..n
    /\ \A k \in DOMAIN turn : turn[k].id \in DOMAIN recs
    /\ \A k, l \in DOMAIN turn : turn[k].id = turn[l].id => k = l

LEMMA Places ==
  ASSUME NEW recs, NEW turn, Turns(recs, turn)
  PROVE  /\ \A k \in DOMAIN turn : Place(turn, turn[k].id) = k
         /\ \A j : /\ Place(turn, j) \in Nat
                   /\ Place(turn, j) # 0 =>
                         Place(turn, j) \in DOMAIN turn /\ turn[Place(turn, j)].id = j
         /\ \A k \in DOMAIN turn : k \in Nat \ {0}
<1>1. \A k \in DOMAIN turn : k \in Nat \ {0}  BY DEF Turns
<1>2. ASSUME NEW k \in DOMAIN turn PROVE Place(turn, turn[k].id) = k
  BY <1>1 DEF Turns, Place
<1>3. ASSUME NEW j
      PROVE  /\ Place(turn, j) \in Nat
             /\ Place(turn, j) # 0 =>
                   Place(turn, j) \in DOMAIN turn /\ turn[Place(turn, j)].id = j
  <2>1. CASE \E k \in DOMAIN turn : turn[k].id = j
    BY <1>1, <2>1 DEF Place
  <2>2. CASE ~(\E k \in DOMAIN turn : turn[k].id = j)
    BY <2>2 DEF Place
  <2> QED  BY <2>1, <2>2
<1> QED  BY <1>1, <1>2, <1>3

\* The record that j is superseded by is the first of those that push it out.
LEMMA FirstOusting ==
  ASSUME NEW recs, NEW turn, Turns(recs, turn), NEW j, Ousting(recs, turn, j) # {}
  PROVE  LET k == CHOOSE k \in Ousting(recs, turn, j) : \A l \in Ousting(recs, turn, j) : k <= l
         IN  k \in Ousting(recs, turn, j)
<1>1. Ousting(recs, turn, j) \subseteq Nat
  BY Places DEF Ousting
<1>2. \E k \in Ousting(recs, turn, j) : \A l \in Ousting(recs, turn, j) : k <= l
  BY <1>1, LeastOne
<1> QED  BY <1>2

\* What becomes of each record.
LEMMA Activation ==
  ASSUME NEW recs \in Seq(Record), NEW turn, Turns(recs, turn)
  PROVE  LET new == Activate(recs, turn)
         IN  /\ DOMAIN new = DOMAIN recs /\ Len(new) = Len(recs) /\ new \in Seq(Record)
             /\ \A j \in DOMAIN recs :
                  /\ new[j].kind = recs[j].kind /\ new[j].owner = recs[j].owner
                  /\ new[j].mention = recs[j].mention /\ new[j].slot = recs[j].slot
                  /\ new[j].safe = recs[j].safe
                  /\ IF Ousting(recs, turn, j) # {}
                     THEN /\ new[j].status = "superseded"
                          /\ \E k \in Ousting(recs, turn, j) : new[j].by = turn[k].id
                     ELSE IF Place(turn, j) # 0 THEN new[j].status = "active"
                     ELSE new[j] = recs[j]
<1> DEFINE new == Activate(recs, turn)
<1>1. DOMAIN recs = 1..Len(recs) /\ Len(recs) \in Nat /\ \A j \in DOMAIN recs : recs[j] \in Record
  BY LenProperties, ElementOfSeq
<1>2. DOMAIN new = DOMAIN recs  BY DEF Activate
<1>3. ASSUME NEW j \in DOMAIN recs
      PROVE  /\ new[j] \in Record
             /\ new[j].kind = recs[j].kind /\ new[j].owner = recs[j].owner
             /\ new[j].mention = recs[j].mention /\ new[j].slot = recs[j].slot
             /\ new[j].safe = recs[j].safe
             /\ IF Ousting(recs, turn, j) # {}
                THEN /\ new[j].status = "superseded"
                     /\ \E k \in Ousting(recs, turn, j) : new[j].by = turn[k].id
                ELSE IF Place(turn, j) # 0 THEN new[j].status = "active"
                ELSE new[j] = recs[j]
  <2> DEFINE k == CHOOSE k \in Ousting(recs, turn, j) : \A l \in Ousting(recs, turn, j) : k <= l
  <2>1. new[j] = IF Ousting(recs, turn, j) # {}
                 THEN [recs[j] EXCEPT !.status = "superseded", !.by = turn[k].id]
                 ELSE IF Place(turn, j) = 0 THEN recs[j] ELSE [recs[j] EXCEPT !.status = "active"]
    BY DEF Activate, Heir
  <2>2. recs[j] \in Record  BY <1>1
  <2>3. CASE Ousting(recs, turn, j) # {}
    <3>1. k \in Ousting(recs, turn, j)  BY <2>3, FirstOusting
    <3>2. turn[k].id \in DOMAIN recs  BY <3>1 DEF Ousting, Turns
    <3>3. turn[k].id \in Nat  BY <1>1, <3>2
    <3> HIDE DEF new, k
    <3> QED  BY <2>1, <2>2, <2>3, <3>1, <3>3, ZenonT(60) DEF Record
  <2>4. CASE Ousting(recs, turn, j) = {}
    <3> HIDE DEF new, k
    <3> QED  BY <2>1, <2>2, <2>4, SMTT(30) DEF Record
  <2> QED  BY <2>3, <2>4
<1> HIDE DEF new
<1>4. new \in Seq(Record) /\ Len(new) = Len(recs)
  <2>1. new = [j \in 1..Len(recs) |-> new[j]]  BY <1>1, <1>2 DEF new, Activate
  <2>2. \A j \in 1..Len(recs) : new[j] \in Record  BY <1>1, <1>3
  <2>3. new \in [1..Len(recs) -> Record]  BY <2>1, <2>2
  <2>4. new \in Seq(Record)  BY <1>1, <2>3
  <2>5. DOMAIN new = 1..Len(new) /\ Len(new) \in Nat  BY <2>4, LenProperties
  <2> QED  BY <1>1, <1>2, <2>4, <2>5
<1> QED  BY <1>2, <1>3, <1>4 DEF new

\* Whatever is activated under its own key leaves no second active fact in a slot.
LEMMA ActivationUnique ==
  ASSUME NEW recs \in Seq(Record), NEW turn, Turns(recs, turn), FactsUnique(recs),
         \A k \in DOMAIN turn : turn[k] = Turn(turn[k].id, recs[turn[k].id])
  PROVE  FactsUnique(Activate(recs, turn))
<1> DEFINE new == Activate(recs, turn)
<1>1. /\ DOMAIN new = DOMAIN recs
      /\ \A j \in DOMAIN recs :
           /\ new[j].kind = recs[j].kind /\ new[j].owner = recs[j].owner
           /\ new[j].slot = recs[j].slot
           /\ IF Ousting(recs, turn, j) # {}
              THEN new[j].status = "superseded"
              ELSE IF Place(turn, j) # 0 THEN new[j].status = "active"
              ELSE new[j] = recs[j]
  BY Activation
<1> HIDE DEF new
<1>2. ASSUME NEW i \in DOMAIN recs, NEW j \in DOMAIN recs,
             new[i].kind = "fact", new[j].kind = "fact",
             new[i].status = "active", new[j].status = "active",
             new[i].owner = new[j].owner, new[i].owner # Nobody, new[i].slot = new[j].slot,
             i # j, Place(turn, i) <= Place(turn, j)
      PROVE  FALSE
  <2>1. /\ Ousting(recs, turn, i) = {} /\ Ousting(recs, turn, j) = {}
        /\ Place(turn, i) = 0 => recs[i].status = "active"
        /\ Place(turn, j) = 0 => recs[j].status = "active"
    BY <1>1, <1>2
  <2>2. CASE Place(turn, j) = 0
    <3>1. Place(turn, i) = 0  BY <1>2, <2>2, Places
    <3> QED  BY <1>1, <1>2, <2>1, <2>2, <3>1 DEF FactsUnique
  <2>3. CASE Place(turn, j) # 0
    <3>1. PICK l : l = Place(turn, j)  OBVIOUS
    <3>2. l \in DOMAIN turn /\ turn[l].id = j /\ l \in Nat /\ Place(turn, i) \in Nat
      BY <2>3, <3>1, Places
    <3>3. Place(turn, i) # l  BY <1>2, <2>3, <3>1, <3>2, Places
    <3>4. turn[l] = Turn(j, recs[j])  BY <3>2
    <3>5. Takes(turn[l], recs[i])  BY <1>1, <1>2, <3>4 DEF Takes, Turn
    <3>6. l \in Ousting(recs, turn, i)
      BY <1>2, <2>1, <3>1, <3>2, <3>3, <3>5 DEF Ousting
    <3> QED  BY <2>1, <3>6
  <2> QED  BY <2>2, <2>3
<1>3. ASSUME NEW i \in DOMAIN new, NEW j \in DOMAIN new,
             new[i].kind = "fact", new[j].kind = "fact",
             new[i].status = "active", new[j].status = "active",
             new[i].owner = new[j].owner, new[i].owner # Nobody, new[i].slot = new[j].slot
      PROVE  i = j
  <2>1. Place(turn, i) \in Nat /\ Place(turn, j) \in Nat  BY Places
  <2>2. Place(turn, i) <= Place(turn, j) \/ Place(turn, j) <= Place(turn, i)  BY <2>1
  <2> QED  BY <1>1, <1>2, <1>3, <2>2
<1> QED  BY <1>3 DEF FactsUnique, new

\* What is superseded names another record; followed from one to the next, the names come to
\* an end.
Superseded(recs) == {i \in DOMAIN recs : recs[i].status = "superseded"}
Chained(recs) ==
    /\ \A i \in Superseded(recs) : recs[i].by \in DOMAIN recs \ {i}
    /\ \A S \in SUBSET Superseded(recs) : S # {} => \E i \in S : recs[i].by \notin S

\* An activation starts no loop: of the records it pushes out, the one that was activated last
\* is superseded by one that stays.
LEMMA ActivationChains ==
  ASSUME NEW recs \in Seq(Record), NEW turn, Turns(recs, turn), Chained(recs)
  PROVE  Chained(Activate(recs, turn))
<1> DEFINE new == Activate(recs, turn)
<1>1. /\ DOMAIN new = DOMAIN recs
      /\ \A j \in DOMAIN recs :
           IF Ousting(recs, turn, j) # {}
           THEN /\ new[j].status = "superseded"
                /\ \E k \in Ousting(recs, turn, j) : new[j].by = turn[k].id
           ELSE IF Place(turn, j) # 0 THEN new[j].status = "active"
           ELSE new[j] = recs[j]
  BY Activation
<1> HIDE DEF new
<1>2. ASSUME NEW j, NEW k \in Ousting(recs, turn, j)
      PROVE  /\ k \in DOMAIN turn /\ turn[k].id # j /\ turn[k].id \in DOMAIN recs
             /\ Place(turn, turn[k].id) = k /\ k > Place(turn, j)
             /\ k \in Nat /\ Place(turn, j) \in Nat
  <2>1. k \in DOMAIN turn /\ k > Place(turn, j)  BY DEF Ousting
  <2>2. Place(turn, turn[k].id) = k /\ k \in Nat /\ Place(turn, j) \in Nat  BY <2>1, Places
  <2>3. turn[k].id # j  BY <2>1, <2>2
  <2> QED  BY <2>1, <2>2, <2>3 DEF Turns
<1>3. \A i \in Superseded(new) : new[i].by \in DOMAIN new \ {i}
  <2> SUFFICES ASSUME NEW i \in Superseded(new) PROVE new[i].by \in DOMAIN new \ {i}
    OBVIOUS
  <2>1. CASE Ousting(recs, turn, i) # {}
    BY <1>1, <1>2, <2>1 DEF Superseded
  <2>2. CASE Ousting(recs, turn, i) = {}
    <3>1. new[i] = recs[i] /\ i \in Superseded(recs)  BY <1>1, <2>2 DEF Superseded
    <3> QED  BY <1>1, <3>1 DEF Chained
  <2> QED  BY <2>1, <2>2
<1>4. ASSUME NEW S \in SUBSET Superseded(new), S # {} PROVE \E i \in S : new[i].by \notin S
  <2> DEFINE Ousted == {i \in S : Ousting(recs, turn, i) # {}}
             P == {Place(turn, i) : i \in Ousted}
  <2>1. CASE Ousted = {}
    <3>1. \A i \in S : new[i] = recs[i] /\ i \in Superseded(recs)
      BY <1>1, <2>1 DEF Superseded
    <3>2. PICK i \in S : recs[i].by \notin S  BY <1>4, <3>1 DEF Chained
    <3> QED  BY <3>1, <3>2
  <2>2. CASE Ousted # {}
    <3>1. PICK n \in Nat : DOMAIN turn = 1..n  BY DEF Turns
    <3>2. P \subseteq Nat /\ P # {} /\ \A x \in P : x <= n
      <4>1. \A i : Place(turn, i) \in Nat /\ Place(turn, i) <= n  BY <3>1, Places
      <4> QED  BY <2>2, <4>1
    <3>3. PICK x \in P : \A y \in P : y <= x  BY <3>2, GreatestOne
    <3>4. PICK i \in Ousted : x = Place(turn, i)  OBVIOUS
    <3>5. PICK k \in Ousting(recs, turn, i) : new[i].by = turn[k].id
      BY <1>1, <3>4 DEF Superseded
    <3>6. ASSUME turn[k].id \in S PROVE FALSE
      <4>1. /\ Place(turn, turn[k].id) = k /\ k > x /\ k \in Nat /\ x \in Nat
        BY <1>2, <3>4, <3>5
      <4>2. new[turn[k].id].status = "superseded" /\ turn[k].id \in DOMAIN recs
        BY <1>1, <3>6 DEF Superseded
      <4>3. Ousting(recs, turn, turn[k].id) # {}  BY <1>1, <4>1, <4>2
      <4>4. k \in P  BY <3>6, <4>1, <4>3
      <4> QED  BY <3>3, <4>1, <4>4
    <3> QED  BY <3>4, <3>5, <3>6
  <2> QED  BY <2>1, <2>2
<1> QED  BY <1>3, <1>4 DEF Chained, new

------------------------------------------------------------------------------
(* The invariant.                                                            *)

Tables ==
    /\ records \in Seq(Record)
    /\ questions \in Seq(Question)
    /\ aliases \in [Mentions -> Customers \cup {Nobody}]
    /\ decisions \subseteq Decision

\* What a request has read stays true of the records it found, whatever else becomes of them:
\* they bear the name of the question.
Reading(p) ==
    LET r == request[p]
    IN  /\ r.question \in 0..Len(questions) /\ r.choice \in Customers \cup {Nobody}
        /\ r = Free \/ r.question \in QuestionIds
        /\ \A i \in DOMAIN r.found :
              /\ i \in RecordIds /\ r.found[i].id = i
              /\ records[i].mention = questions[r.question].mention

Explained(i) ==
    records[i].status = "active" =>
      \/ Decided("confirmed", i) \in decisions
      \/ Decided("linked", records[i].mention) \in decisions
      \/ /\ Decided("saved", i) \in decisions
         /\ records[i].safe /\ records[i].mention = NoMention

\* A record that waits for its customer.
Waits(i) == records[i].status = "proposed" /\ records[i].owner = Nobody

\* Somebody is asked about record i: whoever has read that question has found the record.
Asking(i) ==
    \E q \in PendingQuestions :
      /\ questions[q].mention = records[i].mention
      /\ \A p \in Requests : request[p].question = q => i \in DOMAIN request[p].found
Settling(i) ==
    records[i].mention \in Ambiguous /\ Waits(i) =>
      Asking(i) \/ Decided("refused", records[i].mention) \in decisions

IInv ==
    /\ Tables
    /\ DOMAIN request = Requests
    /\ \A p \in Requests : Reading(p)
    /\ FactsUnique(records)
    /\ Chained(records)
    /\ \A i \in RecordIds : Explained(i) /\ Settling(i)

\* What no step takes back.
Later ==
    /\ \A i \in RecordIds : /\ i \in RecordIds' /\ records'[i].mention = records[i].mention
                            /\ Waits(i)' => Waits(i)
    /\ Len(questions) <= Len(questions')
    /\ \A q \in QuestionIds : q \in QuestionIds' /\ questions'[q].mention = questions[q].mention
    /\ decisions \subseteq decisions'

LEMMA ReadingKept ==
  ASSUME Tables, questions' \in Seq(Question), NEW p, Reading(p), Later, request'[p] = request[p]
  PROVE  Reading(p)'
<1>1. /\ Len(questions) \in Nat /\ Len(questions') \in Nat /\ QuestionIds = 1..Len(questions)
      /\ Len(questions) <= Len(questions')
  BY LenProperties DEF Tables, Later, QuestionIds
<1>2. request[p].question \in 0..Len(questions')  BY <1>1 DEF Reading
<1>3. ASSUME NEW i \in DOMAIN request[p].found
      PROVE  /\ i \in RecordIds' /\ request[p].found[i].id = i
             /\ records'[i].mention = questions'[request[p].question].mention
  <2>1. request[p] # Free  BY <1>3 DEF Free
  <2>2. request[p].question \in QuestionIds  BY <2>1 DEF Reading
  <2> QED  BY <2>2 DEF Reading, Later
<1> QED  BY <1>2, <1>3 DEF Reading, Later

\* A step that leaves the questions and the requests alone.
LEMMA ReviewKeeps ==
  ASSUME IInv, UNCHANGED <<questions, aliases, request>>,
         records' \in Seq(Record), RecordIds' = RecordIds,
         decisions \subseteq decisions', decisions' \subseteq Decision,
         \A i \in RecordIds : /\ records'[i].mention = records[i].mention
                              /\ records'[i].status = "proposed" => records[i].status = "proposed"
                              /\ records'[i].owner = Nobody => records[i].owner = Nobody,
         FactsUnique(records'), Chained(records'), \A i \in RecordIds : Explained(i)'
  PROVE  IInv'
<1>1. /\ Len(questions) \in Nat /\ QuestionIds' = QuestionIds /\ PendingQuestions' = PendingQuestions
  BY LenProperties DEF IInv, Tables, QuestionIds, PendingQuestions
<1>2. \A i \in RecordIds : Waits(i)' => Waits(i)  BY DEF Waits
<1>3. Later  BY <1>1, <1>2 DEF Later
<1>4. Tables'  BY DEF IInv, Tables
<1>5. \A p \in Requests : Reading(p)'
  BY <1>3, ReadingKept DEF IInv, Tables
<1>6. ASSUME NEW i \in RecordIds PROVE Settling(i)'
  <2>1. Asking(i) => Asking(i)'  BY <1>1 DEF Asking
  <2> QED  BY <1>2, <2>1 DEF IInv, Settling
<1> QED  BY <1>4, <1>5, <1>6 DEF IInv

------------------------------------------------------------------------------
(* The review queue.                                                         *)

LEMMA RecordTypes ==
  ASSUME IInv
  PROVE  /\ RecordIds = 1..Len(records) /\ Len(records) \in Nat
         /\ \A i \in RecordIds : records[i] \in Record
         /\ QuestionIds = 1..Len(questions) /\ Len(questions) \in Nat
         /\ \A q \in QuestionIds : questions[q] \in Question
BY LenProperties, ElementOfSeq DEF IInv, Tables, RecordIds, QuestionIds

LEMMA Explains ==
  ASSUME NEW i, Explained(i), decisions \subseteq decisions',
         records'[i].status = "active" => records[i].status = "active",
         records'[i].mention = records[i].mention, records'[i].safe = records[i].safe
  PROVE  Explained(i)'
BY DEF Explained

LEMMA ConfirmKeeps ==
  ASSUME IInv, NEW i \in RecordIds, Confirm(i)
  PROVE  IInv'
<1> DEFINE turn == <<Turn(i, records[i])>>
           new == Activate(records, turn)
<1>1. /\ records' = new /\ decisions' = decisions \cup {Decided("confirmed", i)}
      /\ UNCHANGED <<questions, aliases, request>>
  BY DEF Confirm, Log
<1>2. records \in Seq(Record) /\ FactsUnique(records) /\ Chained(records)
  BY DEF IInv, Tables
<1>3. /\ DOMAIN turn = 1..1 /\ \A k \in DOMAIN turn : turn[k].id = i /\ k = 1
      /\ \A k \in DOMAIN turn : turn[k] = Turn(turn[k].id, records[turn[k].id])
  BY DEF Turn
<1>4. Turns(records, turn)  BY <1>3 DEF Turns, RecordIds
<1> HIDE DEF turn
<1>5. /\ DOMAIN new = DOMAIN records /\ new \in Seq(Record)
      /\ \A j \in DOMAIN records :
           /\ new[j].owner = records[j].owner /\ new[j].mention = records[j].mention
           /\ new[j].safe = records[j].safe
           /\ IF Ousting(records, turn, j) # {} THEN new[j].status = "superseded"
              ELSE IF Place(turn, j) # 0 THEN new[j].status = "active"
              ELSE new[j] = records[j]
  BY <1>2, <1>4, Activation
<1>6. FactsUnique(new)  BY <1>2, <1>3, <1>4, ActivationUnique
<1>7. Chained(new)  BY <1>2, <1>4, ActivationChains
<1>8. ASSUME NEW j PROVE Place(turn, j) # 0 => j = i
  BY <1>3, <1>4, Places
<1> HIDE DEF new
<1>9. Decided("confirmed", i) \in Decision
  BY RecordTypes DEF Decided, Decision
<1>10. decisions \subseteq decisions' /\ decisions' \subseteq Decision
  BY <1>1, <1>9 DEF IInv, Tables
<1>11. ASSUME NEW j \in RecordIds PROVE Explained(j)'
  <2>1. CASE j = i
    BY <1>1, <2>1 DEF Explained
  <2>2. CASE j # i
    <3>1. records'[j].status = "active" => records[j].status = "active"
      BY <1>1, <1>5, <1>8, <2>2 DEF RecordIds
    <3>2. records'[j].mention = records[j].mention /\ records'[j].safe = records[j].safe
      BY <1>1, <1>5 DEF RecordIds
    <3> QED  BY <1>10, <3>1, <3>2, Explains DEF IInv
  <2> QED  BY <2>1, <2>2
<1>12. \A j \in RecordIds : /\ records'[j].mention = records[j].mention
                            /\ records'[j].status = "proposed" => records[j].status = "proposed"
                            /\ records'[j].owner = Nobody => records[j].owner = Nobody
  BY <1>1, <1>5 DEF RecordIds
<1>13. records' \in Seq(Record) /\ RecordIds' = RecordIds  BY <1>1, <1>5 DEF RecordIds
<1> QED  BY <1>1, <1>6, <1>7, <1>10, <1>11, <1>12, <1>13, ReviewKeeps

\* The superseded records of before, or fewer, with the same successors.
LEMMA ChainsShrink ==
  ASSUME NEW old, NEW new, Chained(old), DOMAIN old \subseteq DOMAIN new,
         \A i \in Superseded(new) : i \in Superseded(old) /\ new[i].by = old[i].by
  PROVE  Chained(new)
<1>1. \A i \in Superseded(new) : new[i].by \in DOMAIN new \ {i}  BY DEF Chained
<1>2. ASSUME NEW S \in SUBSET Superseded(new), S # {} PROVE \E i \in S : new[i].by \notin S
  <2>1. S \in SUBSET Superseded(old)  OBVIOUS
  <2>2. PICK i \in S : old[i].by \notin S  BY <1>2, <2>1 DEF Chained
  <2> QED  BY <2>2
<1> QED  BY <1>1, <1>2 DEF Chained

LEMMA ChangedRecord ==
  ASSUME IInv, NEW i \in RecordIds, NEW r \in Record
  PROVE  /\ [records EXCEPT ![i] = r] \in Seq(Record)
         /\ DOMAIN [records EXCEPT ![i] = r] = RecordIds
BY ExceptSeq, LenProperties DEF IInv, Tables, RecordIds

LEMMA RejectKeeps ==
  ASSUME IInv, NEW i \in RecordIds, Reject(i)
  PROVE  IInv'
<1> DEFINE r == [records[i] EXCEPT !.status = "rejected"]
<1>1. /\ records' = [records EXCEPT ![i] = r]
      /\ UNCHANGED <<questions, aliases, decisions, request>>
  BY DEF Reject
<1>2. r \in Record /\ records[i] \in Record  BY RecordTypes DEF Record
<1>3. /\ r.status = "rejected" /\ r.kind = records[i].kind /\ r.owner = records[i].owner
      /\ r.slot = records[i].slot /\ r.mention = records[i].mention /\ r.safe = records[i].safe
  BY <1>2 DEF Record
<1> HIDE DEF r
<1>4. records' \in Seq(Record) /\ RecordIds' = RecordIds
  BY <1>1, <1>2, ChangedRecord DEF RecordIds
<1>5. records'[i] = r /\ \A j \in RecordIds : j # i => records'[j] = records[j]
  BY <1>1 DEF RecordIds
<1>6. FactsUnique(records')
  BY <1>3, <1>4, <1>5 DEF IInv, FactsUnique, RecordIds
<1>7. Chained(records')
  <2>1. \A j \in Superseded(records') : j \in Superseded(records) /\ records'[j].by = records[j].by
    BY <1>3, <1>4, <1>5 DEF Superseded, RecordIds
  <2> QED  BY <1>4, <2>1, ChainsShrink DEF IInv, RecordIds
<1>8. ASSUME NEW j \in RecordIds PROVE Explained(j)'
  BY <1>1, <1>3, <1>5, Explains DEF IInv
<1>9. \A j \in RecordIds : /\ records'[j].mention = records[j].mention
                           /\ records'[j].status = "proposed" => records[j].status = "proposed"
                           /\ records'[j].owner = Nobody => records[j].owner = Nobody
  BY <1>3, <1>5
<1>10. decisions \subseteq decisions' /\ decisions' \subseteq Decision
  BY <1>1 DEF IInv, Tables
<1> QED  BY <1>1, <1>4, <1>6, <1>7, <1>8, <1>9, <1>10, ReviewKeeps

LEMMA EditKeeps ==
  ASSUME IInv, NEW i \in RecordIds, NEW customer \in Customers \cup {records[i].owner},
         NEW slot \in Slots, Edit(i, customer, slot)
  PROVE  IInv'
<1> DEFINE r == [records[i] EXCEPT !.owner = customer, !.slot = slot]
<1>1. /\ records' = [records EXCEPT ![i] = r] /\ FactsUnique(records')
      /\ UNCHANGED <<questions, aliases, decisions, request>>
  BY RecordTypes DEF Edit, RecordIds
<1>2. r \in Record /\ records[i] \in Record  BY RecordTypes DEF Record
<1>3. /\ r.status = records[i].status /\ r.by = records[i].by /\ r.owner = customer
      /\ r.mention = records[i].mention /\ r.safe = records[i].safe
  BY <1>2 DEF Record
<1> HIDE DEF r
<1>4. records' \in Seq(Record) /\ RecordIds' = RecordIds
  BY <1>1, <1>2, ChangedRecord DEF RecordIds
<1>5. records'[i] = r /\ \A j \in RecordIds : j # i => records'[j] = records[j]
  BY <1>1 DEF RecordIds
<1>6. Chained(records')
  <2>1. \A j \in Superseded(records') : j \in Superseded(records) /\ records'[j].by = records[j].by
    BY <1>3, <1>4, <1>5 DEF Superseded, RecordIds
  <2> QED  BY <1>4, <2>1, ChainsShrink DEF IInv, RecordIds
<1>7. ASSUME NEW j \in RecordIds PROVE Explained(j)'
  BY <1>1, <1>3, <1>5, Explains DEF IInv
<1>8. \A j \in RecordIds : /\ records'[j].mention = records[j].mention
                           /\ records'[j].status = "proposed" => records[j].status = "proposed"
                           /\ records'[j].owner = Nobody => records[j].owner = Nobody
  <2>1. customer = Nobody => records[i].owner = Nobody  BY KnowledgeAssumption
  <2> QED  BY <1>3, <1>5, <2>1
<1>9. decisions \subseteq decisions' /\ decisions' \subseteq Decision
  BY <1>1 DEF IInv, Tables
<1> QED  BY <1>1, <1>4, <1>6, <1>7, <1>8, <1>9, ReviewKeeps

------------------------------------------------------------------------------
(* Answers.                                                                  *)

LEMMA FreeReads ==
  /\ Free.question = 0 /\ Free.choice = Nobody /\ DOMAIN Free.found = {}
BY DEF Free

\* Whoever reads a question finds every record that waits under its name.
LEMMA ReadKeeps ==
  ASSUME IInv, NEW p \in Requests, NEW q \in QuestionIds,
         NEW choice \in Customers \cup {Nobody}, ReadQuestion(p, q, choice)
  PROVE  IInv'
<1> DEFINE found == {i \in RecordIds : Covered(records[i], questions[q].mention)}
           r == [question |-> q, choice |-> choice,
                 found |-> [i \in found |-> Turn(i, [records[i] EXCEPT !.owner = choice])]]
<1>1. request' = [request EXCEPT ![p] = r] /\ UNCHANGED <<records, questions, aliases, decisions>>
  BY DEF ReadQuestion
<1>2. /\ r.question = q /\ r.choice = choice /\ DOMAIN r.found = found
      /\ \A i \in found : r.found[i].id = i
  BY DEF Turn
<1> HIDE DEF r
<1>3. /\ DOMAIN request' = Requests /\ request'[p] = r
      /\ \A x \in Requests : x # p => request'[x] = request[x]
  BY <1>1 DEF IInv
<1>4. RecordIds' = RecordIds /\ QuestionIds' = QuestionIds /\ PendingQuestions' = PendingQuestions
  BY <1>1 DEF RecordIds, QuestionIds, PendingQuestions
<1>5. ASSUME NEW x \in Requests PROVE Reading(x)'
  <2>1. CASE x = p
    <3>1. q \in 0..Len(questions)  BY RecordTypes
    <3>2. \A i \in found : i \in RecordIds /\ records[i].mention = questions[q].mention
      BY DEF Covered
    <3> QED  BY <1>1, <1>2, <1>3, <1>4, <2>1, <3>1, <3>2 DEF Reading
  <2>2. CASE x # p
    BY <1>1, <1>3, <1>4, <2>2 DEF IInv, Reading
  <2> QED  BY <2>1, <2>2
<1>6. ASSUME NEW i \in RecordIds, records[i].mention \in Ambiguous, Waits(i), Asking(i)
      PROVE  Asking(i)'
  <2>1. PICK a \in PendingQuestions :
          /\ questions[a].mention = records[i].mention
          /\ \A x \in Requests : request[x].question = a => i \in DOMAIN request[x].found
    BY <1>6 DEF Asking
  <2>2. ASSUME NEW x \in Requests, request'[x].question = a
        PROVE  i \in DOMAIN request'[x].found
    <3>1. CASE x = p
      <4>1. a = q  BY <1>2, <1>3, <2>2, <3>1
      <4>2. i \in found  BY <1>6, <2>1, <4>1 DEF Covered, Waits
      <4> QED  BY <1>2, <1>3, <3>1, <4>2
    <3>2. CASE x # p
      BY <1>3, <2>1, <2>2, <3>2
    <3> QED  BY <3>1, <3>2
  <2> QED  BY <1>1, <1>4, <2>1, <2>2 DEF Asking
<1>7. ASSUME NEW i \in RecordIds PROVE Explained(i)' /\ Settling(i)'
  <2>1. Explained(i)'  BY <1>1 DEF IInv, Explained
  <2>2. Waits(i)' => Waits(i)  BY <1>1 DEF Waits
  <2> QED  BY <1>1, <1>6, <2>1, <2>2 DEF IInv, Settling
<1> QED  BY <1>1, <1>3, <1>4, <1>5, <1>7 DEF IInv, Tables

LEMMA RefuseKeeps ==
  ASSUME IInv, NEW p \in Requests, Refuse(p)
  PROVE  IInv'
<1>1. request' = [request EXCEPT ![p] = Free] /\ UNCHANGED <<records, questions, aliases, decisions>>
  BY DEF Refuse
<1>2. /\ DOMAIN request' = Requests /\ request'[p] = Free
      /\ \A x \in Requests : x # p => request'[x] = request[x]
  BY <1>1 DEF IInv
<1>3. RecordIds' = RecordIds /\ QuestionIds' = QuestionIds /\ PendingQuestions' = PendingQuestions
  BY <1>1 DEF RecordIds, QuestionIds, PendingQuestions
<1>4. ASSUME NEW x \in Requests PROVE Reading(x)'
  <2>1. CASE x = p
    <3>1. 0 \in 0..Len(questions)  BY RecordTypes
    <3> QED  BY <1>1, <1>2, <2>1, <3>1, FreeReads DEF Reading
  <2>2. CASE x # p
    BY <1>1, <1>2, <1>3, <2>2 DEF IInv, Reading
  <2> QED  BY <2>1, <2>2
<1>5. ASSUME NEW i \in RecordIds, Asking(i) PROVE Asking(i)'
  <2>1. PICK a \in PendingQuestions :
          /\ questions[a].mention = records[i].mention
          /\ \A x \in Requests : request[x].question = a => i \in DOMAIN request[x].found
    BY <1>5 DEF Asking
  <2>2. a # 0  BY RecordTypes DEF PendingQuestions
  <2>3. \A x \in Requests : request'[x].question = a => i \in DOMAIN request'[x].found
    BY <1>2, <2>1, <2>2, FreeReads
  <2> QED  BY <1>1, <1>3, <2>1, <2>3 DEF Asking
<1>6. ASSUME NEW i \in RecordIds PROVE Explained(i)' /\ Settling(i)'
  <2>1. Explained(i)'  BY <1>1 DEF IInv, Explained
  <2>2. Waits(i)' => Waits(i)  BY <1>1 DEF Waits
  <2> QED  BY <1>1, <1>5, <2>1, <2>2 DEF IInv, Settling
<1> QED  BY <1>1, <1>2, <1>3, <1>4, <1>6 DEF IInv, Tables

\* An answer closes its own question only: who was waiting for another one still is, and who
\* was waiting for this one was found when it was read.
LEMMA Answering ==
  ASSUME IInv, NEW p \in Requests, request[p] # Free, Answered(p), RecordIds' = RecordIds,
         \A i \in RecordIds : records'[i].mention = records[i].mention
  PROVE  /\ questions' \in Seq(Question) /\ QuestionIds' = QuestionIds
         /\ questions[request[p].question].mention \in Ambiguous
         /\ DOMAIN request' = Requests
         /\ \A x \in Requests : Reading(x)'
         /\ \A i \in RecordIds :
              Asking(i) => \/ Asking(i)'
                           \/ /\ i \in DOMAIN request[p].found
                              /\ records[i].mention = questions[request[p].question].mention
<1>1. PICK q \in QuestionIds : q = request[p].question
  BY DEF IInv, Reading
<1> DEFINE r == [questions[q] EXCEPT !.status = "answered"]
<1>2. questions' = [questions EXCEPT ![q] = r] /\ request' = [request EXCEPT ![p] = Free]
  BY <1>1 DEF Answered
<1>3. questions[q] \in Question /\ r \in Question /\ r.mention = questions[q].mention
  BY RecordTypes DEF Question
<1> HIDE DEF r
<1>4. questions' \in Seq(Question) /\ Len(questions') = Len(questions)
  BY <1>2, <1>3, ExceptSeq DEF IInv, Tables, QuestionIds
<1>5. /\ QuestionIds' = QuestionIds /\ questions'[q] = r
      /\ \A a \in QuestionIds : a # q => questions'[a] = questions[a]
  BY <1>2 DEF QuestionIds
<1>6. \A a \in QuestionIds : questions'[a].mention = questions[a].mention
  BY <1>3, <1>5
<1>7. /\ DOMAIN request' = Requests /\ request'[p] = Free
      /\ \A x \in Requests : x # p => request'[x] = request[x]
  BY <1>2 DEF IInv
<1>8. ASSUME NEW x \in Requests PROVE Reading(x)'
  <2>1. CASE x = p
    <3>1. 0 \in 0..Len(questions)  BY RecordTypes
    <3> QED  BY <1>4, <1>7, <2>1, <3>1, FreeReads DEF Reading
  <2>2. CASE x # p
    <3>1. request'[x] = request[x] /\ Reading(x)  BY <1>7, <2>2 DEF IInv
    <3>2. request[x].question \in 0..Len(questions')  BY <1>4, <3>1 DEF Reading
    <3>3. ASSUME NEW i \in DOMAIN request[x].found
          PROVE  /\ i \in RecordIds' /\ request[x].found[i].id = i
                 /\ records'[i].mention = questions'[request[x].question].mention
      <4>1. request[x] # Free  BY <3>3, FreeReads
      <4>2. request[x].question \in QuestionIds  BY <3>1, <4>1 DEF Reading
      <4> QED  BY <1>6, <3>1, <4>2 DEF Reading
    <3> QED  BY <1>5, <3>1, <3>2, <3>3 DEF Reading
  <2> QED  BY <2>1, <2>2
<1>9. ASSUME NEW i \in RecordIds, Asking(i),
             ~(i \in DOMAIN request[p].found /\ records[i].mention = questions[q].mention)
      PROVE  Asking(i)'
  <2>1. PICK a \in PendingQuestions :
          /\ questions[a].mention = records[i].mention
          /\ \A x \in Requests : request[x].question = a => i \in DOMAIN request[x].found
    BY <1>9 DEF Asking
  <2>2. a \in QuestionIds /\ a # q  BY <1>1, <1>9, <2>1 DEF PendingQuestions
  <2>3. a \in PendingQuestions'  BY <1>5, <2>2 DEF PendingQuestions
  <2>4. a # 0  BY <2>2, RecordTypes
  <2>5. \A x \in Requests : request'[x].question = a => i \in DOMAIN request'[x].found
    BY <1>7, <2>1, <2>4, FreeReads
  <2> QED  BY <1>6, <2>1, <2>2, <2>3, <2>5 DEF Asking
<1>10. questions[q].mention \in Ambiguous  BY <1>3 DEF Question
<1> QED  BY <1>1, <1>4, <1>5, <1>7, <1>8, <1>9, <1>10

LEMMA DeclineKeeps ==
  ASSUME IInv, NEW p \in Requests, Decline(p)
  PROVE  IInv'
<1> DEFINE mention == questions[request[p].question].mention
<1>1. /\ request[p] # Free /\ Answered(p) /\ UNCHANGED <<records, aliases>>
      /\ decisions' = decisions \cup {Decided("refused", mention)}
  BY DEF Decline, Log
<1>2. RecordIds' = RecordIds /\ \A i \in RecordIds : records'[i] = records[i]
  BY <1>1 DEF RecordIds
<1>3. /\ questions' \in Seq(Question) /\ mention \in Ambiguous
      /\ DOMAIN request' = Requests
      /\ \A x \in Requests : Reading(x)'
      /\ \A i \in RecordIds : Asking(i) => \/ Asking(i)'
                                           \/ records[i].mention = mention
  BY <1>1, <1>2, Answering
<1>4. Decided("refused", mention) \in Decision  BY <1>3 DEF Decided, Decision
<1>5. decisions \subseteq decisions' /\ decisions' \subseteq Decision
  BY <1>1, <1>4 DEF IInv, Tables
<1> HIDE DEF mention
<1>6. ASSUME NEW i \in RecordIds PROVE Explained(i)' /\ Settling(i)'
  <2>1. Explained(i)'  BY <1>2, <1>5, Explains DEF IInv
  <2>2. Waits(i)' => Waits(i)  BY <1>2 DEF Waits
  <2>3. Decided("refused", mention) \in decisions'  BY <1>1
  <2> QED  BY <1>2, <1>3, <1>5, <2>1, <2>2, <2>3 DEF IInv, Settling
<1> QED  BY <1>1, <1>2, <1>3, <1>5, <1>6 DEF IInv, Tables

\* Whatever has become of the records since, all that were found get the customer that was
\* chosen and are activated under that customer; what was superseded before keeps its heir or
\* gets one that was activated later.
LEMMA LinkKeeps ==
  ASSUME IInv, NEW p \in Requests, Link(p)
  PROVE  IInv'
<1> DEFINE found == request[p].found
           mention == questions[request[p].question].mention
           owned == [j \in RecordIds |-> IF j \in DOMAIN found
                                         THEN [records[j] EXCEPT !.owner = request[p].choice]
                                         ELSE records[j]]
           customer == request[p].choice
<1>1. PICK turn \in Orders(DOMAIN found) :
        records' = Activate(owned, [k \in DOMAIN turn |-> found[turn[k]]])
  BY DEF Link
<1>2. /\ Links(p) /\ FactsUnique(records') /\ LearnAlias(mention, customer) /\ Answered(p)
      /\ decisions' = decisions \cup {Decided("linked", mention)}
  BY DEF Link, Log
<1>3. /\ customer # Nobody /\ customer \in Customers /\ request[p] # Free
      /\ \A i \in DOMAIN found :
           i \in RecordIds /\ found[i].id = i /\ records[i].mention = mention
  BY <1>2, FreeReads DEF IInv, Reading, Links
<1> DEFINE activations == [k \in DOMAIN turn |-> found[turn[k]]]
           new == Activate(owned, activations)
<1>4. /\ owned \in Seq(Record) /\ DOMAIN owned = RecordIds
      /\ \A j \in RecordIds :
           /\ owned[j].status = records[j].status /\ owned[j].mention = records[j].mention
           /\ owned[j].by = records[j].by
           /\ j \in DOMAIN found => owned[j].owner = customer
           /\ j \notin DOMAIN found => owned[j] = records[j]
  <2>1. RecordIds = 1..Len(records) /\ Len(records) \in Nat /\ \A j \in RecordIds : records[j] \in Record
    BY RecordTypes
  <2>2. ASSUME NEW j \in RecordIds
        PROVE  /\ owned[j] \in Record
               /\ owned[j].status = records[j].status /\ owned[j].mention = records[j].mention
               /\ owned[j].by = records[j].by
               /\ j \in DOMAIN found => owned[j].owner = customer
               /\ j \notin DOMAIN found => owned[j] = records[j]
    BY <1>3, <2>1 DEF Record
  <2>3. DOMAIN owned = RecordIds  OBVIOUS
  <2>4. owned = [j \in RecordIds |-> owned[j]]  OBVIOUS
  <2> HIDE DEF owned
  <2>5. owned \in [1..Len(records) -> Record]  BY <2>1, <2>2, <2>4
  <2>6. owned \in Seq(Record)  BY <2>1, <2>5
  <2> QED  BY <2>2, <2>3, <2>6
<1> HIDE DEF owned
<1>5. Turns(owned, activations) /\ \A k \in DOMAIN activations : activations[k].id \in DOMAIN found
  <2>1. IsFiniteSet(DOMAIN found)
    <3>1. DOMAIN found \subseteq 1..Len(records) /\ Len(records) \in Nat  BY <1>3, RecordTypes
    <3>2. IsFiniteSet(1..Len(records))  BY <3>1, FS_Interval
    <3> QED  BY <3>1, <3>2, FS_Subset
  <2>2. /\ \E n \in Nat : DOMAIN turn = 1..n
        /\ turn \in Seq(DOMAIN found)
        /\ \A j, k \in DOMAIN turn : turn[j] = turn[k] => j = k
    BY <2>1, OrderLists
  <2>3. \A k \in DOMAIN turn : turn[k] \in DOMAIN found  BY <2>2, ElementOfSeq, LenProperties
  <2>4. \A k \in DOMAIN activations : activations[k].id = turn[k]  BY <1>3, <2>3
  <2>5. DOMAIN activations = DOMAIN turn  OBVIOUS
  <2> HIDE DEF activations, found
  <2>6. \A k \in DOMAIN activations : activations[k].id \in DOMAIN found /\ activations[k].id \in DOMAIN owned
    BY <1>3, <1>4, <2>3, <2>4, <2>5
  <2>7. \A k, l \in DOMAIN activations : activations[k].id = activations[l].id => k = l
    BY <2>2, <2>4, <2>5
  <2>8. \E n \in Nat : DOMAIN activations = 1..n  BY <2>2, <2>5
  <2> QED  BY <2>6, <2>7, <2>8 DEF Turns
<1> HIDE DEF activations
<1>6. records' = new  BY <1>1 DEF owned, activations
<1>7. Chained(new)
  <2>1. \A i \in Superseded(owned) : i \in Superseded(records) /\ owned[i].by = records[i].by
    BY <1>4 DEF Superseded, RecordIds
  <2>2. Chained(owned)  BY <1>4, <2>1, ChainsShrink DEF IInv, RecordIds
  <2> QED  BY <1>4, <1>5, <2>2, ActivationChains
<1>8. /\ DOMAIN new = RecordIds /\ new \in Seq(Record)
      /\ \A j \in RecordIds :
           /\ new[j].owner = owned[j].owner /\ new[j].mention = owned[j].mention
           /\ IF Ousting(owned, activations, j) # {} THEN new[j].status = "superseded"
              ELSE IF Place(activations, j) # 0 THEN new[j].status = "active"
              ELSE new[j] = owned[j]
  BY <1>4, <1>5, Activation
<1>9. \A j : Place(activations, j) # 0 => j \in DOMAIN found
  BY <1>5, Places
<1> HIDE DEF new
<1>10. RecordIds' = RecordIds /\ \A i \in RecordIds : records'[i].mention = records[i].mention
  BY <1>4, <1>6, <1>8 DEF RecordIds
<1>11. /\ questions' \in Seq(Question) /\ mention \in Ambiguous
       /\ DOMAIN request' = Requests
       /\ \A x \in Requests : Reading(x)'
       /\ \A i \in RecordIds : Asking(i) => Asking(i)' \/ i \in DOMAIN found
  BY <1>2, <1>3, <1>10, Answering
<1>12. Decided("linked", mention) \in Decision /\ Decided("linked", mention) \in decisions'
  BY <1>2, <1>11 DEF Decided, Decision
<1>13. decisions \subseteq decisions' /\ decisions' \subseteq Decision
  BY <1>2, <1>12 DEF IInv, Tables
<1>14. aliases' \in [Mentions -> Customers \cup {Nobody}]
  BY <1>2, <1>3 DEF LearnAlias, IInv, Tables
<1> HIDE DEF mention, found, customer
<1>15. ASSUME NEW i \in RecordIds PROVE Explained(i)'
  <2>1. CASE i \in DOMAIN found
    BY <1>3, <1>10, <1>12, <2>1 DEF Explained
  <2>2. CASE i \notin DOMAIN found
    <3>1. records'[i].status = "active" => records'[i] = records[i]
      BY <1>4, <1>6, <1>8, <1>9, <2>2
    <3> QED  BY <1>13, <3>1 DEF IInv, Explained
  <2> QED  BY <2>1, <2>2
<1>16. ASSUME NEW i \in RecordIds PROVE Settling(i)'
  <2>1. Waits(i)' => Waits(i) /\ i \notin DOMAIN found
    <3>1. SUFFICES ASSUME records'[i].status = "proposed", records'[i].owner = Nobody
                   PROVE  Waits(i) /\ i \notin DOMAIN found
      BY DEF Waits
    <3>2. new[i] = owned[i]  BY <1>6, <1>8, <3>1
    <3> QED  BY <1>3, <1>4, <1>6, <3>1, <3>2 DEF Waits
  <2> QED  BY <1>10, <1>11, <1>13, <2>1 DEF IInv, Settling
<1>17. records' \in Seq(Record)  BY <1>6, <1>8
<1> QED  BY <1>2, <1>7, <1>6, <1>10, <1>11, <1>13, <1>14, <1>15, <1>16, <1>17 DEF IInv, Tables

------------------------------------------------------------------------------
(* Captures.                                                                 *)

LEMMA Appended ==
  ASSUME NEW S, NEW s \in Seq(S), NEW n \in Nat, NEW t \in [1..n -> S]
  PROVE  /\ s \o t \in Seq(S) /\ Len(s \o t) = Len(s) + n /\ DOMAIN (s \o t) = 1..(Len(s) + n)
         /\ DOMAIN s = 1..Len(s) /\ Len(s) \in Nat
         /\ \A i \in DOMAIN s : (s \o t)[i] = s[i]
         /\ \A k \in 1..n : (s \o t)[Len(s) + k] = t[k]
<1>1. t \in Seq(S) /\ Len(t) = n  OBVIOUS
<1>2. Len(s) \in Nat /\ DOMAIN s = 1..Len(s)  BY LenProperties
<1>3. /\ s \o t \in Seq(S) /\ Len(s \o t) = Len(s) + Len(t)
      /\ \A i \in 1..(Len(s) + Len(t)) :
           (s \o t)[i] = IF i <= Len(s) THEN s[i] ELSE t[i - Len(s)]
  BY <1>1, ConcatProperties
<1>4. DOMAIN (s \o t) = 1..(Len(s) + n)  BY <1>1, <1>3, LenProperties
<1>5. \A i \in DOMAIN s : (s \o t)[i] = s[i]  BY <1>1, <1>2, <1>3
<1>6. ASSUME NEW k \in 1..n PROVE (s \o t)[Len(s) + k] = t[k]
  <2>1. /\ Len(s) + k \in 1..(Len(s) + Len(t)) /\ ~(Len(s) + k <= Len(s))
        /\ Len(s) + k - Len(s) = k
    BY <1>1, <1>2
  <2> QED  BY <1>3, <2>1
<1> QED  BY <1>1, <1>2, <1>3, <1>4, <1>5, <1>6

LEMMA BeyondOrWithin ==
  ASSUME NEW m \in Nat, NEW n \in Nat, NEW i \in 1..(m + n)
  PROVE  i \in 1..m \/ \E k \in 1..n : i = m + k
<1>1. CASE i <= m
  BY <1>1
<1>2. CASE ~(i <= m)
  <2>1. i - m \in 1..n /\ i = m + (i - m)  BY <1>2
  <2> QED  BY <2>1
<1> QED  BY <1>1, <1>2

LEMMA NewRecords ==
  ASSUME NEW seen \in [Mentions -> Customers \cup {Nobody}], NEW item \in Item
  PROVE  LET r == NewRecord(seen, item)
         IN  /\ r \in Record /\ r.status = "proposed" /\ r.safe = item.safe
             /\ r.owner = Nobody => Unresolved(seen, item) /\ r.mention = item.about
             /\ AutoSaves(seen, item) => r.safe /\ r.mention = NoMention
<1> DEFINE r == NewRecord(seen, item)
<1>1. /\ item.kind \in Kinds /\ item.about \in Customers \cup Mentions /\ item.slot \in Slots
      /\ item.safe \in BOOLEAN
  BY DEF Item
<1>2. Owner(seen, item) \in Customers \cup {Nobody}
  BY <1>1 DEF Owner
<1>3. Unresolved(seen, item) => item.about \in Mentions
  BY <1>1, KnowledgeAssumption DEF Unresolved, Owner
<1>4. AutoSaves(seen, item) => item.safe /\ ~Unresolved(seen, item)
  BY DEF AutoSaves, SavesFact, SavesEvent
<1>5. r.owner = Nobody <=> Unresolved(seen, item)
  BY DEF NewRecord, Unresolved
<1>6. /\ r.mention = IF Unresolved(seen, item) THEN item.about ELSE NoMention
      /\ r.status = "proposed" /\ r.safe = item.safe
  BY DEF NewRecord
<1>7. r \in Record
  <2>1. PICK m : m = IF Unresolved(seen, item) THEN item.about ELSE NoMention
    OBVIOUS
  <2>2. m \in Mentions \cup {NoMention}  BY <1>3, <2>1
  <2>3. r = [kind |-> item.kind, owner |-> Owner(seen, item), mention |-> m,
             slot |-> item.slot, safe |-> item.safe, status |-> "proposed", by |-> 0]
    BY <2>1 DEF NewRecord
  <2> HIDE DEF r
  <2> QED  BY <1>1, <1>2, <2>2, <2>3 DEF Record
<1> HIDE DEF r
<1>8. AutoSaves(seen, item) => r.safe /\ r.mention = NoMention
  BY <1>4, <1>6
<1> QED  BY <1>5, <1>6, <1>7, <1>8 DEF r

LEMMA AskedFinite ==
  ASSUME NEW items \in Seq(Item), NEW seen
  PROVE  IsFiniteSet(Asked(seen, items))
<1> DEFINE K == {k \in DOMAIN items : Unresolved(seen, items[k])}
           f == [k \in K |-> items[k].about]
<1>1. IsFiniteSet(K)
  <2>1. DOMAIN items = 1..Len(items) /\ Len(items) \in Nat  BY LenProperties
  <2>2. IsFiniteSet(DOMAIN items)  BY <2>1, FS_Interval
  <2> QED  BY <2>2, FS_Subset
<1>2. f \in Surjection(K, Named(seen, items))
  BY DEF Surjection, Named
<1>3. IsFiniteSet(Named(seen, items))  BY <1>1, <1>2, FS_Surjection
<1> QED  BY <1>3, FS_Subset DEF Asked

\* New records are proposed; those that are safe and resolved are activated in turn, and each
\* name that is ambiguous gets a question which no request has read.
LEMMA CaptureKeeps ==
  ASSUME IInv, NEW items \in Captures, NEW seen \in [Mentions -> Customers \cup {Nobody}],
         Capture(items, seen)
  PROVE  IInv'
<1> DEFINE Kept == {k \in DOMAIN items : Stored(seen, items[k])}
           old == Len(records)
<1>1. items \in Seq(Item) /\ DOMAIN items = 1..Len(items) /\ Len(items) \in Nat
  <2>1. items \in Seq(Item)  BY KnowledgeAssumption
  <2> QED  BY <2>1, LenProperties
<1>2. \A k \in DOMAIN items : items[k] \in Item  BY <1>1, ElementOfSeq
<1>3. PICK kept \in InTurn(Kept) :
        LET all == records \o [k \in DOMAIN kept |-> NewRecord(seen, items[kept[k]])]
            saved == {k \in DOMAIN kept : AutoSaves(seen, items[kept[k]])}
        IN /\ \E turn \in InTurn(saved) :
                records' = Activate(all, [k \in DOMAIN turn |-> Turn(old + turn[k], all[old + turn[k]])])
           /\ \E asked \in Orders(Asked(seen, items)) :
                questions' = questions
                   \o [k \in DOMAIN asked |-> [mention |-> asked[k], status |-> "pending"]]
           /\ decisions' = decisions \cup {Decided("saved", old + k) : k \in saved}
           /\ UNCHANGED <<aliases, request>>
  BY DEF Capture
<1> DEFINE fresh == [k \in DOMAIN kept |-> NewRecord(seen, items[kept[k]])]
           all == records \o fresh
           saved == {k \in DOMAIN kept : AutoSaves(seen, items[kept[k]])}
<1>4. IsFiniteSet(Kept)
  <2>1. IsFiniteSet(DOMAIN items)  BY <1>1, FS_Interval
  <2> QED  BY <2>1, FS_Subset
<1>5. PICK n \in Nat : DOMAIN kept = 1..n /\ kept \in [1..n -> Kept]
                       /\ \A x \in Kept : \E k \in 1..n : kept[k] = x
  <2>1. kept \in Orders(Kept)  BY DEF InTurn
  <2>2. \E n \in Nat : kept \in [1..n -> Kept] /\ DOMAIN kept = 1..n
    BY <1>4, <2>1, OrderLists
  <2>3. \A x \in Kept : \E k \in DOMAIN kept : kept[k] = x
    BY <1>4, <2>1, OrderLists
  <2> QED  BY <2>2, <2>3
<1>6. ASSUME NEW k \in 1..n
      PROVE  /\ fresh[k] \in Record /\ fresh[k].status = "proposed"
             /\ fresh[k].owner = Nobody =>
                  /\ Unresolved(seen, items[kept[k]]) /\ fresh[k].mention = items[kept[k]].about
             /\ k \in saved => fresh[k].safe /\ fresh[k].mention = NoMention
  <2>1. kept[k] \in DOMAIN items /\ items[kept[k]] \in Item  BY <1>2, <1>5
  <2>2. fresh[k] = NewRecord(seen, items[kept[k]])  BY <1>5
  <2> QED  BY <2>1, <2>2, NewRecords
<1>7. fresh = [k \in 1..n |-> fresh[k]]  BY <1>5
<1> HIDE DEF fresh
<1>8. /\ all \in Seq(Record) /\ DOMAIN all = 1..(old + n)
      /\ RecordIds = 1..old /\ old \in Nat
      /\ \A i \in RecordIds : all[i] = records[i]
      /\ \A k \in 1..n : all[old + k] = fresh[k]
      /\ \A i \in DOMAIN all : i \in RecordIds \/ \E k \in 1..n : i = old + k
  <2>1. records \in Seq(Record)  BY DEF IInv, Tables
  <2>2. fresh \in [1..n -> Record]  BY <1>6, <1>7
  <2>3. /\ all \in Seq(Record) /\ DOMAIN all = 1..(old + n)
        /\ DOMAIN records = 1..old /\ old \in Nat
        /\ \A i \in DOMAIN records : all[i] = records[i]
        /\ \A k \in 1..n : all[old + k] = fresh[k]
    <3> DEFINE R == Record
    <3>1. records \in Seq(R) /\ fresh \in [1..n -> R]  BY <2>1, <2>2
    <3> HIDE DEF R
    <3>2. \A k \in 1..n : all[old + k] = fresh[k]
      BY <3>1, Appended
    <3>3. \A i \in DOMAIN records : all[i] = records[i]
      BY <3>1, Appended
    <3>4. DOMAIN all = 1..(old + n) /\ all \in Seq(R)
      BY <3>1, Appended
    <3>5. DOMAIN records = 1..old /\ old \in Nat
      BY <3>1, Appended
    <3> QED BY <3>2, <3>3, <3>4, <3>5 DEF R
  <2> HIDE DEF all, old
  <2>4. \A i \in DOMAIN all : i \in DOMAIN records \/ \E k \in 1..n : i = old + k
    <3> SUFFICES ASSUME NEW i \in DOMAIN all
                 PROVE  i \in DOMAIN records \/ \E k \in 1..n : i = old + k
      OBVIOUS
    <3>1. i \in 1..(old + n) /\ old \in Nat /\ n \in Nat /\ DOMAIN records = 1..old
      BY <2>3
    <3>2. i \in 1..old \/ \E k \in 1..n : i = old + k
      BY ONLY <3>1, BeyondOrWithin
    <3> QED  BY <3>1, <3>2
  <2> QED  BY <2>3, <2>4 DEF RecordIds
<1> HIDE DEF all, old
<1>9. \A i \in DOMAIN all : all[i].status # "proposed" => i \in RecordIds
  <2> SUFFICES ASSUME NEW i \in DOMAIN all, i \notin RecordIds
               PROVE  all[i].status = "proposed"
    OBVIOUS
  <2>1. PICK k \in 1..n : i = old + k  BY <1>8
  <2>2. all[i] = fresh[k]  BY <1>8, <2>1
  <2> QED  BY <1>6, <2>2
<1>10. FactsUnique(all)
  BY <1>8, <1>9, ZenonT(60) DEF IInv, FactsUnique, RecordIds
<1>11. Chained(all)
  <2>1. \A i \in Superseded(all) : i \in Superseded(records) /\ all[i].by = records[i].by
    BY <1>8, <1>9 DEF Superseded, RecordIds
  <2>2. DOMAIN records \subseteq DOMAIN all  BY <1>8 DEF RecordIds
  <2> QED  BY <2>1, <2>2, ChainsShrink DEF IInv
<1>12. PICK turn \in InTurn(saved) :
         records' = Activate(all, [k \in DOMAIN turn |-> Turn(old + turn[k], all[old + turn[k]])])
  BY <1>3 DEF all, fresh
<1> DEFINE activations == [k \in DOMAIN turn |-> Turn(old + turn[k], all[old + turn[k]])]
           new == Activate(all, activations)
<1>13. /\ Turns(all, activations)
       /\ \A k \in DOMAIN activations : activations[k] = Turn(activations[k].id, all[activations[k].id])
       /\ \A k \in DOMAIN activations : \E l \in saved : activations[k].id = old + l
  <2>1. IsFiniteSet(saved)
    <3>1. IsFiniteSet(DOMAIN kept)  BY <1>5, FS_Interval
    <3> QED  BY <3>1, FS_Subset
  <2>2. turn \in Orders(saved)  BY DEF InTurn
  <2>3. /\ \E m \in Nat : turn \in [1..m -> saved] /\ DOMAIN turn = 1..m
        /\ \A j, k \in DOMAIN turn : turn[j] = turn[k] => j = k
    BY <2>1, <2>2, OrderLists
  <2>4. \A k \in DOMAIN turn : turn[k] \in saved /\ turn[k] \in 1..n
    BY <1>5, <2>3
  <2>5. DOMAIN activations = DOMAIN turn  OBVIOUS
  <2>6. \A k \in DOMAIN turn : activations[k].id = old + turn[k]  BY DEF Turn
  <2>7. \A k \in DOMAIN turn : activations[k] = Turn(activations[k].id, all[activations[k].id])
    BY <2>6
  <2> HIDE DEF activations
  <2>8. \A k \in DOMAIN activations : activations[k].id \in DOMAIN all
    BY <1>8, <2>4, <2>5, <2>6
  <2>9. \A k, l \in DOMAIN activations : activations[k].id = activations[l].id => k = l
    BY <1>8, <2>3, <2>4, <2>5, <2>6
  <2>10. \E m \in Nat : DOMAIN activations = 1..m  BY <2>3, <2>5
  <2> QED  BY <2>4, <2>5, <2>6, <2>7, <2>8, <2>9, <2>10 DEF Turns
<1>14. records' = new  BY <1>12
<1> HIDE DEF activations
<1>15. /\ DOMAIN new = DOMAIN all /\ new \in Seq(Record)
       /\ \A j \in DOMAIN all :
            /\ new[j].owner = all[j].owner /\ new[j].mention = all[j].mention
            /\ new[j].safe = all[j].safe
            /\ IF Ousting(all, activations, j) # {} THEN new[j].status = "superseded"
               ELSE IF Place(activations, j) # 0 THEN new[j].status = "active"
               ELSE new[j] = all[j]
  BY <1>8, <1>13, Activation
<1>16. FactsUnique(new)  BY <1>8, <1>10, <1>13, ActivationUnique
<1>17. Chained(new)  BY <1>8, <1>11, <1>13, ActivationChains
<1>18. \A j : Place(activations, j) # 0 => \E l \in saved : j = old + l
  BY <1>13, Places
<1> HIDE DEF new
<1>19. RecordIds' = 1..(old + n)  BY <1>8, <1>14, <1>15 DEF RecordIds
<1>20. ASSUME NEW i \in RecordIds
       PROVE  /\ i \in RecordIds' /\ i \in DOMAIN all
              /\ records'[i].mention = records[i].mention /\ records'[i].safe = records[i].safe
              /\ records'[i].status \in {"active", "proposed"} => records'[i] = records[i]
  <2>1. i \in DOMAIN all /\ all[i] = records[i]  BY <1>8
  <2>2. Place(activations, i) = 0
    <3>1. \A l \in saved : i # old + l  BY <1>5, <1>8
    <3> QED  BY <1>18, <3>1
  <2> QED  BY <1>8, <1>14, <1>15, <1>19, <2>1, <2>2
<1> DEFINE Questioned == Asked(seen, items)
<1>21. PICK asked \in Orders(Questioned) :
         questions' = questions \o [k \in DOMAIN asked |-> [mention |-> asked[k], status |-> "pending"]]
  BY <1>3
<1> DEFINE more == [k \in DOMAIN asked |-> [mention |-> asked[k], status |-> "pending"]]
<1>22. PICK m \in Nat : /\ DOMAIN asked = 1..m /\ asked \in [1..m -> Questioned]
                        /\ \A x \in Questioned : \E k \in 1..m : asked[k] = x
  <2>1. IsFiniteSet(Questioned)  BY <1>1, AskedFinite
  <2>2. \E m \in Nat : asked \in [1..m -> Questioned] /\ DOMAIN asked = 1..m
    BY <2>1, OrderLists
  <2>3. \A x \in Questioned : \E k \in DOMAIN asked : asked[k] = x
    BY <2>1, OrderLists
  <2> QED  BY <2>2, <2>3
<1>23. \A k \in 1..m : more[k] = [mention |-> asked[k], status |-> "pending"] /\ more[k] \in Question
  <2>1. Questioned \subseteq Ambiguous  BY DEF Asked
  <2> QED  BY <1>22, <2>1 DEF Question
<1>24. more = [k \in 1..m |-> more[k]]  BY <1>22
<1> HIDE DEF more, Questioned
<1>25. /\ questions' \in Seq(Question) /\ QuestionIds' = 1..(Len(questions) + m)
       /\ Len(questions') = Len(questions) + m
       /\ \A q \in QuestionIds : questions'[q] = questions[q]
       /\ \A k \in 1..m : questions'[Len(questions) + k] = more[k]
  <2>1. more \in [1..m -> Question]  BY <1>23, <1>24
  <2>2. questions \in Seq(Question)  BY DEF IInv, Tables
  <2>3. questions' = questions \o more  BY <1>21 DEF more
  <2> QED  BY <2>1, <2>2, <2>3, Appended DEF QuestionIds
<1>26. QuestionIds = 1..Len(questions) /\ Len(questions) \in Nat  BY RecordTypes
<1>27. QuestionIds \subseteq QuestionIds'  BY <1>25, <1>26
<1>28. /\ decisions' = decisions \cup {Decided("saved", old + k) : k \in saved}
       /\ UNCHANGED <<aliases, request>>
  BY <1>3
<1>29. decisions \subseteq decisions' /\ decisions' \subseteq Decision
  <2>1. \A k \in saved : Decided("saved", old + k) \in Decision
    BY <1>5, <1>8 DEF Decided, Decision
  <2> QED  BY <1>28, <2>1 DEF IInv, Tables
<1>30. Later
  <2>1. \A i \in RecordIds : Waits(i)' => Waits(i)  BY <1>20 DEF Waits
  <2> QED  BY <1>20, <1>25, <1>26, <1>27, <1>29, <2>1 DEF Later
<1>31. \A p \in Requests : Reading(p)'
  BY <1>25, <1>28, <1>30, ReadingKept DEF IInv
<1>32. ASSUME NEW i \in RecordIds PROVE Explained(i)' /\ Settling(i)'
  <2>1. Explained(i)'  BY <1>20, <1>29, Explains DEF IInv
  <2>2. Asking(i) => Asking(i)'
    BY <1>20, <1>25, <1>27, <1>28 DEF Asking, PendingQuestions
  <2>3. Waits(i)' => Waits(i)  BY <1>30 DEF Later
  <2> QED  BY <1>20, <1>29, <2>1, <2>2, <2>3 DEF IInv, Settling
<1>33. ASSUME NEW k \in 1..n, NEW i, i = old + k PROVE Explained(i)' /\ Settling(i)'
  <2>1. i \in DOMAIN all /\ all[i] = fresh[k]  BY <1>8, <1>33
  <2>2. ASSUME records'[i].status = "active" PROVE k \in saved
    <3>1. Place(activations, i) # 0  BY <1>6, <1>14, <1>15, <2>1, <2>2
    <3>2. PICK l \in saved : i = old + l  BY <1>18, <3>1
    <3>3. l = k  BY <1>5, <1>8, <1>33, <3>2
    <3> QED  BY <3>2, <3>3
  <2>3. Explained(i)'
    <3>1. SUFFICES ASSUME records'[i].status = "active"
                   PROVE  /\ Decided("saved", i) \in decisions'
                          /\ records'[i].safe /\ records'[i].mention = NoMention
      BY DEF Explained
    <3>2. k \in saved  BY <2>2, <3>1
    <3>3. fresh[k].safe /\ fresh[k].mention = NoMention  BY <1>6, <3>2
    <3>4. Decided("saved", i) \in decisions'  BY <1>28, <1>33, <3>2
    <3> QED  BY <1>14, <1>15, <2>1, <3>3, <3>4
  <2>4. Settling(i)'
    <3>1. SUFFICES ASSUME records'[i].mention \in Ambiguous,
                          records'[i].status = "proposed", records'[i].owner = Nobody
                   PROVE  Asking(i)'
      BY DEF Settling, Waits
    <3>2. /\ Unresolved(seen, items[kept[k]]) /\ records'[i].mention = items[kept[k]].about
          /\ kept[k] \in DOMAIN items
      BY <1>5, <1>6, <1>14, <1>15, <2>1, <3>1
    <3>3. records'[i].mention \in Questioned
      BY <3>1, <3>2 DEF Questioned, Asked, Named
    <3>4. PICK a \in 1..m : asked[a] = records'[i].mention  BY <1>22, <3>3
    <3>5. PICK q : q = Len(questions) + a  OBVIOUS
    <3>6. q \in QuestionIds' /\ questions'[q] = more[a] /\ q \notin 0..Len(questions)
      BY <1>25, <1>26, <3>5
    <3>7. questions'[q].status = "pending" /\ questions'[q].mention = records'[i].mention
      <4>1. more[a] = [mention |-> asked[a], status |-> "pending"]  BY <1>23, <3>4
      <4> QED  BY <3>4, <3>6, <4>1
    <3>8. \A p \in Requests : request'[p].question # q
      BY <1>28, <3>6 DEF IInv, Reading
    <3> QED  BY <3>6, <3>7, <3>8 DEF Asking, PendingQuestions
  <2> QED  BY <2>3, <2>4
<1>34. \A i \in RecordIds' : Explained(i)' /\ Settling(i)'
  <2>1. \A i \in RecordIds' : i \in RecordIds \/ \E k \in 1..n : i = old + k
    BY <1>8, <1>19
  <2> QED  BY <1>32, <1>33, <2>1
<1> QED  BY <1>14, <1>15, <1>16, <1>17, <1>25, <1>28, <1>29, <1>31, <1>34 DEF IInv, Tables

------------------------------------------------------------------------------
(* The theorems.                                                             *)

LEMMA InitHolds ==
  ASSUME Init
  PROVE  IInv
<1>1. records = <<>> /\ questions = <<>> /\ decisions = {}  BY DEF Init
<1>2. RecordIds = {} /\ QuestionIds = {} /\ Len(questions) = 0 /\ DOMAIN records = {}
  BY <1>1 DEF RecordIds, QuestionIds
<1>3. Tables
  BY <1>1 DEF Init, Tables
<1>4. DOMAIN request = Requests /\ \A p \in Requests : request[p] = Free
  BY DEF Init
<1>5. \A p \in Requests : Reading(p)
  BY <1>2, <1>4, FreeReads DEF Reading
<1>6. FactsUnique(records) /\ Chained(records)
  BY <1>2 DEF FactsUnique, Chained, Superseded
<1> QED  BY <1>2, <1>3, <1>4, <1>5, <1>6 DEF IInv

LEMMA StutterKeeps ==
  ASSUME IInv, UNCHANGED vars
  PROVE  IInv'
<1>1. UNCHANGED <<records, questions, aliases, decisions, request>>  BY DEF vars
<1>2. RecordIds' = RecordIds  BY <1>1 DEF RecordIds
<1>3. \A i \in RecordIds : Explained(i)'  BY <1>1 DEF IInv, Explained
<1>4. records' \in Seq(Record) /\ FactsUnique(records') /\ Chained(records')
  BY <1>1 DEF IInv, Tables
<1>5. decisions \subseteq decisions' /\ decisions' \subseteq Decision
  BY <1>1 DEF IInv, Tables
<1> QED  BY <1>1, <1>2, <1>3, <1>4, <1>5, ReviewKeeps

LEMMA NextKeeps ==
  ASSUME IInv, Next
  PROVE  IInv'
BY CaptureKeeps, ConfirmKeeps, RejectKeeps, EditKeeps, ReadKeeps, LinkKeeps, DeclineKeeps,
   RefuseKeeps DEF Next

\* What the four theorems below rest on: tables of their schemas, requests that have found
\* records of the name they asked about, one active fact per slot, supersessions without a
\* loop, an explanation for each active record, and somebody who is asked about each record
\* that waits, or has refused.
THEOREM Invariant == Spec => []IInv
<1>1. IInv /\ [Next]_vars => IInv'
  BY NextKeeps, StutterKeeps
<1> QED  BY <1>1, InitHolds, PTL DEF Spec

\* Captures, reviews and answers leave rows of the schema in every table, and whatever is
\* superseded names the other record it was superseded by.
THEOREM TypeCorrect == Spec => []TypeOK
<1>1. IInv => TypeOK
  BY DEF IInv, Tables, Reading, TypeOK, Chained, Superseded, RecordIds
<1> QED  BY <1>1, Invariant, PTL

\* However captures, confirmations, edits and answers interleave, no customer has two active
\* facts in one slot.
THEOREM OneFactPerSlot == Spec => []OneActivePerSlot
<1>1. IInv => OneActivePerSlot
  BY KnowledgeAssumption DEF IInv, FactsUnique, OneActivePerSlot, KnownFacts, RecordIds
<1> QED  BY <1>1, Invariant, PTL

\* No set of superseded facts refers only to itself, whatever old fact is activated again.
THEOREM SupersessionsEnd == Spec => []ChainsEnd
<1>1. IInv => ChainsEnd
  BY DEF IInv, Chained, Superseded, ChainsEnd, RecordIds
<1> QED  BY <1>1, Invariant, PTL

\* Whatever is active was confirmed, linked by an answer, or safe and resolved when saved.
THEOREM NothingSilent == Spec => []ConsequentialIsConfirmed
<1>1. IInv => ConsequentialIsConfirmed
  BY DEF IInv, Explained, ConsequentialIsConfirmed
<1> QED  BY <1>1, Invariant, PTL

\* Captures and answers that overlap lose no record that waits for its customer: its question
\* is open, or somebody has refused one about its name.
THEOREM NothingFallsThrough == Spec => []QuestionsStayOpen
<1>1. IInv => QuestionsStayOpen
  BY DEF IInv, Settling, Asking, Waits, QuestionsStayOpen, PendingRecords, Open
<1> QED  BY <1>1, Invariant, PTL

=============================================================================
