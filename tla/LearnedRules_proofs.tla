-------------------------- MODULE LearnedRules_proofs --------------------------
(***************************************************************************)
(* Proofs about LearnedRules, for every set of thresholds, values and      *)
(* proposals and every bound: that the decision log explains the values in *)
(* force and the status of every rule, that flags are raised once, keeps   *)
(* respected, and that undos in reverse order restore the value of before. *)
(***************************************************************************)
EXTENDS LearnedRules, SequenceTheorems, FiniteSetTheorems, WellFoundedInduction, TLAPS

------------------------------------------------------------------------------
(* Rows and orders.                                                          *)

\* The ids of a table are an interval.
LEMMA IdsOfSeq ==
  ASSUME NEW S, NEW s \in Seq(S)
  PROVE  /\ Len(s) \in Nat
         /\ DOMAIN s = 1..Len(s)
         /\ \A i \in DOMAIN s : s[i] \in S
BY LenProperties, ElementOfSeq

\* A set of row ids is finite.
LEMMA IdsAreFinite ==
  ASSUME NEW S, NEW s \in Seq(S), NEW ids \in SUBSET DOMAIN s
  PROVE  IsFiniteSet(ids)
<1>1. DOMAIN s = 1..Len(s) /\ Len(s) \in Nat  BY IdsOfSeq
<1>2. IsFiniteSet(1..Len(s))  BY <1>1, FS_Interval
<1> QED  BY <1>1, <1>2, FS_Subset

\* An order of a finite set lists each of its elements once.
LEMMA OrderLists ==
  ASSUME NEW S, IsFiniteSet(S), NEW order \in Orders(S)
  PROVE  /\ order \in Seq(S)
         /\ DOMAIN order = 1..Len(order)
         /\ \A s \in S : \E i \in DOMAIN order : order[i] = s
         /\ \A i, j \in DOMAIN order : order[i] = order[j] => i = j
<1>1. Cardinality(S) \in Nat  BY FS_CardinalityType
<1>2. /\ order \in [1..Cardinality(S) -> S]
      /\ \A s \in S : \E i \in 1..Cardinality(S) : order[i] = s
      /\ \A i, j \in DOMAIN order : order[i] = order[j] => i = j
  BY DEF Orders, Bijection, Injection, Surjection, IsInjective
<1>3. order \in Seq(S)  BY <1>1, <1>2, SeqDef
<1> QED  BY <1>2, <1>3, LenProperties

\* A function on 1..n is a sequence of length n.
LEMMA FunctionIsSeq ==
  ASSUME NEW T, NEW n \in Nat, NEW f \in [1..n -> T]
  PROVE  f \in Seq(T) /\ Len(f) = n
<1>1. f \in Seq(T)  BY SeqDef
<1>2. DOMAIN f = 1..Len(f) /\ Len(f) \in Nat  BY <1>1, LenProperties
<1> QED  BY <1>1, <1>2

\* A function on the positions of an order is a sequence.
LEMMA MappedOrder ==
  ASSUME NEW S, NEW order \in Seq(S), NEW T, NEW f \in [DOMAIN order -> T]
  PROVE  /\ f \in Seq(T)
         /\ Len(f) = Len(order)
<1>1. DOMAIN order = 1..Len(order) /\ Len(order) \in Nat  BY LenProperties
<1> QED  BY <1>1, FunctionIsSeq

\* The last of a set of ids is one of them.
LEMMA LastIsOne ==
  ASSUME NEW ids, NEW i \in Last(ids)
  PROVE  i \in ids /\ \A j \in ids : j <= i
BY DEF Last

------------------------------------------------------------------------------
(* Writing the log.                                                          *)

\* What a step may do to the log: append a batch of decisions.
Appended(batch) ==
    /\ decisions' \in Seq(Decision)
    /\ DecisionIds = 1..Len(decisions) /\ Len(decisions) \in Nat
    /\ DecisionIds' = 1..(Len(decisions) + Len(batch)) /\ Len(batch) \in Nat
    /\ Len(decisions') = Len(decisions) + Len(batch)
    /\ \A i \in DecisionIds : decisions'[i] = decisions[i]
    /\ \A i \in 1..Len(batch) : decisions'[Len(decisions) + i] = batch[i]
    /\ \A i \in DecisionIds' : i \in DecisionIds
                               \/ \E j \in 1..Len(batch) : i = Len(decisions) + j

\* Log appends its batch.
LEMMA LogAppends ==
  ASSUME decisions \in Seq(Decision), NEW batch \in Seq(Decision), Log(batch)
  PROVE  Appended(batch)
<1>1. decisions' = decisions \o batch  BY DEF Log
<1>2. /\ decisions \o batch \in Seq(Decision)
      /\ Len(decisions \o batch) = Len(decisions) + Len(batch)
      /\ \A i \in 1..Len(decisions) + Len(batch) :
           (decisions \o batch)[i] = IF i <= Len(decisions) THEN decisions[i]
                                     ELSE batch[i - Len(decisions)]
  BY ConcatProperties
<1>3. /\ Len(decisions) \in Nat /\ DecisionIds = 1..Len(decisions)
      /\ Len(batch) \in Nat
  BY LenProperties DEF DecisionIds
<1>4. DecisionIds' = 1..(Len(decisions) + Len(batch))
  BY <1>1, <1>2, LenProperties DEF DecisionIds
<1>5. \A i \in DecisionIds : decisions'[i] = decisions[i]
  BY <1>1, <1>2, <1>3
<1>6. \A i \in 1..Len(batch) : decisions'[Len(decisions) + i] = batch[i]
  BY <1>1, <1>2, <1>3
<1>7. ASSUME NEW i \in DecisionIds', i \notin DecisionIds
      PROVE  \E j \in 1..Len(batch) : i = Len(decisions) + j
  <2>1. i \in 1..(Len(decisions) + Len(batch)) /\ ~(i \in 1..Len(decisions))
    BY <1>3, <1>4, <1>7
  <2>2. i - Len(decisions) \in 1..Len(batch) /\ i = Len(decisions) + (i - Len(decisions))
    BY <1>3, <2>1
  <2> QED  BY <2>2
<1> QED  BY <1>1, <1>2, <1>3, <1>4, <1>5, <1>6, <1>7 DEF Appended

\* The special cases of one decision and of none.
LEMMA LogOne ==
  ASSUME decisions \in Seq(Decision), NEW e \in Decision, Log(<<e>>)
  PROVE  /\ Appended(<<e>>)
         /\ DecisionIds' = DecisionIds \cup {Len(decisions) + 1}
         /\ decisions'[Len(decisions) + 1] = e
<1>1. <<e>> \in Seq(Decision) /\ Len(<<e>>) = 1 /\ <<e>>[1] = e  OBVIOUS
<1>2. Appended(<<e>>)  BY <1>1, LogAppends
<1> QED  BY <1>1, <1>2 DEF Appended

LEMMA LogNone ==
  ASSUME decisions \in Seq(Decision), UNCHANGED decisions
  PROVE  Appended(<<>>)
BY LenProperties DEF Appended, DecisionIds

\* A Note is a decision.
LEMMA NoteIsDecision ==
  ASSUME NEW kind \in {"suppression", "threshold_change", "reactivation", "undo", "approval"},
         NEW form \in {"apply", "edit", "settings", "undo", "expired", "review", "keep"},
         NEW actor \in {"valeri", "user"}, NEW r \in Nat, NEW ref \in Nat,
         NEW drift \in DriftReport
  PROVE  Note(kind, form, actor, r, ref, drift) \in Decision
BY DEF Note, Decision

------------------------------------------------------------------------------
(* Steps that start by expiring the due rules.                               *)

\* The flags an audit may append: they concern rules that suppress and stay active.
FlagDecision == {e \in Decision : /\ e.kind = "reactivation" /\ e.form = "review"
                                  /\ e.key = NoThreshold /\ e.rule \in Suppressing}

\* One flag for each rule that is to be flagged, with its drift.
Flags(more) ==
    /\ \A i \in 1..Len(more) : more[i].rule \in ToFlag /\ more[i].drift = DriftOf(more[i].rule)
    /\ \A i, j \in 1..Len(more) : more[i].rule = more[j].rule => i = j

\* A table of rules with one row rewritten.
LEMMA RuleRewritten ==
  ASSUME rules \in Seq(Rule), NEW r \in RuleIds, NEW row \in Rule,
         rules' = [rules EXCEPT ![r] = row]
  PROVE  /\ rules' \in Seq(Rule)
         /\ Len(rules') = Len(rules)
         /\ RuleIds' = RuleIds
         /\ \A q \in RuleIds : rules'[q] = IF q = r THEN row ELSE rules[q]
BY ExceptSeq, LenProperties DEF RuleIds

LEMMA RuleAppended ==
  ASSUME rules \in Seq(Rule), NEW row \in Rule, rules' = Append(rules, row)
  PROVE  /\ rules' \in Seq(Rule)
         /\ Len(rules') = Len(rules) + 1
         /\ RuleIds' = RuleIds \cup {Len(rules) + 1}
         /\ \A q \in RuleIds : rules'[q] = rules[q]
         /\ rules'[Len(rules) + 1] = row
BY LenProperties DEF RuleIds

\* A drift report is a report.
LEMMA DriftType ==
  ASSUME TypeOK, NEW r \in RuleIds
  PROVE  DriftOf(r) \in DriftReport
<1>1. stream[r].hits \in Nat /\ stream[r].level \in Nat
  <2>1. r \in 1..Len(stream)  BY IdsOfSeq DEF TypeOK, RuleIds
  <2>2. stream[r] \in [hits : Nat, level : Nat]  BY <2>1, ElementOfSeq DEF TypeOK
  <2> QED  BY <2>2
<1>2. /\ [kind |-> "value", level |-> stream[r].level, hits |-> 0] \in DriftReport
      /\ [kind |-> "volume", level |-> 0, hits |-> stream[r].hits] \in DriftReport
      /\ NoDrift \in DriftReport
  BY <1>1 DEF DriftReport, NoDrift
<1> QED  BY <1>2 DEF DriftOf

\* The value written back comes from the log.
LEMMA RestoredType ==
  ASSUME TypeOK, NEW r, NEW d \in ApplyDecision(r)
  PROVE  /\ d \in DecisionIds /\ d \in Nat
         /\ Restored(d) \in Values \cup {NoValue}
<1>1. d \in DecisionIds  BY DEF ApplyDecision, Last
<1>2. decisions[d] \in Decision /\ d \in Nat
  BY <1>1, IdsOfSeq DEF TypeOK, DecisionIds
<1> QED  BY <1>1, <1>2 DEF Restored, Decision

LEMMA AppliedOldType ==
  ASSUME TypeOK, NEW r, ApplyDecision(r) # {}
  PROVE  AppliedOld(r) \in Values \cup {NoValue}
<1>1. (CHOOSE d \in ApplyDecision(r) : TRUE) \in ApplyDecision(r)  OBVIOUS
<1> QED  BY <1>1, RestoredType DEF AppliedOld

LEMMA ExpiryDecisionType ==
  ASSUME TypeOK, NEW r \in RuleIds
  PROVE  /\ ExpiryDecision(r) \in Decision
         /\ ExpiryDecision(r).form = "expired"
         /\ ExpiryDecision(r).kind = "reactivation"
         /\ ExpiryDecision(r).rule = r
         /\ Restores(r) => /\ ExpiryDecision(r).key = rules[r].key
                           /\ ExpiryDecision(r).new = AppliedOld(r)
         /\ ~Restores(r) => ExpiryDecision(r).key = NoThreshold
<1>1. rules[r] \in Rule /\ r \in Nat  BY IdsOfSeq DEF TypeOK, RuleIds
<1>2. CASE Restores(r)
  <2>1. AppliedOld(r) \in Values \cup {NoValue}  BY <1>2, AppliedOldType DEF Restores
  <2> QED  BY <1>1, <1>2, <2>1 DEF ExpiryDecision, Change, NoDrift, DriftReport, Rule, Decision
<1>3. CASE ~Restores(r)
  BY <1>1, <1>3 DEF ExpiryDecision, Note, NoDrift, DriftReport, Decision
<1> QED  BY <1>2, <1>3

\* What a scan and an audit share.
LEMMA ScanOrAuditExpires ==
  ASSUME TypeOK, Scan \/ Audit
  PROVE  /\ \E order \in Orders(Due), more \in Seq(FlagDecision) :
              ExpireRules(order, more) /\ Flags(more)
         /\ stream' \in Seq([hits : Nat, level : Nat])
         /\ Len(stream') = Len(stream)
<1>1. CASE Scan
  <2>1. PICK order \in Orders(Due), hiding \in SUBSET Suppressing :
          /\ ExpireRules(order, <<>>)
          /\ \E seen \in [hiding -> [hits : 1..MaxHits, level : Levels]] :
               /\ \A r \in hiding : stream[r].hits + seen[r].hits <= MaxHits
               /\ stream' = [r \in RuleIds |->
                   IF r \in hiding
                   THEN [hits |-> stream[r].hits + seen[r].hits, level |-> seen[r].level]
                   ELSE stream[r]]
    BY <1>1 DEF Scan
  <2>2. PICK seen \in [hiding -> [hits : 1..MaxHits, level : Levels]] :
          stream' = [r \in RuleIds |->
                   IF r \in hiding
                   THEN [hits |-> stream[r].hits + seen[r].hits, level |-> seen[r].level]
                   ELSE stream[r]]
    BY <2>1
  <2>3. /\ RuleIds = 1..Len(stream) /\ Len(stream) \in Nat
        /\ \A r \in RuleIds : stream[r] \in [hits : Nat, level : Nat]
    BY IdsOfSeq DEF TypeOK, RuleIds
  <2>4. hiding \subseteq RuleIds /\ Levels \subseteq Nat /\ MaxHits \in Nat
    BY AuditAssumption, BoundAssumption DEF Suppressing
  <2>5. ASSUME NEW r \in hiding
        PROVE  [hits |-> stream[r].hits + seen[r].hits, level |-> seen[r].level]
                 \in [hits : Nat, level : Nat]
    <3>1. seen[r] \in [hits : 1..MaxHits, level : Levels]  BY <2>5
    <3>2. seen[r].hits \in 1..MaxHits /\ seen[r].level \in Levels  BY <3>1
    <3>3. stream[r].hits \in Nat  BY <2>3, <2>4
    <3>4. seen[r].hits \in Nat /\ seen[r].level \in Nat
      <4>1. 1..MaxHits \subseteq Nat  BY <2>4
      <4> QED  BY <2>4, <3>2, <4>1, Zenon
    <3>5. stream[r].hits + seen[r].hits \in Nat  BY <3>3, <3>4
    <3> QED  BY <3>4, <3>5
  <2>6. stream' \in [1..Len(stream) -> [hits : Nat, level : Nat]]
    BY <2>2, <2>3, <2>5
  <2>7. stream' \in Seq([hits : Nat, level : Nat]) /\ Len(stream') = Len(stream)
    BY <2>3, <2>6, FunctionIsSeq
  <2>8. Flags(<<>>)  BY DEF Flags
  <2>9. <<>> \in Seq(FlagDecision)  BY EmptySeq
  <2> QED  BY <2>1, <2>7, <2>8, <2>9
<1>2. CASE Audit
  <2>1. PICK order \in Orders(Due), flags \in Orders(ToFlag) :
          /\ ExpireRules(order, [i \in DOMAIN flags |->
               Note("reactivation", "review", "valeri", flags[i], 0, DriftOf(flags[i]))])
          /\ UNCHANGED stream
    BY <1>2 DEF Audit
  <2>2. /\ flags \in Seq(ToFlag) /\ \A i \in DOMAIN flags : flags[i] \in ToFlag
        /\ DOMAIN flags = 1..Len(flags)
        /\ \A i, j \in DOMAIN flags : flags[i] = flags[j] => i = j
    <3>1. ToFlag \in SUBSET DOMAIN rules  BY DEF ToFlag, Suppressing, RuleIds
    <3>2. IsFiniteSet(ToFlag)  BY <3>1, IdsAreFinite DEF TypeOK
    <3> QED  BY <3>2, OrderLists, IdsOfSeq
  <2>3. ASSUME NEW r \in ToFlag
        PROVE  Note("reactivation", "review", "valeri", r, 0, DriftOf(r)) \in FlagDecision
    <3>1. r \in Suppressing /\ r \in RuleIds /\ r \in Nat
      BY IdsOfSeq DEF ToFlag, Suppressing, TypeOK, RuleIds
    <3>2. DriftOf(r) \in DriftReport  BY <3>1, DriftType
    <3>3. Note("reactivation", "review", "valeri", r, 0, DriftOf(r)) \in Decision
      BY <3>1, <3>2, NoteIsDecision
    <3> QED  BY <3>1, <3>3 DEF FlagDecision, Note
  <2> DEFINE more == [i \in DOMAIN flags |->
                 Note("reactivation", "review", "valeri", flags[i], 0, DriftOf(flags[i]))]
  <2>4. more \in Seq(FlagDecision) /\ Len(more) = Len(flags)
    BY <2>2, <2>3, MappedOrder
  <2>5. \A i \in DOMAIN flags : more[i].rule = flags[i] /\ more[i].drift = DriftOf(flags[i])
    BY DEF Note
  <2> HIDE DEF more
  <2>6. Flags(more)  BY <2>2, <2>4, <2>5 DEF Flags
  <2> QED  BY <2>1, <2>4, <2>6 DEF TypeOK, more
<1> QED  BY <1>1, <1>2

\* What expiring the rules in some order does to the tables.
LEMMA ExpireEffect ==
  ASSUME TypeOK, NEW order \in Orders(Due), NEW more \in Seq(FlagDecision),
         ExpireRules(order, more)
  PROVE  /\ order \in Seq(RuleIds) /\ DOMAIN order = 1..Len(order) /\ Len(order) \in Nat
         /\ \A i \in DOMAIN order : order[i] \in Due /\ order[i] \in RuleIds
         /\ \A r \in Due : \E i \in DOMAIN order : order[i] = r
         /\ \A i, j \in DOMAIN order : order[i] = order[j] => i = j
         /\ Len(more) \in Nat /\ \A i \in 1..Len(more) : more[i] \in FlagDecision
         /\ config' \in [Thresholds -> Values]
         /\ rules' \in Seq(Rule) /\ RuleIds' = RuleIds /\ Len(rules') = Len(rules)
         /\ \A r \in RuleIds :
              rules'[r] = IF r \in Due THEN [rules[r] EXCEPT !.status = "expired"] ELSE rules[r]
         /\ decisions' \in Seq(Decision)
         /\ DecisionIds = 1..Len(decisions) /\ Len(decisions) \in Nat
         /\ DecisionIds' = 1..(Len(decisions) + Len(order) + Len(more))
         /\ Len(decisions') = Len(decisions) + Len(order) + Len(more)
         /\ \A i \in DecisionIds : decisions'[i] = decisions[i]
         /\ \A i \in DOMAIN order :
              decisions'[Len(decisions) + i] = ExpiryDecision(order[i])
         /\ \A i \in 1..Len(more) : decisions'[Len(decisions) + Len(order) + i] = more[i]
<1> DEFINE expiries == [i \in DOMAIN order |-> ExpiryDecision(order[i])]
<1>1. IsFiniteSet(Due)
  <2>1. Due \in SUBSET DOMAIN rules  BY DEF Due, RuleIds
  <2> QED  BY <2>1, IdsAreFinite DEF TypeOK
<1>2. /\ order \in Seq(Due) /\ DOMAIN order = 1..Len(order) /\ Len(order) \in Nat
      /\ \A i \in DOMAIN order : order[i] \in Due
      /\ \A r \in Due : \E i \in DOMAIN order : order[i] = r
      /\ \A i, j \in DOMAIN order : order[i] = order[j] => i = j
  BY <1>1, OrderLists, IdsOfSeq
<1>3. Due \subseteq RuleIds  BY DEF Due
<1>4. order \in Seq(RuleIds)  BY <1>2, <1>3, SeqMonotonic
<1>5. expiries \in Seq(Decision) /\ Len(expiries) = Len(order)
  <2>1. expiries \in [DOMAIN order -> Decision]
    BY <1>2, <1>3, ExpiryDecisionType
  <2> QED  BY <1>2, <2>1, MappedOrder
<1>6. /\ more \in Seq(Decision) /\ Len(more) \in Nat
      /\ \A i \in 1..Len(more) : more[i] \in FlagDecision
  <2>1. FlagDecision \subseteq Decision  BY DEF FlagDecision
  <2> QED  BY <2>1, SeqMonotonic, IdsOfSeq
<1>7. /\ expiries \o more \in Seq(Decision)
      /\ Len(expiries \o more) = Len(order) + Len(more)
      /\ \A i \in 1..Len(order) : (expiries \o more)[i] = ExpiryDecision(order[i])
      /\ \A i \in 1..Len(more) : (expiries \o more)[Len(order) + i] = more[i]
  <2> HIDE DEF expiries
  <2>1. /\ expiries \o more \in Seq(Decision)
        /\ Len(expiries \o more) = Len(order) + Len(more)
        /\ \A i \in 1..Len(order) + Len(more) : (expiries \o more)[i] =
             IF i <= Len(order) THEN expiries[i] ELSE more[i - Len(order)]
    <3>1. expiries \in Seq(Decision) /\ more \in Seq(Decision)  BY <1>5, <1>6
    <3>2. Len(expiries) = Len(order)  BY <1>5
    <3>3. /\ expiries \o more \in Seq(Decision)
          /\ Len(expiries \o more) = Len(expiries) + Len(more)
          /\ \A i \in 1..Len(expiries) + Len(more) : (expiries \o more)[i] =
               IF i <= Len(expiries) THEN expiries[i] ELSE more[i - Len(expiries)]
      BY <3>1, ConcatProperties
    <3> QED  BY <3>2, <3>3
  <2>2. \A i \in 1..Len(order) : expiries[i] = ExpiryDecision(order[i])
    BY <1>2 DEF expiries
  <2> QED  BY <1>2, <1>6, <2>1, <2>2
<1>8. Appended(expiries \o more)
  <2> HIDE DEF expiries
  <2>1. Log(expiries \o more)  BY DEF ExpireRules, expiries
  <2> QED  BY <1>7, <2>1, LogAppends DEF TypeOK
<1>9. /\ rules' \in Seq(Rule) /\ RuleIds' = RuleIds /\ Len(rules') = Len(rules)
      /\ \A r \in RuleIds :
           rules'[r] = IF r \in Due THEN [rules[r] EXCEPT !.status = "expired"] ELSE rules[r]
  <2>1. rules' = [r \in RuleIds |->
                   IF r \in Due THEN [rules[r] EXCEPT !.status = "expired"] ELSE rules[r]]
    BY DEF ExpireRules
  <2>2. /\ Len(rules) \in Nat /\ RuleIds = 1..Len(rules)
        /\ \A r \in RuleIds : rules[r] \in Rule
    BY IdsOfSeq DEF TypeOK, RuleIds
  <2>3. ASSUME NEW r \in RuleIds PROVE rules'[r] \in Rule
    <3>1. rules[r] \in Rule  BY <2>2
    <3>2. [rules[r] EXCEPT !.status = "expired"] \in Rule  BY <3>1 DEF Rule
    <3> QED  BY <2>1, <3>1, <3>2
  <2>4. rules' \in [1..Len(rules) -> Rule]  BY <2>1, <2>2, <2>3
  <2>5. rules' \in Seq(Rule) /\ Len(rules') = Len(rules)  BY <2>2, <2>4, FunctionIsSeq
  <2> QED  BY <2>1, <2>2, <2>4, <2>5 DEF RuleIds
<1>10. config' \in [Thresholds -> Values]  BY DEF ExpireRules
<1> HIDE DEF expiries
<1>11. \A i \in 1..Len(order) : decisions'[Len(decisions) + i] = ExpiryDecision(order[i])
  <2>1. TAKE i \in 1..Len(order)
  <2>2. i \in 1..Len(expiries \o more)  BY <1>2, <1>6, <1>7
  <2> QED  BY <1>7, <1>8, <2>2 DEF Appended
<1>12. \A i \in 1..Len(more) : decisions'[Len(decisions) + Len(order) + i] = more[i]
  <2>1. TAKE i \in 1..Len(more)
  <2>2. Len(order) + i \in 1..Len(expiries \o more)  BY <1>2, <1>6, <1>7
  <2>3. Len(decisions) + (Len(order) + i) = Len(decisions) + Len(order) + i
    BY <1>2, <1>6, <1>8 DEF Appended
  <2> QED  BY <1>7, <1>8, <2>2, <2>3 DEF Appended
<1>13. /\ decisions' \in Seq(Decision)
       /\ DecisionIds = 1..Len(decisions) /\ Len(decisions) \in Nat
       /\ DecisionIds' = 1..(Len(decisions) + Len(order) + Len(more))
       /\ Len(decisions') = Len(decisions) + Len(order) + Len(more)
       /\ \A i \in DecisionIds : decisions'[i] = decisions[i]
  <2>1. Len(expiries \o more) = Len(order) + Len(more)  BY <1>7
  <2>2. Len(decisions) \in Nat  BY <1>8 DEF Appended
  <2>3. Len(decisions) + (Len(order) + Len(more)) = Len(decisions) + Len(order) + Len(more)
    BY <1>2, <1>6, <2>2
  <2> QED  BY <1>8, <2>1, <2>3 DEF Appended
<1> QED  BY <1>2, <1>3, <1>4, <1>6, <1>9, <1>10, <1>11, <1>12, <1>13

------------------------------------------------------------------------------
(* Steps that write one decision.                                            *)

\* e is appended to the log, and the threshold it names, if any, gets its new value;
\* an apply or a settings change records the value it replaces.
Writes(e) ==
    /\ e \in Decision
    /\ Log(<<e>>)
    /\ config' \in [Thresholds -> Values]
    /\ \/ e.key = NoThreshold /\ config' = config
       \/ e.key \in Thresholds /\ e.new \in Values /\ config' = [config EXCEPT ![e.key] = e.new]
    /\ e.form \in {"apply", "settings"} /\ e.key # NoThreshold => e.old = config[e.key]

\* e records that the rule, with id r, was applied.
Applies(e, r, rule) ==
    /\ e.form = "apply" /\ e.rule = r /\ e.kind \in {"suppression", "threshold_change"}
    /\ rule.type = "threshold" =>
         e.key = rule.key /\ e.key \in Thresholds /\ e.new = rule.value /\ e.old \in Values
    /\ rule.type # "threshold" => e.key = NoThreshold

\* e takes back what the apply decision of rule r did, if it finds one.
TakesBack(e, r) ==
    \E d \in ApplyDecisionOrNone(r) :
      IF rules[r].type = "threshold" /\ d # 0 /\ Restored(d) # NoValue
      THEN e.key = rules[r].key /\ e.new = Restored(d) ELSE e.key = NoThreshold

\* What no step changes in a rule.
SameTarget(row, rule) == row.type = rule.type /\ row.key = rule.key /\ row.value = rule.value

\* A decision that changes no threshold.
LEMMA NoteWrites ==
  ASSUME TypeOK, UNCHANGED config, NEW e \in Decision, e.key = NoThreshold, Log(<<e>>)
  PROVE  Writes(e)
BY DEF Writes, TypeOK

\* A decision that gives a threshold a new value.
LEMMA ChangeWrites ==
  ASSUME TypeOK, NEW e \in Decision, e.new \in Values, Log(<<e>>),
         config' = [config EXCEPT ![e.key] = e.new],
         e.form \in {"apply", "settings"} => e.old = config[e.key]
  PROVE  Writes(e)
<1>1. config \in [Thresholds -> Values]  BY DEF TypeOK
<1>2. config' \in [Thresholds -> Values]  BY <1>1
<1>3. e.key \in Thresholds \cup {NoThreshold}  BY DEF Decision
<1>4. e.key = NoThreshold => config' = config  BY <1>1, ThresholdAssumption
<1> QED  BY <1>2, <1>3, <1>4 DEF Writes

\* What each of the actions writes.
LEMMA ApplyDecisionWritten ==
  ASSUME TypeOK, NEW r \in Nat, NEW rule \in Rule, NEW actor \in {"valeri", "user"},
         WriteApplyDecision(r, rule, actor)
  PROVE  \E e \in Decision : Writes(e) /\ Applies(e, r, rule)
<1>1. CASE rule.type = "threshold"
  <2> DEFINE e == Change("threshold_change", "apply", actor, r, 0,
                         rule.key, config[rule.key], rule.value)
  <2>1. /\ rule.key \in Thresholds
        /\ config' = [config EXCEPT ![rule.key] = rule.value]
        /\ Log(<<e>>)
    BY <1>1 DEF WriteApplyDecision, ValueBefore
  <2>2. rule.value \in Values /\ config[rule.key] \in Values  BY <2>1 DEF Rule, TypeOK
  <2>3. /\ e.form = "apply" /\ e.rule = r /\ e.key = rule.key
        /\ e.old = config[rule.key] /\ e.new = rule.value /\ e.kind = "threshold_change"
    BY DEF Change
  <2>4. e \in Decision  BY <2>1, <2>2 DEF Change, Decision, NoDrift, DriftReport
  <2> HIDE DEF e
  <2>5. Writes(e)  BY <2>1, <2>2, <2>3, <2>4, ChangeWrites
  <2>6. Applies(e, r, rule)  BY <1>1, <2>1, <2>2, <2>3 DEF Applies
  <2> QED  BY <2>4, <2>5, <2>6
<1>2. CASE rule.type # "threshold"
  <2> DEFINE e == Note("suppression", "apply", actor, r, 0, NoDrift)
  <2>1. Log(<<e>>) /\ UNCHANGED config  BY <1>2 DEF WriteApplyDecision
  <2>2. e.form = "apply" /\ e.rule = r /\ e.key = NoThreshold /\ e.kind = "suppression"
    BY DEF Note
  <2>3. e \in Decision  BY DEF Note, Decision, NoDrift, DriftReport
  <2> HIDE DEF e
  <2>4. Writes(e)  BY <2>1, <2>2, <2>3, NoteWrites
  <2>5. Applies(e, r, rule)  BY <1>2, <2>2 DEF Applies
  <2> QED  BY <2>3, <2>4, <2>5
<1> QED  BY <1>1, <1>2

LEMMA NewRuleType ==
  ASSUME NEW p \in Proposals,
         NEW status \in {"pending_confirm", "active"},
         NEW autonomy \in {"auto_applied", "confirmed"}
  PROVE  NewRule(p, status, autonomy) \in Rule /\ NewRule(p, status, autonomy).status = status
BY ProposalAssumption DEF Proposal, NewRule, Rule

\* How a proposal adds a rule: one that waits or whose threshold change was refused in a
\* chat, without a decision, or one in force, with its apply decision.
Adds(row) ==
    /\ rules' = Append(rules, row)
    /\ \/ /\ row.status = "pending_confirm" \/ (row.status = "active" /\ Stranded(row))
          /\ UNCHANGED <<config, decisions>>
       \/ /\ row.status = "active" /\ ~Stranded(row)
          /\ \E e \in Decision : /\ Writes(e) /\ e.form = "apply" /\ e.rule = Len(rules) + 1
                                  /\ Applies(e, Len(rules) + 1, row)

LEMMA ProposeWrites ==
  ASSUME TypeOK, NEW p \in Proposals, Propose(p) \/ ProposeRefused(p)
  PROVE  /\ stream' \in Seq([hits : Nat, level : Nat]) /\ Len(stream') = Len(stream) + 1
         /\ \E row \in Rule : Adds(row)
<1>1. stream' \in Seq([hits : Nat, level : Nat]) /\ Len(stream') = Len(stream) + 1
  <2>1. stream' = Append(stream, [hits |-> 0, level |-> 0])  BY DEF Propose, ProposeRefused
  <2>2. [hits |-> 0, level |-> 0] \in [hits : Nat, level : Nat]  OBVIOUS
  <2> QED  BY <2>1, <2>2 DEF TypeOK
<1>2. CASE Propose(p) /\ RequiresConfirm(p)
  <2>1. /\ rules' = Append(rules, NewRule(p, "pending_confirm", "confirmed"))
        /\ UNCHANGED <<config, decisions>>
    BY <1>2 DEF Propose
  <2> QED  BY <1>1, <2>1, NewRuleType DEF Adds
<1>3. CASE Propose(p) /\ ~RequiresConfirm(p)
  <2>1. /\ rules' = Append(rules, NewRule(p, "active", "auto_applied"))
        /\ WriteApplyDecision(Len(rules) + 1, NewRule(p, "active", "auto_applied"), "valeri")
    BY <1>3 DEF Propose
  <2>2. Len(rules) + 1 \in Nat  BY LenProperties DEF TypeOK
  <2>3. \E e \in Decision : /\ Writes(e) /\ e.form = "apply" /\ e.rule = Len(rules) + 1
                            /\ Applies(e, Len(rules) + 1, NewRule(p, "active", "auto_applied"))
    BY <2>1, <2>2, NewRuleType, ApplyDecisionWritten DEF Applies
  <2>4. ~Stranded(NewRule(p, "active", "auto_applied"))
    BY <2>1 DEF WriteApplyDecision, Stranded
  <2> QED  BY <1>1, <2>1, <2>3, <2>4, NewRuleType DEF Adds
<1>4. CASE ProposeRefused(p)
  <2>1. /\ rules' = Append(rules, NewRule(p, "active", "auto_applied"))
        /\ UNCHANGED <<config, decisions>>
        /\ Stranded(NewRule(p, "active", "auto_applied"))
    BY <1>4 DEF ProposeRefused, Stranded, NewRule
  <2> QED  BY <1>1, <2>1, NewRuleType DEF Adds
<1> QED  BY <1>2, <1>3, <1>4

LEMMA ApplyWrites ==
  ASSUME TypeOK, NEW r \in RuleIds, Apply(r)
  PROVE  /\ rules[r].status = "pending_confirm"
         /\ \E row \in Rule : /\ row.status = "active" /\ rules' = [rules EXCEPT ![r] = row]
                             /\ SameTarget(row, rules[r]) /\ ~Stranded(row)
         /\ \E e \in Decision : /\ Writes(e) /\ e.form = "apply" /\ e.rule = r
                                /\ Applies(e, r, rules[r])
<1>1. rules[r] \in Rule /\ r \in Nat  BY IdsOfSeq DEF TypeOK, RuleIds
<1>2. [rules[r] EXCEPT !.status = "active", !.autonomy = "confirmed"] \in Rule
  BY <1>1 DEF Rule
<1>3. rules' = [rules EXCEPT ![r] = [rules[r] EXCEPT !.status = "active",
                                                     !.autonomy = "confirmed"]]
  BY DEF Apply
<1>4. /\ [rules[r] EXCEPT !.status = "active", !.autonomy = "confirmed"].status = "active"
      /\ SameTarget([rules[r] EXCEPT !.status = "active", !.autonomy = "confirmed"], rules[r])
      /\ ~Stranded([rules[r] EXCEPT !.status = "active", !.autonomy = "confirmed"])
  BY <1>1 DEF Rule, SameTarget, Stranded
<1>5. WriteApplyDecision(r, rules[r], "user")  BY DEF Apply
<1>6. \E e \in Decision : /\ Writes(e) /\ e.form = "apply" /\ e.rule = r
                          /\ Applies(e, r, rules[r])
  BY <1>1, <1>5, ApplyDecisionWritten DEF Applies
<1>7. rules[r].status = "pending_confirm"  BY DEF Apply, Confirmable
<1> QED  BY <1>2, <1>3, <1>4, <1>6, <1>7

LEMMA UndoWrites ==
  ASSUME TypeOK, NEW r \in RuleIds, Undo(r)
  PROVE  /\ rules[r].status \in {"active", "pending_confirm"}
         /\ \E row \in Rule : /\ row.status = "reverted" /\ rules' = [rules EXCEPT ![r] = row]
                             /\ SameTarget(row, rules[r])
         /\ \E e \in Decision : /\ Writes(e) /\ e.form = "undo" /\ e.rule = r /\ e.kind = "undo"
                                /\ TakesBack(e, r)
<1>1. rules[r] \in Rule /\ r \in Nat  BY IdsOfSeq DEF TypeOK, RuleIds
<1>2. \E row \in Rule : /\ row.status = "reverted" /\ rules' = [rules EXCEPT ![r] = row]
                        /\ SameTarget(row, rules[r])
  <2>1. rules' = [rules EXCEPT ![r] = [rules[r] EXCEPT !.status = "reverted"]]  BY DEF Undo
  <2>2. /\ [rules[r] EXCEPT !.status = "reverted"] \in Rule
        /\ [rules[r] EXCEPT !.status = "reverted"].status = "reverted"
        /\ SameTarget([rules[r] EXCEPT !.status = "reverted"], rules[r])
    BY <1>1 DEF Rule, SameTarget
  <2> QED  BY <2>1, <2>2
<1>3. PICK d \in ApplyDecisionOrNone(r) :
        IF rules[r].type = "threshold" /\ d # 0 /\ Restored(d) # NoValue
        THEN /\ config' = [config EXCEPT ![rules[r].key] = Restored(d)]
             /\ Log(<<Change("undo", "undo", "user", r, d,
                             rules[r].key, NoValue, Restored(d))>>)
        ELSE /\ Log(<<Note("undo", "undo", "user", r, d, NoDrift)>>)
             /\ UNCHANGED config
  BY DEF Undo
<1>4. d \in Nat /\ (d # 0 => d \in ApplyDecision(r))
  BY RestoredType DEF ApplyDecisionOrNone
<1>5. \E e \in Decision : /\ Writes(e) /\ e.form = "undo" /\ e.rule = r /\ e.kind = "undo"
                          /\ TakesBack(e, r)
  <2>1. CASE rules[r].type = "threshold" /\ d # 0 /\ Restored(d) # NoValue
    <3> DEFINE e == Change("undo", "undo", "user", r, d, rules[r].key, NoValue, Restored(d))
    <3>1. Restored(d) \in Values  BY <1>4, <2>1, RestoredType
    <3>2. rules[r].key \in Thresholds \cup {NoThreshold}  BY <1>1 DEF Rule
    <3>3. config' = [config EXCEPT ![rules[r].key] = Restored(d)] /\ Log(<<e>>)
      BY <1>3, <2>1
    <3>4. /\ e.form = "undo" /\ e.rule = r /\ e.key = rules[r].key
          /\ e.new = Restored(d) /\ e.kind = "undo"
      BY DEF Change
    <3>5. e \in Decision
      BY <1>1, <1>4, <3>1, <3>2 DEF Change, Decision, NoDrift, DriftReport
    <3> HIDE DEF e
    <3>6. Writes(e)  BY <3>1, <3>3, <3>4, <3>5, ChangeWrites
    <3>7. TakesBack(e, r)  BY <2>1, <3>4 DEF TakesBack
    <3> QED  BY <3>4, <3>5, <3>6, <3>7
  <2>2. CASE ~(rules[r].type = "threshold" /\ d # 0 /\ Restored(d) # NoValue)
    <3> DEFINE e == Note("undo", "undo", "user", r, d, NoDrift)
    <3>1. Log(<<e>>) /\ UNCHANGED config  BY <1>3, <2>2
    <3>2. e.form = "undo" /\ e.rule = r /\ e.key = NoThreshold /\ e.kind = "undo"  BY DEF Note
    <3>3. e \in Decision  BY <1>1, <1>4 DEF Note, Decision, NoDrift, DriftReport
    <3> HIDE DEF e
    <3>4. Writes(e)  BY <3>1, <3>2, <3>3, NoteWrites
    <3>5. TakesBack(e, r)  BY <2>2, <3>2 DEF TakesBack
    <3> QED  BY <3>2, <3>3, <3>4, <3>5
  <2> QED  BY <2>1, <2>2
<1>6. rules[r].status \in {"active", "pending_confirm"}  BY DEF Undo, Live
<1> QED  BY <1>2, <1>5, <1>6

LEMMA EditScopeWrites ==
  ASSUME TypeOK, NEW r \in RuleIds, NEW kind \in NewScopes, EditScope(r, kind)
  PROVE  /\ rules[r].status \in {"active", "pending_confirm"}
         /\ \E row \in Rule : /\ row.status = rules[r].status /\ rules' = [rules EXCEPT ![r] = row]
                             /\ SameTarget(row, rules[r]) /\ Stranded(row) = Stranded(rules[r])
         /\ rules[r].type # "threshold"
         /\ \E e \in Decision : Writes(e) /\ e.form = "edit" /\ e.rule = r /\ e.key = NoThreshold
<1>1. rules[r] \in Rule /\ r \in Nat  BY IdsOfSeq DEF TypeOK, RuleIds
<1>2. rules' = [rules EXCEPT ![r] = [rules[r] EXCEPT !.kind = kind]]  BY DEF EditScope
<1>3. /\ [rules[r] EXCEPT !.kind = kind] \in Rule
      /\ [rules[r] EXCEPT !.kind = kind].status = rules[r].status
      /\ SameTarget([rules[r] EXCEPT !.kind = kind], rules[r])
      /\ Stranded([rules[r] EXCEPT !.kind = kind]) = Stranded(rules[r])
  BY <1>1, ProposalAssumption DEF Rule, SameTarget, Stranded
<1> DEFINE e == Note("suppression", "edit", "user", r, 0, NoDrift)
<1>4. e.form = "edit" /\ e.rule = r /\ e.key = NoThreshold  BY DEF Note
<1>5. Writes(e) /\ e \in Decision
  <2>1. e \in Decision  BY <1>1 DEF Note, Decision, NoDrift, DriftReport
  <2>2. Log(<<e>>) /\ UNCHANGED config  BY DEF EditScope
  <2> HIDE DEF e
  <2> QED  BY <1>4, <2>1, <2>2, NoteWrites
<1>6. rules[r].status \in {"active", "pending_confirm"} /\ rules[r].type # "threshold"
  BY DEF EditScope, Live
<1> HIDE DEF e
<1> QED  BY <1>2, <1>3, <1>4, <1>5, <1>6

LEMMA KeepWrites ==
  ASSUME TypeOK, NEW r \in RuleIds, Keep(r)
  PROVE  /\ rules[r].status = "active"
         /\ OpenFlag(r) # {}
         /\ \E e \in Decision : /\ Writes(e) /\ e.form = "keep" /\ e.rule = r
                                /\ e.kind = "approval" /\ e.key = NoThreshold
<1>1. r \in Nat  BY IdsOfSeq DEF TypeOK, RuleIds
<1>2. PICK f \in OpenFlag(r) :
        Log(<<Note("approval", "keep", "user", r, f, decisions[f].drift)>>)
  BY DEF Keep
<1>3. f \in DecisionIds  BY DEF OpenFlag, LatestFlag, Last
<1>4. f \in Nat /\ decisions[f] \in Decision  BY <1>3, IdsOfSeq DEF TypeOK, DecisionIds
<1>5. decisions[f].drift \in DriftReport  BY <1>4 DEF Decision
<1> DEFINE e == Note("approval", "keep", "user", r, f, decisions[f].drift)
<1>6. e.form = "keep" /\ e.rule = r /\ e.key = NoThreshold /\ e.kind = "approval"
  BY DEF Note
<1>7. e \in Decision  BY <1>1, <1>4, <1>5 DEF Note, Decision
<1>8. Log(<<e>>) /\ UNCHANGED config /\ rules[r].status = "active"  BY <1>2 DEF Keep
<1> HIDE DEF e
<1> QED  BY <1>6, <1>7, <1>8, NoteWrites

LEMMA PatchConfigWrites ==
  ASSUME TypeOK, NEW k \in Thresholds, NEW v \in Values, PatchConfig(k, v)
  PROVE  \E e \in Decision : Writes(e) /\ e.form = "settings" /\ e.rule = 0
<1> DEFINE e == Change("threshold_change", "settings", "user", 0, 0, k, config[k], v)
<1>1. config[k] \in Values  BY DEF TypeOK
<1>2. config' = [config EXCEPT ![k] = v] /\ Log(<<e>>)  BY DEF PatchConfig, ValueBefore
<1>3. e.form = "settings" /\ e.rule = 0 /\ e.key = k /\ e.old = config[k] /\ e.new = v
  BY DEF Change
<1>4. e \in Decision  BY <1>1 DEF Change, Decision, NoDrift, DriftReport
<1> HIDE DEF e
<1>5. Writes(e)  BY <1>2, <1>3, <1>4, ChangeWrites
<1> QED  BY <1>3, <1>4, <1>5

------------------------------------------------------------------------------
(* The tables stay well formed.                                              *)

LEMMA TypeInit == Init => TypeOK
<1> SUFFICES ASSUME Init PROVE TypeOK  OBVIOUS
<1>1. config \in [Thresholds -> Values]  BY ThresholdAssumption DEF Init
<1>2. /\ rules \in Seq(Rule) /\ stream \in Seq([hits : Nat, level : Nat])
      /\ decisions \in Seq(Decision)
  BY EmptySeq DEF Init
<1>3. Len(stream) = Len(rules)  BY DEF Init
<1> QED  BY <1>1, <1>2, <1>3 DEF TypeOK

\* A step that writes one decision and leaves the number of rules alone.
LEMMA WritesTypes ==
  ASSUME TypeOK, NEW e \in Decision, Writes(e)
  PROVE  config' \in [Thresholds -> Values] /\ decisions' \in Seq(Decision)
BY LogOne DEF Writes, TypeOK, Appended

LEMMA TypeStep == TypeOK /\ [Next]_vars => TypeOK'
<1> SUFFICES ASSUME TypeOK, [Next]_vars PROVE TypeOK'  OBVIOUS
<1>0. rules \in Seq(Rule) /\ Len(rules) = Len(stream)  BY DEF TypeOK
<1>1. ASSUME NEW p \in Proposals, Propose(p) \/ ProposeRefused(p) PROVE TypeOK'
  <2>1. /\ stream' \in Seq([hits : Nat, level : Nat]) /\ Len(stream') = Len(stream) + 1
        /\ \E row \in Rule :
              /\ rules' = Append(rules, row)
              /\ \/ UNCHANGED <<config, decisions>>
                 \/ \E e \in Decision : Writes(e)
    BY <1>1, ProposeWrites DEF Adds
  <2>2. rules' \in Seq(Rule) /\ Len(rules') = Len(rules) + 1
    BY <1>0, <2>1, RuleAppended
  <2>3. config' \in [Thresholds -> Values] /\ decisions' \in Seq(Decision)
    BY <2>1, WritesTypes DEF TypeOK
  <2> QED  BY <1>0, <2>1, <2>2, <2>3 DEF TypeOK
<1>2. ASSUME NEW r \in RuleIds, Apply(r) PROVE TypeOK'
  <2>1. rules' \in Seq(Rule) /\ Len(rules') = Len(rules)
    BY <1>0, <1>2, ApplyWrites, RuleRewritten
  <2>2. config' \in [Thresholds -> Values] /\ decisions' \in Seq(Decision)
    BY <1>2, ApplyWrites, WritesTypes
  <2> QED  BY <1>2, <2>1, <2>2 DEF TypeOK, Apply
<1>3. ASSUME NEW r \in RuleIds, Undo(r) PROVE TypeOK'
  <2>1. rules' \in Seq(Rule) /\ Len(rules') = Len(rules)
    BY <1>0, <1>3, UndoWrites, RuleRewritten
  <2>2. config' \in [Thresholds -> Values] /\ decisions' \in Seq(Decision)
    BY <1>3, UndoWrites, WritesTypes
  <2> QED  BY <1>3, <2>1, <2>2 DEF TypeOK, Undo
<1>4. ASSUME NEW r \in RuleIds, NEW kind \in NewScopes, EditScope(r, kind) PROVE TypeOK'
  <2>1. rules' \in Seq(Rule) /\ Len(rules') = Len(rules)
    BY <1>0, <1>4, EditScopeWrites, RuleRewritten
  <2>2. config' \in [Thresholds -> Values] /\ decisions' \in Seq(Decision)
    BY <1>4, EditScopeWrites, WritesTypes
  <2> QED  BY <1>4, <2>1, <2>2 DEF TypeOK, EditScope
<1>5. ASSUME NEW r \in RuleIds, SetExpiry(r) PROVE TypeOK'
  <2>1. rules' = [rules EXCEPT ![r] = [rules[r] EXCEPT !.due = TRUE]]  BY <1>5 DEF SetExpiry
  <2>2. [rules[r] EXCEPT !.due = TRUE] \in Rule
    <3>1. rules[r] \in Rule  BY <1>0, IdsOfSeq DEF RuleIds
    <3> QED  BY <3>1 DEF Rule
  <2>3. rules' \in Seq(Rule) /\ Len(rules') = Len(rules)
    BY <1>0, <2>1, <2>2, RuleRewritten
  <2> QED  BY <1>5, <2>3 DEF TypeOK, SetExpiry
<1>6. ASSUME NEW r \in RuleIds, Keep(r) PROVE TypeOK'
  <2>1. config' \in [Thresholds -> Values] /\ decisions' \in Seq(Decision)
    BY <1>6, KeepWrites, WritesTypes
  <2> QED  BY <1>6, <2>1 DEF TypeOK, Keep
<1>7. ASSUME NEW k \in Thresholds, NEW v \in Values, PatchConfig(k, v) PROVE TypeOK'
  <2>1. config' \in [Thresholds -> Values] /\ decisions' \in Seq(Decision)
    BY <1>7, PatchConfigWrites, WritesTypes
  <2> QED  BY <1>7, <2>1 DEF TypeOK, PatchConfig
<1>8. ASSUME Scan \/ Audit PROVE TypeOK'
  <2>1. PICK order \in Orders(Due), more \in Seq(FlagDecision) : ExpireRules(order, more)
    BY <1>8, ScanOrAuditExpires
  <2>2. /\ config' \in [Thresholds -> Values] /\ decisions' \in Seq(Decision)
        /\ rules' \in Seq(Rule) /\ Len(rules') = Len(rules)
    BY <2>1, ExpireEffect
  <2>3. stream' \in Seq([hits : Nat, level : Nat]) /\ Len(stream') = Len(stream)
    BY <1>8, ScanOrAuditExpires
  <2> QED  BY <1>0, <2>2, <2>3 DEF TypeOK
<1>9. CASE UNCHANGED vars  BY <1>9 DEF TypeOK, vars
<1> QED  BY <1>1, <1>2, <1>3, <1>4, <1>5, <1>6, <1>7, <1>8, <1>9 DEF Next

\* The state is well formed in every reachable state.
THEOREM TypeCorrect == Spec => []TypeOK
BY TypeInit, TypeStep, PTL DEF Spec

------------------------------------------------------------------------------
(* The log explains the thresholds.                                          *)

\* What the log says of a threshold before entry n does not change when it grows.
LEMMA ExplainedKept ==
  ASSUME NEW log, NEW n \in Nat, DOMAIN log = 1..n,
         NEW log2, NEW m \in Nat, DOMAIN log2 = 1..m, n <= m,
         \A i \in DOMAIN log : log2[i] = log[i],
         NEW k, NEW v, NEW p \in 1..(n + 1), Explained(log, k, v, p)
  PROVE  Explained(log2, k, v, p)
<1>1. \A i \in DOMAIN log2 : i < p => i \in DOMAIN log /\ log2[i] = log[i]
  OBVIOUS
<1>2. \A i \in DOMAIN log : i \in DOMAIN log2 /\ log2[i] = log[i]  OBVIOUS
<1>3. CASE v = Seed[k] /\ \A i \in DOMAIN log : i < p => log[i].key # k
  BY <1>1, <1>3 DEF Explained
<1>4. CASE \E i \in DOMAIN log : /\ i < p /\ log[i].key = k /\ log[i].new = v
                                 /\ \A j \in DOMAIN log : i < j /\ j < p => log[j].key # k
  BY <1>1, <1>2, <1>4 DEF Explained
<1> QED  BY <1>3, <1>4 DEF Explained

\* What it says of a threshold at its end does not change when decisions that leave
\* the threshold alone are appended.
LEMMA ExplainedAcross ==
  ASSUME NEW log, NEW n \in Nat, DOMAIN log = 1..n,
         NEW log2, NEW m \in Nat, DOMAIN log2 = 1..m, n <= m,
         \A i \in DOMAIN log : log2[i] = log[i],
         NEW k, NEW v, Explained(log, k, v, n + 1),
         \A i \in DOMAIN log2 : log2[i].key = k => i \in DOMAIN log
  PROVE  Explained(log2, k, v, m + 1)
<1>1. \A i \in DOMAIN log2 : log2[i].key = k
         => i \in DOMAIN log /\ log[i].key = k /\ i < n + 1
  OBVIOUS
<1>2. \A i \in DOMAIN log : i \in DOMAIN log2 /\ i < m + 1 /\ log2[i] = log[i]  OBVIOUS
<1>3. CASE v = Seed[k] /\ \A i \in DOMAIN log : i < n + 1 => log[i].key # k
  BY <1>1, <1>3 DEF Explained
<1>4. CASE \E i \in DOMAIN log : /\ i < n + 1 /\ log[i].key = k /\ log[i].new = v
                                 /\ \A j \in DOMAIN log : i < j /\ j < n + 1
                                                          => log[j].key # k
  BY <1>1, <1>2, <1>4 DEF Explained
<1> QED  BY <1>3, <1>4 DEF Explained

\* The chain over the old entries survives an append.
LEMMA OldEntriesChain ==
  ASSUME OldValuesChain, NEW n \in Nat, DecisionIds = 1..n,
         NEW m \in Nat, DecisionIds' = 1..m, n <= m,
         \A i \in DecisionIds : decisions'[i] = decisions[i],
         NEW i \in DecisionIds,
         decisions'[i].form \in {"apply", "settings"}, decisions'[i].key # NoThreshold
  PROVE  Explained(decisions', decisions'[i].key, decisions'[i].old, i)
<1>1. Explained(decisions, decisions'[i].key, decisions'[i].old, i)  BY DEF OldValuesChain
<1>2. i \in 1..(n + 1)  OBVIOUS
<1> QED  BY <1>1, <1>2, ExplainedKept DEF DecisionIds

\* Writing one decision.
LEMMA WritesExplains ==
  ASSUME TypeOK, LogExplainsConfig, NEW e \in Decision, Writes(e)
  PROVE  LogExplainsConfig'
<1> DEFINE n == Len(decisions)
<1>1. /\ DOMAIN decisions = 1..n /\ n \in Nat /\ Len(decisions') = n + 1
      /\ DOMAIN decisions' = 1..(n + 1)
      /\ \A i \in DOMAIN decisions : decisions'[i] = decisions[i]
      /\ decisions'[n + 1] = e
  <2>1. Appended(<<e>>) /\ decisions'[n + 1] = e  BY LogOne DEF Writes, TypeOK
  <2>2. Len(<<e>>) = 1  OBVIOUS
  <2> QED  BY <2>1, <2>2 DEF Appended, DecisionIds
<1>2. SUFFICES ASSUME NEW k \in Thresholds
               PROVE  Explained(decisions', k, config'[k], n + 1 + 1)
  BY <1>1 DEF LogExplainsConfig
<1>3. CASE e.key = k
  <2>1. config'[k] = e.new  BY <1>3, ThresholdAssumption DEF Writes, TypeOK
  <2>2. n + 1 \in DOMAIN decisions' /\ n + 1 < n + 1 + 1  BY <1>1
  <2>3. \A j \in DOMAIN decisions' : ~(n + 1 < j)  BY <1>1
  <2>4. decisions'[n + 1].key = k /\ decisions'[n + 1].new = config'[k]  BY <1>1, <1>3, <2>1
  <2> HIDE DEF n
  <2> QED  BY <2>2, <2>3, <2>4 DEF Explained
<1>4. CASE e.key # k
  <2>1. config'[k] = config[k]  BY <1>4 DEF Writes, TypeOK
  <2>2. Explained(decisions, k, config'[k], n + 1)  BY <2>1 DEF LogExplainsConfig
  <2>3. \A i \in DOMAIN decisions' : decisions'[i].key = k => i \in DOMAIN decisions
    BY <1>1, <1>4
  <2>4. n + 1 \in Nat /\ n <= n + 1  BY <1>1
  <2> HIDE DEF n
  <2> QED  BY <1>1, <2>2, <2>3, <2>4, ExplainedAcross
<1> QED  BY <1>3, <1>4

LEMMA WritesChains ==
  ASSUME TypeOK, LogExplainsConfig, OldValuesChain, NEW e \in Decision, Writes(e)
  PROVE  OldValuesChain'
<1> DEFINE n == Len(decisions)
<1>1. /\ DecisionIds = 1..n /\ n \in Nat /\ n + 1 \in Nat
      /\ DecisionIds' = 1..(n + 1)
      /\ \A i \in DecisionIds : decisions'[i] = decisions[i]
      /\ decisions'[n + 1] = e
  <2>1. Appended(<<e>>) /\ decisions'[n + 1] = e  BY LogOne DEF Writes, TypeOK
  <2>2. Len(<<e>>) = 1  OBVIOUS
  <2> QED  BY <2>1, <2>2 DEF Appended
<1>2. SUFFICES ASSUME NEW i \in DecisionIds',
                      decisions'[i].form \in {"apply", "settings"},
                      decisions'[i].key # NoThreshold
               PROVE  Explained(decisions', decisions'[i].key, decisions'[i].old, i)
  BY DEF OldValuesChain
<1>3. CASE i \in DecisionIds
  <2>1. n <= n + 1  BY <1>1
  <2> HIDE DEF n
  <2> QED  BY <1>1, <1>2, <1>3, <2>1, OldEntriesChain
<1>4. CASE i = n + 1
  <2>1. e.key \in Thresholds /\ e.old = config[e.key]  BY <1>1, <1>2, <1>4 DEF Writes
  <2>2. Explained(decisions, e.key, e.old, n + 1)  BY <2>1 DEF LogExplainsConfig
  <2>3. n + 1 \in 1..(n + 1) /\ n <= n + 1  BY <1>1
  <2>4. Explained(decisions', e.key, e.old, n + 1)
    <3> HIDE DEF n
    <3> QED  BY <1>1, <2>2, <2>3, ExplainedKept DEF DecisionIds
  <2> QED  BY <1>1, <1>4, <2>4
<1> QED  BY <1>1, <1>3, <1>4

\* Expiring the due rules, in any order, then raising flags.
LEMMA ExpireExplains ==
  ASSUME TypeOK, LogExplainsConfig,
         NEW order \in Orders(Due), NEW more \in Seq(FlagDecision), ExpireRules(order, more)
  PROVE  LogExplainsConfig'
<1> DEFINE n == Len(decisions)
<1> DEFINE m == Len(decisions) + Len(order) + Len(more)
<1>1. /\ DOMAIN decisions = 1..n /\ n \in Nat /\ m \in Nat /\ n <= m
      /\ DOMAIN decisions' = 1..m /\ Len(decisions') = m
      /\ Len(order) \in Nat /\ Len(more) \in Nat /\ DOMAIN order = 1..Len(order)
      /\ \A i \in DOMAIN decisions : decisions'[i] = decisions[i]
      /\ \A i \in DOMAIN order : /\ decisions'[n + i] = ExpiryDecision(order[i])
                                 /\ order[i] \in RuleIds
      /\ \A i \in 1..Len(more) : /\ decisions'[n + Len(order) + i] = more[i]
                                 /\ more[i] \in FlagDecision
  BY ExpireEffect DEF DecisionIds
<1>2. SUFFICES ASSUME NEW k \in Thresholds
               PROVE  Explained(decisions', k, config'[k], m + 1)
  BY <1>1 DEF LogExplainsConfig
<1> DEFINE writers == {i \in DOMAIN order : Restores(order[i]) /\ rules[order[i]].key = k}
<1>3. \A j \in 1..Len(order) : decisions'[n + j].key = k => j \in writers
  <2>1. TAKE j \in 1..Len(order)
  <2>2. decisions'[n + j] = ExpiryDecision(order[j]) /\ order[j] \in RuleIds  BY <1>1
  <2>3. k # NoThreshold  BY ThresholdAssumption
  <2> HIDE DEF n
  <2> QED  BY <1>1, <2>2, <2>3, ExpiryDecisionType
<1>4. \A j \in 1..Len(more) : decisions'[n + Len(order) + j].key # k
  BY <1>1, ThresholdAssumption DEF FlagDecision
<1>5. \A j \in DOMAIN decisions' :
        \/ j \in DOMAIN decisions
        \/ \E i \in 1..Len(order) : j = n + i
        \/ \E i \in 1..Len(more) : j = n + Len(order) + i
  <2>1. TAKE j \in DOMAIN decisions'
  <2>2. CASE j <= n  BY <1>1, <2>2
  <2>3. CASE n < j /\ j <= n + Len(order)
    <3>1. j - n \in 1..Len(order) /\ j = n + (j - n)  BY <1>1, <2>3
    <3> QED  BY <3>1
  <2>4. CASE n + Len(order) < j
    <3>1. /\ j - (n + Len(order)) \in 1..Len(more)
          /\ j = n + Len(order) + (j - (n + Len(order)))
      BY <1>1, <2>4
    <3> QED  BY <3>1
  <2> QED  BY <1>1, <2>2, <2>3, <2>4
<1>6. LastRestoreWins(order, k, config'[k])  BY DEF ExpireRules
<1>7. CASE writers = {}
  <2>1. config'[k] = config[k]
    <3>1. ~(\E i \in Last(writers) : TRUE)  BY <1>7 DEF Last
    <3> QED  BY <1>6, <3>1 DEF LastRestoreWins
  <2>2. Explained(decisions, k, config'[k], n + 1)  BY <2>1 DEF LogExplainsConfig
  <2>3. \A j \in DOMAIN decisions' : decisions'[j].key = k => j \in DOMAIN decisions
    <3> HIDE DEF writers, n, m
    <3> QED  BY <1>3, <1>4, <1>5, <1>7
  <2> HIDE DEF n, m, writers
  <2> QED  BY <1>1, <2>2, <2>3, ExplainedAcross
<1>8. CASE writers # {}
  <2>1. PICK i \in Last(writers) : config'[k] = AppliedOld(order[i])
    BY <1>6, <1>8 DEF LastRestoreWins
  <2>2. i \in writers /\ \A j \in writers : j <= i  BY <2>1, LastIsOne
  <2>3. n + i \in DOMAIN decisions' /\ n + i < m + 1  BY <1>1, <2>2
  <2>4. decisions'[n + i].key = k /\ decisions'[n + i].new = config'[k]
    BY <1>1, <2>1, <2>2, ExpiryDecisionType
  <2>5. ASSUME NEW j \in DOMAIN decisions', n + i < j PROVE decisions'[j].key # k
    <3>1. i \in 1..Len(order)  BY <1>1, <2>2
    <3>2. CASE j \in DOMAIN decisions  BY <1>1, <2>5, <3>1, <3>2
    <3>3. CASE \E q \in 1..Len(order) : j = n + q
      <4>1. PICK q \in 1..Len(order) : j = n + q  BY <3>3
      <4>2. ~(q <= i)  BY <1>1, <2>5, <3>1, <4>1
      <4> HIDE DEF writers
      <4> QED  BY <1>3, <2>2, <4>1, <4>2
    <3>4. CASE \E q \in 1..Len(more) : j = n + Len(order) + q  BY <1>4, <3>4
    <3> QED  BY <1>5, <3>2, <3>3, <3>4
  <2> HIDE DEF n, m, writers
  <2> QED  BY <2>3, <2>4, <2>5 DEF Explained
<1> QED  BY <1>7, <1>8

LEMMA ExpireChains ==
  ASSUME TypeOK, OldValuesChain,
         NEW order \in Orders(Due), NEW more \in Seq(FlagDecision), ExpireRules(order, more)
  PROVE  OldValuesChain'
<1> DEFINE n == Len(decisions)
<1> DEFINE m == Len(decisions) + Len(order) + Len(more)
<1>1. /\ DecisionIds = 1..n /\ n \in Nat /\ DecisionIds' = 1..m
      /\ Len(order) \in Nat /\ Len(more) \in Nat /\ DOMAIN order = 1..Len(order)
      /\ \A i \in DecisionIds : decisions'[i] = decisions[i]
      /\ \A i \in DOMAIN order : /\ decisions'[n + i] = ExpiryDecision(order[i])
                                 /\ order[i] \in RuleIds
      /\ \A i \in 1..Len(more) : /\ decisions'[n + Len(order) + i] = more[i]
                                 /\ more[i] \in FlagDecision
  BY ExpireEffect
<1>2. SUFFICES ASSUME NEW i \in DecisionIds',
                      decisions'[i].form \in {"apply", "settings"},
                      decisions'[i].key # NoThreshold
               PROVE  Explained(decisions', decisions'[i].key, decisions'[i].old, i)
  BY DEF OldValuesChain
<1>3. CASE i \in DecisionIds
  <2>1. m \in Nat /\ n <= m  BY <1>1
  <2> HIDE DEF n, m
  <2> QED  BY <1>1, <1>2, <1>3, <2>1, OldEntriesChain
<1>4. CASE n < i /\ i <= n + Len(order)
  <2>1. i - n \in 1..Len(order) /\ n + (i - n) = i  BY <1>1, <1>4
  <2>2. decisions'[i] = ExpiryDecision(order[i - n]) /\ order[i - n] \in RuleIds
    BY <1>1, <2>1
  <2>3. decisions'[i].form = "expired"  BY <2>2, ExpiryDecisionType
  <2> QED  BY <1>2, <2>3
<1>5. CASE n + Len(order) < i
  <2>1. /\ i - (n + Len(order)) \in 1..Len(more)
        /\ n + Len(order) + (i - (n + Len(order))) = i
    BY <1>1, <1>5
  <2>2. PICK k \in 1..Len(more) : n + Len(order) + k = i  BY <2>1
  <2>3. decisions'[i] = more[k] /\ more[k] \in FlagDecision  BY <1>1, <2>2
  <2>4. decisions'[i].form = "review"  BY <2>3 DEF FlagDecision
  <2> QED  BY <1>2, <2>4
<1> QED  BY <1>1, <1>3, <1>4, <1>5

LEMMA LogInit == Init => LogExplainsConfig /\ OldValuesChain
<1> SUFFICES ASSUME Init PROVE LogExplainsConfig /\ OldValuesChain  OBVIOUS
<1>1. DecisionIds = {} /\ DOMAIN decisions = {}  BY DEF Init, DecisionIds
<1>2. config = Seed  BY DEF Init
<1> QED  BY <1>1, <1>2 DEF LogExplainsConfig, OldValuesChain, Explained

LEMMA LogStep ==
  TypeOK /\ LogExplainsConfig /\ OldValuesChain /\ [Next]_vars
    => LogExplainsConfig' /\ OldValuesChain'
<1> SUFFICES ASSUME TypeOK, LogExplainsConfig, OldValuesChain, [Next]_vars
             PROVE  LogExplainsConfig' /\ OldValuesChain'
  OBVIOUS
<1>1. ASSUME NEW e \in Decision, Writes(e) PROVE LogExplainsConfig' /\ OldValuesChain'
  BY <1>1, WritesExplains, WritesChains
<1>2. ASSUME UNCHANGED <<config, decisions>> PROVE LogExplainsConfig' /\ OldValuesChain'
  BY <1>2 DEF LogExplainsConfig, OldValuesChain, DecisionIds
<1>3. ASSUME NEW p \in Proposals, Propose(p) \/ ProposeRefused(p)
      PROVE  LogExplainsConfig' /\ OldValuesChain'
  BY <1>1, <1>2, <1>3, ProposeWrites DEF Adds
<1>4. ASSUME NEW r \in RuleIds, Apply(r) PROVE LogExplainsConfig' /\ OldValuesChain'
  BY <1>1, <1>4, ApplyWrites
<1>5. ASSUME NEW r \in RuleIds, Undo(r) PROVE LogExplainsConfig' /\ OldValuesChain'
  BY <1>1, <1>5, UndoWrites
<1>6. ASSUME NEW r \in RuleIds, NEW kind \in NewScopes, EditScope(r, kind)
      PROVE  LogExplainsConfig' /\ OldValuesChain'
  BY <1>1, <1>6, EditScopeWrites
<1>7. ASSUME NEW r \in RuleIds, SetExpiry(r) PROVE LogExplainsConfig' /\ OldValuesChain'
  BY <1>2, <1>7 DEF SetExpiry
<1>8. ASSUME NEW r \in RuleIds, Keep(r) PROVE LogExplainsConfig' /\ OldValuesChain'
  BY <1>1, <1>8, KeepWrites
<1>9. ASSUME NEW k \in Thresholds, NEW v \in Values, PatchConfig(k, v)
      PROVE  LogExplainsConfig' /\ OldValuesChain'
  BY <1>1, <1>9, PatchConfigWrites
<1>10. ASSUME Scan \/ Audit PROVE LogExplainsConfig' /\ OldValuesChain'
  BY <1>10, ScanOrAuditExpires, ExpireExplains, ExpireChains
<1>11. CASE UNCHANGED vars  BY <1>2, <1>11 DEF vars
<1> QED  BY <1>3, <1>4, <1>5, <1>6, <1>7, <1>8, <1>9, <1>10, <1>11 DEF Next

\* The value in force of every threshold is explained by the log, ...
THEOREM ConfigExplained == Spec => []LogExplainsConfig
<1>1. Init => TypeOK /\ LogExplainsConfig /\ OldValuesChain  BY TypeInit, LogInit
<1>2. /\ TypeOK /\ LogExplainsConfig /\ OldValuesChain /\ [Next]_vars
      => (TypeOK /\ LogExplainsConfig /\ OldValuesChain)'
  BY TypeStep, LogStep
<1> QED  BY <1>1, <1>2, PTL DEF Spec

\* ... and every old value an apply or a settings change recorded was the one in force.
THEOREM ChainUnbroken == Spec => []OldValuesChain
<1>1. Init => TypeOK /\ LogExplainsConfig /\ OldValuesChain  BY TypeInit, LogInit
<1>2. /\ TypeOK /\ LogExplainsConfig /\ OldValuesChain /\ [Next]_vars
      => (TypeOK /\ LogExplainsConfig /\ OldValuesChain)'
  BY TypeStep, LogStep
<1> QED  BY <1>1, <1>2, PTL DEF Spec

------------------------------------------------------------------------------
(* The log explains the status of the rules.                                 *)

\* Every decision but a settings change is about a rule that exists.
RuleRefs ==
    \A i \in DecisionIds :
      /\ decisions[i].form = "settings" => decisions[i].rule = 0
      /\ decisions[i].form # "settings" => decisions[i].rule \in RuleIds

\* The inductive invariant behind StatusMatchesLog and ClosingIsFinal.
StatusInv == RuleRefs /\ StatusMatchesLog /\ ClosingIsFinal

\* The log grew, and nothing that was in it changed.
Grew(n, m) ==
    /\ n \in Nat /\ m \in Nat /\ n <= m
    /\ DecisionIds = 1..n /\ DecisionIds' = 1..m
    /\ \A i \in DecisionIds : i \in DecisionIds' /\ decisions'[i] = decisions[i]

\* The decisions that neither apply nor close a rule.
Quiet == {"edit", "settings", "review", "keep"}

\* A rule agrees with the log as long as its status does not change and no new decision
\* applies or closes it.
LEMMA UntouchedAgrees ==
  ASSUME NEW n, NEW m, Grew(n, m), NEW r, StatusAgrees(r),
         rules'[r].status = rules[r].status, Stranded(rules'[r]) = Stranded(rules[r]),
         \A i \in DecisionIds' \ DecisionIds : \/ decisions'[i].rule # r
                                              \/ decisions'[i].form \in Quiet
  PROVE  StatusAgrees(r)'
<1>1. \A i \in DecisionIds' : IsApply(i, r)' => i \in DecisionIds /\ IsApply(i, r)
  BY DEF Grew, IsApply, Quiet
<1>2. \A i \in DecisionIds' : IsClose(i, r)' => i \in DecisionIds /\ IsClose(i, r)
  BY DEF Grew, IsClose, Quiet
<1>3. \A i \in DecisionIds : i \in DecisionIds' /\ (IsApply(i, r) => IsApply(i, r)')
  BY DEF Grew, IsApply
<1>4. \A i \in DecisionIds : IsClose(i, r) => IsClose(i, r)'
  BY DEF Grew, IsClose
<1>5. \A i \in DecisionIds : decisions'[i] = decisions[i]  BY DEF Grew
<1> QED  BY <1>1, <1>2, <1>3, <1>4, <1>5 DEF StatusAgrees

\* The shape of a step that writes one decision.
LEMMA WritesGrows ==
  ASSUME TypeOK, NEW e \in Decision, Writes(e)
  PROVE  /\ Grew(Len(decisions), Len(decisions) + 1)
         /\ decisions'[Len(decisions) + 1] = e
         /\ \A i \in DecisionIds' \ DecisionIds : i = Len(decisions) + 1
         /\ Len(decisions) + 1 \in DecisionIds'
         /\ Len(decisions) + 1 \notin DecisionIds
<1> DEFINE n == Len(decisions)
<1>1. Appended(<<e>>) /\ decisions'[n + 1] = e  BY LogOne DEF Writes, TypeOK
<1>2. Len(<<e>>) = 1  OBVIOUS
<1>3. /\ n \in Nat /\ DecisionIds = 1..n /\ DecisionIds' = 1..(n + 1)
      /\ \A i \in DecisionIds : decisions'[i] = decisions[i]
  BY <1>1, <1>2 DEF Appended
<1> HIDE DEF n
<1>4. Grew(n, n + 1)  BY <1>3 DEF Grew
<1>5. /\ \A i \in DecisionIds' \ DecisionIds : i = n + 1
      /\ n + 1 \in DecisionIds' /\ n + 1 \notin DecisionIds
  BY <1>3
<1> QED  BY <1>1, <1>4, <1>5 DEF n

\* A decision about no closed rule keeps closings final.
LEMMA WritesFinal ==
  ASSUME TypeOK, ClosingIsFinal, NEW e \in Decision, Writes(e),
         \A i \in DecisionIds : decisions[i].form \in {"undo", "expired"}
                                => decisions[i].rule # e.rule
  PROVE  ClosingIsFinal'
<1> DEFINE n == Len(decisions)
<1>1. /\ n \in Nat /\ DecisionIds = 1..n /\ DecisionIds' = 1..(n + 1)
      /\ \A i \in DecisionIds : decisions'[i] = decisions[i]
      /\ decisions'[n + 1] = e
  BY WritesGrows DEF Grew
<1> HIDE DEF n
<1>2. SUFFICES ASSUME NEW i \in DecisionIds', NEW j \in DecisionIds',
                      decisions'[i].form \in {"undo", "expired"}, j > i
               PROVE  decisions'[j].rule # decisions'[i].rule
  BY DEF ClosingIsFinal
<1>3. i \in DecisionIds  BY <1>1, <1>2
<1>4. CASE j \in DecisionIds  BY <1>1, <1>2, <1>3, <1>4 DEF ClosingIsFinal
<1>5. CASE j = n + 1  BY <1>1, <1>2, <1>3, <1>5
<1> QED  BY <1>1, <1>4, <1>5

\* A live rule has not been closed, and rule 0 does not exist.
LEMMA LiveIsNotClosed ==
  ASSUME StatusInv, NEW r \in RuleIds, rules[r].status \in {"active", "pending_confirm"}
  PROVE  \A i \in DecisionIds : decisions[i].form \in {"undo", "expired"}
                                => decisions[i].rule # r
BY DEF StatusInv, StatusMatchesLog, StatusAgrees, IsClose

\* The references of a log that grew by one decision about an existing rule.
LEMMA WritesRefs ==
  ASSUME TypeOK, RuleRefs, NEW e \in Decision, Writes(e), RuleIds \subseteq RuleIds',
         IF e.form = "settings" THEN e.rule = 0 ELSE e.rule \in RuleIds'
  PROVE  RuleRefs'
BY WritesGrows DEF RuleRefs, Grew

\* The new rule of a proposal.
LEMMA AddedStatus ==
  ASSUME TypeOK, StatusInv, NEW row \in Rule, Adds(row)
  PROVE  StatusInv'
<1> DEFINE r == Len(rules) + 1
<1>1. /\ rules' = Append(rules, row)
      /\ \/ /\ row.status = "pending_confirm" \/ (row.status = "active" /\ Stranded(row))
            /\ UNCHANGED <<config, decisions>>
         \/ /\ row.status = "active" /\ ~Stranded(row)
            /\ \E e \in Decision : Writes(e) /\ e.form = "apply" /\ e.rule = Len(rules) + 1
  BY DEF Adds
<1>2. /\ RuleIds' = RuleIds \cup {r} /\ rules'[r] = row
      /\ \A q \in RuleIds : rules'[q] = rules[q]
  BY <1>1, RuleAppended DEF TypeOK
<1>3. r \notin RuleIds /\ r # 0  BY IdsOfSeq DEF TypeOK, RuleIds
<1>4. \A i \in DecisionIds : decisions[i].rule # r  BY <1>3 DEF StatusInv, RuleRefs
<1> HIDE DEF r
<1>5. CASE /\ row.status = "pending_confirm" \/ (row.status = "active" /\ Stranded(row))
           /\ UNCHANGED <<config, decisions>>
  <2>1. RuleRefs' /\ ClosingIsFinal'
    BY <1>2, <1>5 DEF StatusInv, RuleRefs, ClosingIsFinal, DecisionIds
  <2>2. ASSUME NEW q \in RuleIds PROVE StatusAgrees(q)'
    <3>1. StatusAgrees(q) /\ rules'[q] = rules[q]  BY <1>2 DEF StatusInv, StatusMatchesLog
    <3> QED  BY <1>5, <3>1 DEF StatusAgrees, DecisionIds, IsApply, IsClose
  <2>3. ASSUME NEW q \in RuleIds', q = r PROVE StatusAgrees(q)'
    <3>1. \/ rules'[q].status = "pending_confirm"
          \/ rules'[q].status = "active" /\ Stranded(rules'[q])
      BY <1>2, <1>5, <2>3
    <3>2. DecisionIds' = DecisionIds /\ \A i \in DecisionIds : decisions'[i].rule # q
      BY <1>4, <1>5, <2>3 DEF DecisionIds
    <3> QED  BY <3>1, <3>2 DEF StatusAgrees, IsApply, IsClose
  <2>4. \A q \in RuleIds' : StatusAgrees(q)'  BY <1>2, <2>2, <2>3
  <2> QED  BY <2>1, <2>4 DEF StatusInv, StatusMatchesLog
<1>6. ASSUME row.status = "active", ~Stranded(row),
             NEW e \in Decision, Writes(e), e.form = "apply", e.rule = r
      PROVE  StatusInv'
  <2> DEFINE n == Len(decisions)
  <2>1. /\ Grew(n, n + 1) /\ decisions'[n + 1] = e
        /\ \A i \in DecisionIds' \ DecisionIds : i = n + 1
        /\ n + 1 \in DecisionIds'
    BY <1>6, WritesGrows
  <2> HIDE DEF n
  <2>2. RuleRefs'  BY <1>2, <1>6, WritesRefs DEF StatusInv
  <2>3. ClosingIsFinal'  BY <1>4, <1>6, WritesFinal DEF StatusInv
  <2>4. ASSUME NEW q \in RuleIds PROVE StatusAgrees(q)'
    <3>1. StatusAgrees(q)  BY DEF StatusInv, StatusMatchesLog
    <3>2. \A i \in DecisionIds' \ DecisionIds : decisions'[i].rule # q
      BY <1>3, <1>6, <2>1
    <3>3. rules'[q].status = rules[q].status /\ Stranded(rules'[q]) = Stranded(rules[q])
      BY <1>2
    <3> QED  BY <2>1, <3>1, <3>2, <3>3, UntouchedAgrees
  <2>5. ASSUME NEW q \in RuleIds', q = r PROVE StatusAgrees(q)'
    <3>1. \A i \in DecisionIds' : decisions'[i].rule = q => decisions'[i] = e
      BY <1>4, <2>1, <2>5 DEF Grew
    <3>2. \A i, j \in DecisionIds' : decisions'[i].rule = q /\ decisions'[j].rule = q => i = j
      BY <1>4, <2>1, <2>5 DEF Grew
    <3>3. \E i \in DecisionIds' : IsApply(i, q)'  BY <1>6, <2>1, <2>5 DEF IsApply
    <3>4. \A i \in DecisionIds' : ~IsClose(i, q)'  BY <1>6, <3>1 DEF IsClose
    <3>5. \A i \in DecisionIds' : IsApply(i, q)' => decisions'[i].rule = q  BY DEF IsApply
    <3>6. rules'[q].status = "active" /\ ~Stranded(rules'[q])  BY <1>2, <1>6, <2>5
    <3> QED  BY <3>2, <3>3, <3>4, <3>5, <3>6 DEF StatusAgrees
  <2>6. \A q \in RuleIds' : StatusAgrees(q)'  BY <1>2, <2>4, <2>5
  <2> QED  BY <2>2, <2>3, <2>6 DEF StatusInv, StatusMatchesLog
<1> QED  BY <1>1, <1>5, <1>6 DEF r

\* A step that writes one decision about a live rule and rewrites only its row.
LEMMA RewriteStatus ==
  ASSUME TypeOK, StatusInv, NEW r \in RuleIds,
         rules[r].status \in {"active", "pending_confirm"},
         NEW row \in Rule, rules' = [rules EXCEPT ![r] = row],
         NEW e \in Decision, Writes(e), e.rule = r, e.form # "settings",
         \/ /\ e.form = "apply" /\ rules[r].status = "pending_confirm" /\ row.status = "active"
            /\ ~Stranded(row)
         \/ e.form = "undo" /\ row.status = "reverted"
         \/ /\ e.form \in {"edit", "keep"} /\ row.status = rules[r].status
            /\ Stranded(row) = Stranded(rules[r])
  PROVE  StatusInv'
<1> DEFINE n == Len(decisions)
<1>1. /\ Grew(n, n + 1) /\ decisions'[n + 1] = e
      /\ \A i \in DecisionIds' \ DecisionIds : i = n + 1
      /\ n + 1 \in DecisionIds' /\ n + 1 \notin DecisionIds
  BY WritesGrows
<1> HIDE DEF n
<1>2. RuleIds' = RuleIds /\ rules'[r] = row /\ \A q \in RuleIds : q # r => rules'[q] = rules[q]
  <2>1. rules \in Seq(Rule)  BY DEF TypeOK
  <2>2. RuleIds' = RuleIds /\ \A q \in RuleIds : rules'[q] = IF q = r THEN row ELSE rules[q]
    BY <2>1, RuleRewritten, Zenon
  <2> QED  BY <2>2
<1>3. RuleRefs'  BY <1>2, WritesRefs DEF StatusInv
<1>4. ClosingIsFinal'  BY LiveIsNotClosed, WritesFinal DEF StatusInv
<1>5. ASSUME NEW q \in RuleIds, q # r PROVE StatusAgrees(q)'
  <2>1. StatusAgrees(q)  BY DEF StatusInv, StatusMatchesLog
  <2>2. \A i \in DecisionIds' \ DecisionIds : decisions'[i].rule # q  BY <1>1, <1>5
  <2>3. rules'[q].status = rules[q].status /\ Stranded(rules'[q]) = Stranded(rules[q])
    BY <1>2, <1>5
  <2> QED  BY <1>1, <2>1, <2>2, <2>3, UntouchedAgrees
<1>6. StatusAgrees(r)  BY DEF StatusInv, StatusMatchesLog
<1>7. \A i \in DecisionIds' : (i \in DecisionIds /\ decisions'[i] = decisions[i]) \/ i = n + 1
  BY <1>1 DEF Grew
<1>8. \A i \in DecisionIds : i \in DecisionIds' /\ decisions'[i] = decisions[i]
  BY <1>1 DEF Grew
<1>9. \A i \in DecisionIds : ~IsClose(i, r)  BY <1>6 DEF StatusAgrees
<1>10. CASE /\ e.form = "apply" /\ rules[r].status = "pending_confirm" /\ row.status = "active"
            /\ ~Stranded(row)
  <2>1. \A i \in DecisionIds : ~IsApply(i, r)  BY <1>6, <1>10 DEF StatusAgrees
  <2>2. \A i \in DecisionIds' : IsApply(i, r)' <=> i = n + 1
    BY <1>1, <1>7, <1>10, <2>1 DEF IsApply
  <2>3. \A i \in DecisionIds' : ~IsClose(i, r)'
    BY <1>1, <1>7, <1>9, <1>10 DEF IsClose
  <2>4. rules'[r].status = "active" /\ ~Stranded(rules'[r])  BY <1>2, <1>10
  <2>5. StatusAgrees(r)'  BY <1>1, <2>2, <2>3, <2>4 DEF StatusAgrees
  <2> QED  BY <1>2, <1>3, <1>4, <1>5, <2>5 DEF StatusInv, StatusMatchesLog
<1>11. CASE e.form = "undo" /\ row.status = "reverted"
  <2>1. \A i \in DecisionIds' : IsApply(i, r)' => i \in DecisionIds /\ IsApply(i, r)
    BY <1>1, <1>7, <1>11 DEF IsApply
  <2>2. \A i \in DecisionIds' : IsClose(i, r)' <=> i = n + 1
    BY <1>1, <1>7, <1>9, <1>11 DEF IsClose
  <2>3. decisions'[n + 1].form = "undo"  BY <1>1, <1>11
  <2>4. rules'[r].status = "reverted"  BY <1>2, <1>11
  <2>5. StatusAgrees(r)'  BY <1>1, <1>6, <2>1, <2>2, <2>3, <2>4 DEF StatusAgrees
  <2> QED  BY <1>2, <1>3, <1>4, <1>5, <2>5 DEF StatusInv, StatusMatchesLog
<1>12. CASE /\ e.form \in {"edit", "keep"} /\ row.status = rules[r].status
            /\ Stranded(row) = Stranded(rules[r])
  <2>1. \A i \in DecisionIds' \ DecisionIds : decisions'[i].form \in Quiet
    BY <1>1, <1>12 DEF Quiet
  <2>2. rules'[r].status = rules[r].status /\ Stranded(rules'[r]) = Stranded(rules[r])
    BY <1>2, <1>12
  <2>3. StatusAgrees(r)'  BY <1>1, <1>6, <2>1, <2>2, UntouchedAgrees
  <2> QED  BY <1>2, <1>3, <1>4, <1>5, <2>3 DEF StatusInv, StatusMatchesLog
<1> QED  BY <1>10, <1>11, <1>12

\* A step that writes one quiet decision, about no closed rule, and no rule.
LEMMA QuietStatus ==
  ASSUME TypeOK, StatusInv, UNCHANGED rules, NEW e \in Decision, Writes(e), e.form \in Quiet,
         IF e.form = "settings" THEN e.rule = 0 ELSE e.rule \in RuleIds,
         \A i \in DecisionIds : decisions[i].form \in {"undo", "expired"}
                                => decisions[i].rule # e.rule
  PROVE  StatusInv'
<1> DEFINE n == Len(decisions)
<1>1. /\ Grew(n, n + 1) /\ decisions'[n + 1] = e
      /\ \A i \in DecisionIds' \ DecisionIds : i = n + 1
  BY WritesGrows
<1> HIDE DEF n
<1>2. RuleIds' = RuleIds  BY DEF RuleIds
<1>3. RuleRefs'  BY <1>2, WritesRefs DEF StatusInv
<1>4. ClosingIsFinal'  BY WritesFinal DEF StatusInv
<1>5. ASSUME NEW q \in RuleIds PROVE StatusAgrees(q)'
  <2>1. StatusAgrees(q)  BY DEF StatusInv, StatusMatchesLog
  <2>2. \A i \in DecisionIds' \ DecisionIds : decisions'[i].form \in Quiet  BY <1>1
  <2> QED  BY <1>1, <2>1, <2>2, UntouchedAgrees
<1> QED  BY <1>2, <1>3, <1>4, <1>5 DEF StatusInv, StatusMatchesLog

\* Where the entries of an expiring step come from.
LEMMA ExpireEntries ==
  ASSUME TypeOK, NEW order \in Orders(Due), NEW more \in Seq(FlagDecision),
         ExpireRules(order, more)
  PROVE  /\ Grew(Len(decisions), Len(decisions) + Len(order) + Len(more))
         /\ \A i \in DecisionIds' \ DecisionIds :
              \/ decisions'[i].form = "expired" /\ decisions'[i].rule \in Due
              \/ decisions'[i].form = "review" /\ decisions'[i].rule \in Suppressing
         /\ \A r \in Due : \E i \in DecisionIds' \ DecisionIds :
              decisions'[i].form = "expired" /\ decisions'[i].rule = r
         /\ \A i, j \in DecisionIds' \ DecisionIds :
              /\ decisions'[i].form = "expired" /\ decisions'[j].form = "expired"
              /\ decisions'[i].rule = decisions'[j].rule
              => i = j
<1> DEFINE n == Len(decisions)
<1> DEFINE m == Len(decisions) + Len(order) + Len(more)
<1>1. /\ DecisionIds = 1..n /\ n \in Nat /\ DecisionIds' = 1..m
      /\ Len(order) \in Nat /\ Len(more) \in Nat /\ DOMAIN order = 1..Len(order)
      /\ \A i \in DecisionIds : decisions'[i] = decisions[i]
      /\ \A i \in DOMAIN order : /\ decisions'[n + i] = ExpiryDecision(order[i])
                                 /\ order[i] \in RuleIds /\ order[i] \in Due
      /\ \A i \in 1..Len(more) : /\ decisions'[n + Len(order) + i] = more[i]
                                 /\ more[i] \in FlagDecision
      /\ \A r \in Due : \E i \in DOMAIN order : order[i] = r
      /\ \A i, j \in DOMAIN order : order[i] = order[j] => i = j
  BY ExpireEffect
<1>2. Grew(n, m)  BY <1>1 DEF Grew
<1>3. ASSUME NEW i \in DecisionIds' \ DecisionIds
      PROVE  \/ /\ i - n \in DOMAIN order /\ decisions'[i].form = "expired"
                /\ decisions'[i].rule = order[i - n] /\ order[i - n] \in Due
             \/ decisions'[i].form = "review" /\ decisions'[i].rule \in Suppressing
  <2>1. CASE i <= n + Len(order)
    <3>1. i - n \in 1..Len(order) /\ n + (i - n) = i  BY <1>1, <1>3, <2>1
    <3>2. /\ decisions'[i] = ExpiryDecision(order[i - n])
          /\ order[i - n] \in RuleIds /\ order[i - n] \in Due
      BY <1>1, <3>1
    <3> HIDE DEF n
    <3>3. decisions'[i].form = "expired" /\ decisions'[i].rule = order[i - n]
      BY <3>2, ExpiryDecisionType
    <3> QED  BY <1>1, <3>1, <3>2, <3>3
  <2>2. CASE n + Len(order) < i
    <3>1. /\ i - (n + Len(order)) \in 1..Len(more)
          /\ n + Len(order) + (i - (n + Len(order))) = i
      BY <1>1, <1>3, <2>2
    <3>2. decisions'[i] \in FlagDecision  BY <1>1, <3>1
    <3> QED  BY <3>2 DEF FlagDecision
  <2> QED  BY <1>1, <1>3, <2>1, <2>2
<1>4. ASSUME NEW r \in Due
      PROVE  \E i \in DecisionIds' \ DecisionIds :
               decisions'[i].form = "expired" /\ decisions'[i].rule = r
  <2>1. PICK i \in DOMAIN order : order[i] = r  BY <1>1
  <2>2. n + i \in DecisionIds' \ DecisionIds  BY <1>1, <2>1
  <2>3. decisions'[n + i] = ExpiryDecision(r) /\ r \in RuleIds  BY <1>1, <2>1
  <2> HIDE DEF n
  <2>4. decisions'[n + i].form = "expired" /\ decisions'[n + i].rule = r
    BY <2>3, ExpiryDecisionType
  <2> QED  BY <2>2, <2>4
<1>5. ASSUME NEW i \in DecisionIds' \ DecisionIds, NEW j \in DecisionIds' \ DecisionIds,
             decisions'[i].form = "expired", decisions'[j].form = "expired",
             decisions'[i].rule = decisions'[j].rule
      PROVE  i = j
  <2>1. /\ i - n \in DOMAIN order /\ j - n \in DOMAIN order
        /\ order[i - n] = order[j - n]
    BY <1>3, <1>5
  <2>2. i - n = j - n  BY <1>1, <2>1
  <2>3. i \in Nat /\ j \in Nat  BY <1>1
  <2> QED  BY <1>1, <2>2, <2>3
<1> HIDE DEF n, m
<1> QED  BY <1>2, <1>3, <1>4, <1>5 DEF n, m

LEMMA ExpireStatus ==
  ASSUME TypeOK, StatusInv,
         NEW order \in Orders(Due), NEW more \in Seq(FlagDecision), ExpireRules(order, more)
  PROVE  StatusInv'
<1>1. PICK n, m : Grew(n, m)  BY ExpireEntries
<1>2. /\ \A i \in DecisionIds' \ DecisionIds :
           \/ decisions'[i].form = "expired" /\ decisions'[i].rule \in Due
           \/ decisions'[i].form = "review" /\ decisions'[i].rule \in Suppressing
      /\ \A r \in Due : \E i \in DecisionIds' \ DecisionIds :
           decisions'[i].form = "expired" /\ decisions'[i].rule = r
      /\ \A i, j \in DecisionIds' \ DecisionIds :
           /\ decisions'[i].form = "expired" /\ decisions'[j].form = "expired"
           /\ decisions'[i].rule = decisions'[j].rule
           => i = j
  BY ExpireEntries
<1>3. /\ RuleIds' = RuleIds
      /\ \A r \in RuleIds :
           rules'[r] = IF r \in Due THEN [rules[r] EXCEPT !.status = "expired"] ELSE rules[r]
  BY ExpireEffect
<1>4. /\ Due \subseteq RuleIds /\ Suppressing \subseteq RuleIds
      /\ \A r \in Due : r \notin Suppressing
      /\ \A r \in Due \cup Suppressing : rules[r].status = "active"
  BY DEF Due, Suppressing
<1>5. RuleRefs'  BY <1>1, <1>2, <1>3, <1>4 DEF StatusInv, RuleRefs, Grew
<1>6. ClosingIsFinal'
  <2> SUFFICES ASSUME NEW i \in DecisionIds', NEW j \in DecisionIds',
                      decisions'[i].form \in {"undo", "expired"}, j > i
               PROVE  decisions'[j].rule # decisions'[i].rule
    BY DEF ClosingIsFinal
  <2>1. CASE i \in DecisionIds /\ j \in DecisionIds
    BY <1>1, <2>1 DEF Grew, StatusInv, ClosingIsFinal
  <2>2. CASE i \in DecisionIds /\ j \notin DecisionIds
    <3>1. decisions'[j].rule \in RuleIds /\ rules[decisions'[j].rule].status = "active"
      BY <1>2, <1>4, <2>2
    <3>2. decisions'[i] = decisions[i]  BY <1>1, <2>2 DEF Grew
    <3> QED  BY <2>2, <3>1, <3>2, LiveIsNotClosed
  <2>3. CASE i \notin DecisionIds /\ j \in DecisionIds  BY <1>1, <2>3 DEF Grew
  <2>4. CASE i \notin DecisionIds /\ j \notin DecisionIds
    <3>1. decisions'[i].form = "expired" /\ decisions'[i].rule \in Due  BY <1>2, <2>4
    <3>2. CASE decisions'[j].form = "expired"
      <4>1. i # j  BY <1>1 DEF Grew
      <4> QED  BY <1>2, <2>4, <3>1, <3>2, <4>1
    <3>3. CASE decisions'[j].form # "expired"  BY <1>2, <1>4, <2>4, <3>1, <3>3
    <3> QED  BY <3>2, <3>3
  <2> QED  BY <2>1, <2>2, <2>3, <2>4
<1>7. ASSUME NEW q \in RuleIds, q \notin Due PROVE StatusAgrees(q)'
  <2>1. StatusAgrees(q)  BY DEF StatusInv, StatusMatchesLog
  <2>2. rules'[q].status = rules[q].status /\ Stranded(rules'[q]) = Stranded(rules[q])
    BY <1>3, <1>7
  <2>3. \A i \in DecisionIds' \ DecisionIds : \/ decisions'[i].rule # q
                                              \/ decisions'[i].form \in Quiet
    BY <1>2, <1>7 DEF Quiet
  <2> QED  BY <1>1, <2>1, <2>2, <2>3, UntouchedAgrees
<1>8. ASSUME NEW q \in RuleIds, q \in Due PROVE StatusAgrees(q)'
  <2>1. StatusAgrees(q) /\ rules[q].status = "active" /\ q \notin Suppressing
    BY <1>4, <1>8 DEF StatusInv, StatusMatchesLog
  <2>2. rules'[q].status = "expired" /\ Stranded(rules'[q]) = Stranded(rules[q])
    <3>1. rules[q] \in Rule  BY IdsOfSeq DEF TypeOK, RuleIds
    <3> QED  BY <1>3, <1>8, <3>1 DEF Rule, Stranded
  <2>3. \A i \in DecisionIds : ~IsClose(i, q)  BY <2>1 DEF StatusAgrees
  <2>4. \A i \in DecisionIds' : IsApply(i, q)' => i \in DecisionIds /\ IsApply(i, q)
    BY <1>1, <1>2 DEF Grew, IsApply
  <2>5. \A i \in DecisionIds' : IsClose(i, q)' => decisions'[i].form = "expired"
    BY <1>1, <1>2, <2>3 DEF Grew, IsClose
  <2>6. \E i \in DecisionIds' : IsClose(i, q)'  BY <1>2, <1>8 DEF IsClose
  <2>7. \A i \in DecisionIds : i \in DecisionIds' /\ (IsApply(i, q) => IsApply(i, q)')
    BY <1>1 DEF Grew, IsApply
  <2> QED  BY <2>1, <2>2, <2>4, <2>5, <2>6, <2>7 DEF StatusAgrees
<1> QED  BY <1>3, <1>5, <1>6, <1>7, <1>8 DEF StatusInv, StatusMatchesLog

LEMMA StatusInit == Init => StatusInv
<1> SUFFICES ASSUME Init PROVE StatusInv  OBVIOUS
<1>1. DecisionIds = {} /\ RuleIds = {}  BY DEF Init, DecisionIds, RuleIds
<1> QED  BY <1>1 DEF StatusInv, RuleRefs, StatusMatchesLog, ClosingIsFinal

LEMMA StatusStep == TypeOK /\ StatusInv /\ [Next]_vars => StatusInv'
<1> SUFFICES ASSUME TypeOK, StatusInv, [Next]_vars PROVE StatusInv'  OBVIOUS
<1>1. ASSUME NEW p \in Proposals, Propose(p) \/ ProposeRefused(p) PROVE StatusInv'
  BY <1>1, ProposeWrites, AddedStatus
<1>2. ASSUME NEW r \in RuleIds, Apply(r) PROVE StatusInv'
  <2>1. rules[r].status = "pending_confirm"  BY <1>2, ApplyWrites
  <2>2. PICK row \in Rule : /\ row.status = "active" /\ rules' = [rules EXCEPT ![r] = row]
                            /\ ~Stranded(row)
    BY <1>2, ApplyWrites
  <2>3. PICK e \in Decision : Writes(e) /\ e.form = "apply" /\ e.rule = r
    BY <1>2, ApplyWrites
  <2> QED  BY <2>1, <2>2, <2>3, RewriteStatus
<1>3. ASSUME NEW r \in RuleIds, Undo(r) PROVE StatusInv'
  <2>1. rules[r].status \in {"active", "pending_confirm"}  BY <1>3, UndoWrites
  <2>2. PICK row \in Rule : row.status = "reverted" /\ rules' = [rules EXCEPT ![r] = row]
    BY <1>3, UndoWrites
  <2>3. PICK e \in Decision : Writes(e) /\ e.form = "undo" /\ e.rule = r
    BY <1>3, UndoWrites
  <2> QED  BY <2>1, <2>2, <2>3, RewriteStatus
<1>4. ASSUME NEW r \in RuleIds, NEW kind \in NewScopes, EditScope(r, kind) PROVE StatusInv'
  <2>1. rules[r].status \in {"active", "pending_confirm"}  BY <1>4, EditScopeWrites
  <2>2. PICK row \in Rule : /\ row.status = rules[r].status /\ rules' = [rules EXCEPT ![r] = row]
                            /\ Stranded(row) = Stranded(rules[r])
    BY <1>4, EditScopeWrites
  <2>3. PICK e \in Decision : Writes(e) /\ e.form = "edit" /\ e.rule = r
    BY <1>4, EditScopeWrites
  <2> QED  BY <2>1, <2>2, <2>3, RewriteStatus
<1>5. ASSUME NEW r \in RuleIds, SetExpiry(r) PROVE StatusInv'
  <2>1. rules \in Seq(Rule)  BY DEF TypeOK
  <2>2. /\ RuleIds' = RuleIds
        /\ \A q \in RuleIds : /\ rules'[q].status = rules[q].status
                              /\ Stranded(rules'[q]) = Stranded(rules[q])
    <3>1. rules' = [rules EXCEPT ![r] = [rules[r] EXCEPT !.due = TRUE]]  BY <1>5 DEF SetExpiry
    <3>2. rules[r] \in Rule  BY <2>1, IdsOfSeq DEF RuleIds
    <3>3. /\ [rules[r] EXCEPT !.due = TRUE] \in Rule
          /\ [rules[r] EXCEPT !.due = TRUE].status = rules[r].status
          /\ Stranded([rules[r] EXCEPT !.due = TRUE]) = Stranded(rules[r])
      BY <3>2 DEF Rule, Stranded
    <3>4. /\ RuleIds' = RuleIds
          /\ \A q \in RuleIds : rules'[q] = IF q = r THEN [rules[r] EXCEPT !.due = TRUE]
                                             ELSE rules[q]
      BY <2>1, <3>1, <3>3, RuleRewritten, Zenon
    <3> QED  BY <3>3, <3>4
  <2>3. decisions' = decisions  BY <1>5 DEF SetExpiry
  <2>4. RuleRefs' /\ ClosingIsFinal'
    BY <2>2, <2>3 DEF StatusInv, RuleRefs, ClosingIsFinal, DecisionIds
  <2>5. ASSUME NEW q \in RuleIds PROVE StatusAgrees(q)'
    <3>1. StatusAgrees(q)  BY DEF StatusInv, StatusMatchesLog
    <3> QED  BY <2>2, <2>3, <3>1 DEF StatusAgrees, DecisionIds, IsApply, IsClose
  <2> QED  BY <2>2, <2>4, <2>5 DEF StatusInv, StatusMatchesLog
<1>6. ASSUME NEW r \in RuleIds, Keep(r) PROVE StatusInv'
  <2>1. rules[r].status = "active" /\ UNCHANGED rules  BY <1>6 DEF Keep
  <2>2. PICK e \in Decision : Writes(e) /\ e.form = "keep" /\ e.rule = r
    BY <1>6, KeepWrites
  <2> QED  BY <2>1, <2>2, LiveIsNotClosed, QuietStatus DEF Quiet
<1>7. ASSUME NEW k \in Thresholds, NEW v \in Values, PatchConfig(k, v) PROVE StatusInv'
  <2>1. UNCHANGED rules  BY <1>7 DEF PatchConfig
  <2>2. PICK e \in Decision : Writes(e) /\ e.form = "settings" /\ e.rule = 0
    BY <1>7, PatchConfigWrites
  <2>3. 0 \notin RuleIds  BY IdsOfSeq DEF TypeOK, RuleIds
  <2>4. \A i \in DecisionIds : decisions[i].form \in {"undo", "expired"}
                               => decisions[i].rule # e.rule
    BY <2>2, <2>3 DEF StatusInv, RuleRefs
  <2> QED  BY <2>1, <2>2, <2>4, QuietStatus DEF Quiet
<1>8. ASSUME Scan \/ Audit PROVE StatusInv'
  BY <1>8, ScanOrAuditExpires, ExpireStatus
<1>9. CASE UNCHANGED vars
  BY <1>9 DEF vars, StatusInv, RuleRefs, StatusMatchesLog, StatusAgrees,
              ClosingIsFinal, DecisionIds, RuleIds, IsApply, IsClose
<1> QED  BY <1>1, <1>2, <1>3, <1>4, <1>5, <1>6, <1>7, <1>8, <1>9 DEF Next

\* The status of every rule is the one its decisions give it, ...
THEOREM StatusFollowsLog == Spec => []StatusMatchesLog
<1>1. Init => TypeOK /\ StatusInv  BY TypeInit, StatusInit
<1>2. TypeOK /\ StatusInv /\ [Next]_vars => (TypeOK /\ StatusInv)'  BY TypeStep, StatusStep
<1>3. StatusInv => StatusMatchesLog  BY DEF StatusInv
<1> QED  BY <1>1, <1>2, <1>3, PTL DEF Spec

\* ... and a rule that was reverted or expired is never decided about again.
THEOREM ClosedForGood == Spec => []ClosingIsFinal
<1>1. Init => TypeOK /\ StatusInv  BY TypeInit, StatusInit
<1>2. TypeOK /\ StatusInv /\ [Next]_vars => (TypeOK /\ StatusInv)'  BY TypeStep, StatusStep
<1>3. StatusInv => ClosingIsFinal  BY DEF StatusInv
<1> QED  BY <1>1, <1>2, <1>3, PTL DEF Spec

------------------------------------------------------------------------------
(* The auditor's flags.                                                      *)

\* A set of natural numbers has a least element.
LEMMA LeastOne ==
  ASSUME NEW T, T \subseteq Nat, T # {}
  PROVE  \E x \in T : \A y \in T : x <= y
<1> DEFINE R == OpToRel(<, Nat)
<1>1. IsWellFoundedOn(R, Nat)  BY NatLessThanWellFounded
<1>2. \A x, y \in Nat : y < x => <<y, x>> \in R  BY DEF OpToRel
<1> HIDE DEF R
<1>3. \E x \in T : \A y \in T : ~(<<y, x>> \in R)  BY <1>1, WFMin
<1>4. PICK x \in T : \A y \in T : ~(<<y, x>> \in R)  BY <1>3
<1>5. \A y \in T : ~(y < x)  BY <1>2, <1>4
<1> QED  BY <1>5

\* A set of natural numbers with a bound has a greatest element.
LEMMA GreatestOne ==
  ASSUME NEW T, T \subseteq Nat, T # {}, NEW n \in Nat, \A x \in T : x <= n
  PROVE  Last(T) # {}
<1> DEFINE Bounds == {b \in Nat : \A y \in T : y <= b}
<1>1. n \in Bounds  OBVIOUS
<1>2. PICK b \in Bounds : \A c \in Bounds : b <= c
  BY <1>1, LeastOne
<1>3. b \in T
  <2> SUFFICES ASSUME b \notin T PROVE FALSE  OBVIOUS
  <2>1. PICK t : t \in T  OBVIOUS
  <2>2. \A y \in T : y < b /\ y \in Nat  BY <1>2
  <2>3. b - 1 \in Bounds  BY <2>1, <2>2
  <2> QED  BY <1>2, <2>3
<1> QED  BY <1>2, <1>3 DEF Last

\* Between two flags of a rule somebody has answered the first; who keeps a rule answers a flag.
FlagsAnswered ==
    \A f, g \in DecisionIds :
      /\ f < g /\ decisions[f].form = "review" /\ decisions[g].form = "review"
      /\ decisions[f].rule = decisions[g].rule
      => \E a \in DecisionIds : f < a /\ a < g /\ Resolves(a, decisions[f].rule)
KeepsAnswer ==
    \A a \in DecisionIds :
      decisions[a].form = "keep" =>
        /\ decisions[a].kind = "approval"
        /\ \E f \in DecisionIds : f < a /\ IsFlag(f, decisions[a].rule)
FlagInv == FlagsAnswered /\ KeepsAnswer /\ ReflagOnlyWhenWorse

\* What the list shows is the flag that a keep would answer.
LEMMA OneOpenFlag ==
  ASSUME TypeOK, FlagsAnswered
  PROVE  AtMostOneOpenFlag
<1>1. DecisionIds = 1..Len(decisions) /\ Len(decisions) \in Nat
  BY IdsOfSeq DEF TypeOK, DecisionIds
<1>2. ASSUME NEW r \in RuleIds, NEW f \in OnReview(r) PROVE f \in OpenFlag(r)
  <2>1. f \in DecisionIds /\ IsFlag(f, r) /\ \A a \in DecisionIds : a > f => ~Resolves(a, r)
    BY DEF OnReview, Resolves
  <2>2. \A g \in DecisionIds : IsFlag(g, r) => g <= f
    <3> SUFFICES ASSUME NEW g \in DecisionIds, IsFlag(g, r), ~(g <= f) PROVE FALSE
      OBVIOUS
    <3>1. f < g  BY <1>1, <2>1
    <3>2. PICK a \in DecisionIds : f < a /\ Resolves(a, r)
      BY <2>1, <3>1 DEF FlagsAnswered, IsFlag
    <3> QED  BY <2>1, <3>2
  <2>3. f \in LatestFlag(r)  BY <2>1, <2>2 DEF LatestFlag, Last
  <2>4. Resolution(r, f) = {}  BY <2>1 DEF Resolution, Last
  <2> QED  BY <2>3, <2>4 DEF OpenFlag
<1>3. ASSUME NEW r \in RuleIds, NEW f \in OpenFlag(r) PROVE f \in OnReview(r)
  <2>1. f \in DecisionIds /\ IsFlag(f, r) /\ Resolution(r, f) = {}
    BY DEF OpenFlag, LatestFlag, Last
  <2> DEFINE T == {i \in DecisionIds : i > f /\ Resolves(i, r)}
  <2>2. T \subseteq Nat /\ \A x \in T : x <= Len(decisions)  BY <1>1
  <2>3. T = {}
    <3>1. Last(T) = {}  BY <2>1 DEF Resolution
    <3> HIDE DEF T
    <3> QED  BY <1>1, <2>2, <3>1, GreatestOne
  <2> QED  BY <2>1, <2>3 DEF OnReview, Resolves
<1> QED  BY <1>2, <1>3 DEF AtMostOneOpenFlag

\* A step that raises no flag.
LEMMA NoFlagKeeps ==
  ASSUME TypeOK, FlagInv, NEW n, NEW m, Grew(n, m),
         \A i \in DecisionIds' \ DecisionIds :
           /\ decisions'[i].form # "review"
           /\ decisions'[i].form = "keep" =>
                /\ decisions'[i].kind = "approval"
                /\ \E f \in DecisionIds : IsFlag(f, decisions'[i].rule)
  PROVE  FlagInv'
<1>1. \A i \in DecisionIds' : i \notin DecisionIds => \A j \in DecisionIds : j < i
  BY DEF Grew
<1>2. \A i \in DecisionIds : i \in DecisionIds' /\ decisions'[i] = decisions[i]
  BY DEF Grew
<1>3. \A i \in DecisionIds' : decisions'[i].form = "review" => i \in DecisionIds
  OBVIOUS
<1>4. FlagsAnswered'
  <2> SUFFICES ASSUME NEW f \in DecisionIds', NEW g \in DecisionIds', f < g,
                      decisions'[f].form = "review", decisions'[g].form = "review",
                      NEW r, r = decisions'[f].rule, r = decisions'[g].rule
               PROVE  \E a \in DecisionIds' : f < a /\ a < g /\ Resolves(a, r)'
    BY DEF FlagsAnswered, Resolves
  <2>1. f \in DecisionIds /\ g \in DecisionIds  BY <1>3
  <2>2. PICK a \in DecisionIds : f < a /\ a < g /\ Resolves(a, r)
    BY <1>2, <2>1, ZenonT(60) DEF FlagInv, FlagsAnswered
  <2> QED  BY <1>2, <2>1, <2>2 DEF Resolves
<1>5. KeepsAnswer'
  <2> SUFFICES ASSUME NEW a \in DecisionIds', decisions'[a].form = "keep",
                      NEW r, r = decisions'[a].rule
               PROVE  /\ decisions'[a].kind = "approval"
                      /\ \E f \in DecisionIds' : f < a /\ IsFlag(f, r)'
    BY DEF KeepsAnswer, IsFlag
  <2>1. CASE a \in DecisionIds
    <3>1. decisions'[a] = decisions[a]  BY <1>2, <2>1
    <3>2. /\ decisions[a].kind = "approval"
          /\ \E f \in DecisionIds : f < a /\ IsFlag(f, r)
      BY <2>1, <3>1 DEF FlagInv, KeepsAnswer
    <3> QED  BY <1>2, <3>1, <3>2 DEF IsFlag
  <2>2. CASE a \notin DecisionIds
    <3>1. PICK f \in DecisionIds : IsFlag(f, r)  BY <2>2
    <3>2. f < a  BY <1>1, <2>2
    <3>3. decisions'[a].kind = "approval"  BY <2>2
    <3> QED  BY <1>2, <3>1, <3>2, <3>3 DEF IsFlag
  <2> QED  BY <2>1, <2>2
<1>6. ReflagOnlyWhenWorse'
  <2> SUFFICES ASSUME NEW a \in DecisionIds', NEW g \in DecisionIds',
                      decisions'[a].form = "keep", a < g,
                      NEW r, r = decisions'[a].rule, IsFlag(g, r)',
                      \A b \in DecisionIds' : a < b /\ b < g => ~Resolves(b, r)'
               PROVE  LET accepted == decisions'[a].drift
                          flagged == decisions'[g].drift
                      IN \/ flagged.kind # accepted.kind
                         \/ flagged.kind = "value" /\ flagged.level > accepted.level
                         \/ flagged.kind = "volume" /\ flagged.hits >= VolumeFactor * accepted.hits
    BY DEF ReflagOnlyWhenWorse, IsFlag, Resolves
  <2>1. g \in DecisionIds  BY <1>3 DEF IsFlag
  <2>2. a \in DecisionIds  BY <2>1 DEF Grew
  <2>3. decisions'[a] = decisions[a] /\ decisions'[g] = decisions[g]  BY <1>2, <2>1, <2>2
  <2>4. \A b \in DecisionIds : a < b /\ b < g => ~Resolves(b, r)
    BY <1>2, <2>3 DEF Resolves
  <2>5. IsFlag(g, r)  BY <2>3 DEF IsFlag
  <2> QED  BY <2>1, <2>2, <2>3, <2>4, <2>5 DEF FlagInv, ReflagOnlyWhenWorse
<1> QED  BY <1>4, <1>5, <1>6 DEF FlagInv

\* The flags among the entries of an expiring step.
LEMMA FlagEntries ==
  ASSUME TypeOK, NEW order \in Orders(Due), NEW more \in Seq(FlagDecision),
         ExpireRules(order, more), Flags(more)
  PROVE  /\ \A i \in DecisionIds' \ DecisionIds :
              \/ decisions'[i].form = "expired"
              \/ /\ decisions'[i].form = "review" /\ decisions'[i].rule \in ToFlag
                 /\ decisions'[i].drift = DriftOf(decisions'[i].rule)
         /\ \A i, j \in DecisionIds' \ DecisionIds :
              /\ decisions'[i].form = "review" /\ decisions'[j].form = "review"
              /\ decisions'[i].rule = decisions'[j].rule
              => i = j
<1> DEFINE n == Len(decisions)
<1> DEFINE m == Len(decisions) + Len(order) + Len(more)
<1>1. /\ DecisionIds = 1..n /\ n \in Nat /\ DecisionIds' = 1..m
      /\ Len(order) \in Nat /\ Len(more) \in Nat /\ DOMAIN order = 1..Len(order)
      /\ \A i \in DOMAIN order : /\ decisions'[n + i] = ExpiryDecision(order[i])
                                 /\ order[i] \in RuleIds
      /\ \A i \in 1..Len(more) : /\ decisions'[n + Len(order) + i] = more[i]
                                 /\ more[i] \in FlagDecision
  BY ExpireEffect
<1>2. ASSUME NEW i \in DecisionIds' \ DecisionIds
      PROVE  \/ decisions'[i].form = "expired"
             \/ \E k \in 1..Len(more) : /\ decisions'[i] = more[k] /\ i = n + Len(order) + k
                                        /\ more[k].form = "review"
  <2>1. CASE i <= n + Len(order)
    <3>1. i - n \in 1..Len(order) /\ n + (i - n) = i  BY <1>1, <1>2, <2>1
    <3>2. decisions'[i] = ExpiryDecision(order[i - n]) /\ order[i - n] \in RuleIds
      BY <1>1, <3>1
    <3> HIDE DEF n
    <3> QED  BY <3>2, ExpiryDecisionType
  <2>2. CASE n + Len(order) < i
    <3>1. /\ i - (n + Len(order)) \in 1..Len(more)
          /\ n + Len(order) + (i - (n + Len(order))) = i
      BY <1>1, <1>2, <2>2
    <3>2. PICK k \in 1..Len(more) : n + Len(order) + k = i  BY <3>1
    <3>3. decisions'[i] = more[k] /\ more[k] \in FlagDecision  BY <1>1, <3>2
    <3> QED  BY <3>2, <3>3 DEF FlagDecision
  <2> QED  BY <1>1, <1>2, <2>1, <2>2
<1>3. \A i \in DecisionIds' \ DecisionIds :
        \/ decisions'[i].form = "expired"
        \/ /\ decisions'[i].form = "review" /\ decisions'[i].rule \in ToFlag
           /\ decisions'[i].drift = DriftOf(decisions'[i].rule)
  BY <1>2 DEF Flags
<1>4. ASSUME NEW i \in DecisionIds' \ DecisionIds, NEW j \in DecisionIds' \ DecisionIds,
             decisions'[i].form = "review", decisions'[j].form = "review",
             decisions'[i].rule = decisions'[j].rule
      PROVE  i = j
  <2>1. PICK k \in 1..Len(more) : decisions'[i] = more[k] /\ i = n + Len(order) + k
    BY <1>2, <1>4
  <2>2. PICK l \in 1..Len(more) : decisions'[j] = more[l] /\ j = n + Len(order) + l
    BY <1>2, <1>4
  <2>3. k = l  BY <1>4, <2>1, <2>2 DEF Flags
  <2> QED  BY <2>1, <2>2, <2>3
<1> QED  BY <1>3, <1>4

\* A rule is flagged only if it has no open flag: its latest flag has been answered, and so
\* have the earlier ones.
LEMMA FlaggedAnswered ==
  ASSUME TypeOK, NEW r \in ToFlag, NEW f \in DecisionIds, IsFlag(f, r)
  PROVE  \E g \in LatestFlag(r) : \E a \in Resolution(r, g) : f <= g /\ g < a
<1>1. DecisionIds = 1..Len(decisions) /\ Len(decisions) \in Nat
  BY IdsOfSeq DEF TypeOK, DecisionIds
<1> DEFINE T == {i \in DecisionIds : IsFlag(i, r)}
<1>2. T \subseteq Nat /\ T # {} /\ \A x \in T : x <= Len(decisions)  BY <1>1
<1> HIDE DEF T
<1>3. PICK g \in Last(T) : TRUE  BY <1>1, <1>2, GreatestOne
<1>4. g \in LatestFlag(r) /\ f <= g  BY <1>3 DEF LatestFlag, T, Last
<1>5. Resolution(r, g) # {}  BY <1>4 DEF ToFlag, OpenFlag
<1>6. PICK a \in Resolution(r, g) : g < a  BY <1>5 DEF Resolution, Last
<1> QED  BY <1>4, <1>6

LEMMA WorseIsWorse ==
  ASSUME TypeOK, NEW r \in RuleIds, DriftOf(r) # NoDrift, NEW kept \in DriftReport,
         WorseThanKept(DriftOf(r), kept)
  PROVE  LET drift == DriftOf(r)
         IN  \/ drift.kind # kept.kind
             \/ drift.kind = "value" /\ drift.level > kept.level
             \/ drift.kind = "volume" /\ drift.hits >= VolumeFactor * kept.hits
<1>1. PICK drift \in DriftReport : drift = DriftOf(r)  BY DriftType
<1>2. drift.kind \in {"value", "volume"}
  BY <1>1 DEF DriftOf
<1>3. kept.hits \in Nat /\ kept.level \in Nat /\ drift.hits \in Nat /\ drift.level \in Nat
  BY DEF DriftReport
<1>4. VolumeFactor * kept.hits <= VolumeFactor * AtLeastOne(kept.hits)
  <2>1. CASE kept.hits = 0
    BY <2>1, AuditAssumption DEF AtLeastOne
  <2>2. CASE kept.hits # 0
    <3>1. AtLeastOne(kept.hits) = kept.hits  BY <2>2 DEF AtLeastOne
    <3>2. VolumeFactor * kept.hits \in Nat  BY <1>3, AuditAssumption
    <3> QED  BY <3>1, <3>2
  <2> QED  BY <2>1, <2>2
<1>5. AtLeastOne(kept.hits) \in Nat  BY <1>3 DEF AtLeastOne
<1>6. VolumeFactor * kept.hits \in Nat /\ VolumeFactor * AtLeastOne(kept.hits) \in Nat
  BY <1>3, <1>5, AuditAssumption
<1>7. CASE drift.kind = "value" /\ kept.kind = "value"
  BY <1>1, <1>3, <1>7 DEF WorseThanKept
<1>8. CASE drift.kind = "volume" /\ kept.kind = "volume"
  <2>1. drift.hits >= VolumeFactor * AtLeastOne(kept.hits)
    BY <1>1, <1>8 DEF WorseThanKept
  <2> QED  BY <1>1, <1>3, <1>4, <1>6, <1>8, <2>1
<1> QED  BY <1>1, <1>2, <1>7, <1>8

\* The audit flags no rule that waits for an answer, and after a keep only what is worse.
LEMMA ExpireFlags ==
  ASSUME TypeOK, FlagInv, NEW order \in Orders(Due), NEW more \in Seq(FlagDecision),
         ExpireRules(order, more), Flags(more)
  PROVE  FlagInv'
<1>1. PICK n, m : Grew(n, m)  BY ExpireEntries
<1>2. \A i \in DecisionIds' \ DecisionIds :
        \/ decisions'[i].form = "expired"
        \/ /\ decisions'[i].form = "review" /\ decisions'[i].rule \in ToFlag
           /\ decisions'[i].drift = DriftOf(decisions'[i].rule)
  BY FlagEntries
<1>3. \A i, j \in DecisionIds' \ DecisionIds :
        /\ decisions'[i].form = "review" /\ decisions'[j].form = "review"
        /\ decisions'[i].rule = decisions'[j].rule
        => i = j
  BY FlagEntries
<1>4. /\ \A i \in DecisionIds : i \in DecisionIds' /\ decisions'[i] = decisions[i]
      /\ \A i \in DecisionIds' : i \notin DecisionIds => \A j \in DecisionIds : j < i
      /\ DecisionIds \subseteq Nat /\ DecisionIds' \subseteq Nat
  BY <1>1 DEF Grew
<1>5. FlagsAnswered'
  <2> SUFFICES ASSUME NEW f \in DecisionIds', NEW g \in DecisionIds', f < g,
                      decisions'[f].form = "review", decisions'[g].form = "review",
                      NEW r, r = decisions'[f].rule, r = decisions'[g].rule
               PROVE  \E a \in DecisionIds' : f < a /\ a < g /\ Resolves(a, r)'
    BY DEF FlagsAnswered, Resolves
  <2>1. f \in DecisionIds
    <3> SUFFICES ASSUME f \notin DecisionIds PROVE FALSE  OBVIOUS
    <3>1. g \notin DecisionIds  BY <1>1 DEF Grew
    <3>2. f = g  BY <1>3, <3>1
    <3> QED  BY <1>4, <3>2
  <2>2. CASE g \in DecisionIds
    <3>1. PICK a \in DecisionIds : f < a /\ a < g /\ Resolves(a, r)
      BY <1>4, <2>1, <2>2 DEF FlagInv, FlagsAnswered
    <3> QED  BY <1>4, <3>1 DEF Resolves
  <2>3. CASE g \notin DecisionIds
    <3>1. r \in ToFlag  BY <1>2, <2>3
    <3>2. IsFlag(f, r)  BY <1>4, <2>1 DEF IsFlag
    <3>3. \E h \in LatestFlag(r) : \E a \in Resolution(r, h) : f <= h /\ h < a
      BY <2>1, <3>1, <3>2, FlaggedAnswered
    <3> PICK h \in LatestFlag(r) : \E a \in Resolution(r, h) : f <= h /\ h < a
      BY <3>3
    <3> PICK a \in Resolution(r, h) : f <= h /\ h < a
      OBVIOUS
    <3>4. a \in DecisionIds /\ Resolves(a, r) /\ h \in DecisionIds
      BY DEF Resolution, LatestFlag, Last
    <3>5. f < a /\ a < g  BY <1>4, <2>1, <2>3, <3>4
    <3> QED  BY <1>4, <3>4, <3>5 DEF Resolves
  <2> QED  BY <2>2, <2>3
<1>6. KeepsAnswer'
  <2> SUFFICES ASSUME NEW a \in DecisionIds', decisions'[a].form = "keep",
                      NEW r, r = decisions'[a].rule
               PROVE  /\ decisions'[a].kind = "approval"
                      /\ \E f \in DecisionIds' : f < a /\ IsFlag(f, r)'
    BY DEF KeepsAnswer, IsFlag
  <2>1. a \in DecisionIds /\ decisions'[a] = decisions[a]  BY <1>2, <1>4
  <2>2. /\ decisions[a].kind = "approval"
        /\ \E f \in DecisionIds : f < a /\ IsFlag(f, r)
    BY <2>1 DEF FlagInv, KeepsAnswer
  <2> QED  BY <1>4, <2>1, <2>2 DEF IsFlag
<1>7. ReflagOnlyWhenWorse'
  <2> SUFFICES ASSUME NEW a \in DecisionIds', NEW g \in DecisionIds',
                      decisions'[a].form = "keep", a < g,
                      NEW r, r = decisions'[a].rule, IsFlag(g, r)',
                      \A b \in DecisionIds' : a < b /\ b < g => ~Resolves(b, r)'
               PROVE  LET accepted == decisions'[a].drift
                          flagged == decisions'[g].drift
                      IN \/ flagged.kind # accepted.kind
                         \/ flagged.kind = "value" /\ flagged.level > accepted.level
                         \/ flagged.kind = "volume" /\ flagged.hits >= VolumeFactor * accepted.hits
    BY DEF ReflagOnlyWhenWorse, IsFlag, Resolves
  <2>1. a \in DecisionIds /\ decisions'[a] = decisions[a]  BY <1>2, <1>4
  <2>2. \A b \in DecisionIds : a < b /\ b < g => ~Resolves(b, r)
    BY <1>4 DEF Resolves
  <2>3. CASE g \in DecisionIds
    <3>1. decisions'[g] = decisions[g] /\ IsFlag(g, r)  BY <1>4, <2>3 DEF IsFlag
    <3> QED  BY <2>1, <2>2, <2>3, <3>1 DEF FlagInv, ReflagOnlyWhenWorse
  <2>4. CASE g \notin DecisionIds
    <3>1. /\ r \in ToFlag /\ decisions'[g].drift = DriftOf(r)
          /\ \A b \in DecisionIds : a < b => ~Resolves(b, r)
      BY <1>2, <1>4, <2>2, <2>4 DEF IsFlag
    <3>2. decisions[a].kind = "approval" /\ \E f \in DecisionIds : f < a /\ IsFlag(f, r)
      BY <2>1 DEF FlagInv, KeepsAnswer
    <3>3. Resolves(a, r)  BY <2>1, <3>2 DEF Resolves
    <3>4. \E h \in LatestFlag(r) : \E c \in Resolution(r, h) : h < c
      BY <3>1, <3>2, FlaggedAnswered
    <3> PICK h \in LatestFlag(r) : \E c \in Resolution(r, h) : h < c
      BY <3>4
    <3> PICK c \in Resolution(r, h) : h < c
      OBVIOUS
    <3>5. c \in DecisionIds /\ Resolves(c, r) /\ h \in DecisionIds
          /\ \A b \in DecisionIds : b > h /\ Resolves(b, r) => b <= c
      BY DEF Resolution, LatestFlag, Last
    <3>6. c = a
      <4>1. ~(a < c)  BY <3>1, <3>5
      <4>2. h < a  BY <1>4, <2>1, <3>4, <3>5, <4>1
      <4> QED  BY <1>4, <2>1, <3>3, <3>5, <4>1, <4>2
    <3>7. WorseThanKept(DriftOf(r), decisions[a].drift)
      BY <3>1, <3>2, <3>6 DEF ToFlag
    <3>8. r \in RuleIds /\ DriftOf(r) # NoDrift  BY <3>1 DEF ToFlag, Suppressing
    <3>9. decisions[a].drift \in DriftReport
      <4>1. decisions[a] \in Decision  BY <2>1, IdsOfSeq DEF TypeOK, DecisionIds
      <4> QED  BY <4>1 DEF Decision
    <3> QED  BY <2>1, <3>1, <3>7, <3>8, <3>9, WorseIsWorse
  <2> QED  BY <2>3, <2>4
<1> QED  BY <1>5, <1>6, <1>7 DEF FlagInv

LEMMA FlagInit == Init => FlagInv
<1> SUFFICES ASSUME Init PROVE FlagInv  OBVIOUS
<1>1. DecisionIds = {}  BY DEF Init, DecisionIds
<1> QED  BY <1>1 DEF FlagInv, FlagsAnswered, KeepsAnswer, ReflagOnlyWhenWorse

LEMMA FlagStep == TypeOK /\ FlagInv /\ [Next]_vars => FlagInv'
<1> SUFFICES ASSUME TypeOK, FlagInv, [Next]_vars PROVE FlagInv'  OBVIOUS
<1>1. ASSUME NEW e \in Decision, Writes(e), e.form \notin {"review", "keep"} PROVE FlagInv'
  <2> DEFINE n == Len(decisions)
  <2>1. /\ Grew(n, n + 1) /\ decisions'[n + 1] = e
        /\ \A i \in DecisionIds' \ DecisionIds : i = n + 1
    BY <1>1, WritesGrows
  <2> HIDE DEF n
  <2>2. \A i \in DecisionIds' \ DecisionIds : decisions'[i] = e  BY <2>1
  <2> QED  BY <1>1, <2>1, <2>2, NoFlagKeeps
<1>2. ASSUME UNCHANGED decisions PROVE FlagInv'
  BY <1>2 DEF FlagInv, FlagsAnswered, KeepsAnswer, ReflagOnlyWhenWorse, DecisionIds,
              IsFlag, Resolves
<1>3. ASSUME NEW p \in Proposals, Propose(p) \/ ProposeRefused(p) PROVE FlagInv'
  BY <1>1, <1>2, <1>3, ProposeWrites DEF Adds
<1>4. ASSUME NEW r \in RuleIds, Apply(r) PROVE FlagInv'
  BY <1>1, <1>4, ApplyWrites
<1>5. ASSUME NEW r \in RuleIds, Undo(r) PROVE FlagInv'
  BY <1>1, <1>5, UndoWrites
<1>6. ASSUME NEW r \in RuleIds, NEW kind \in NewScopes, EditScope(r, kind) PROVE FlagInv'
  BY <1>1, <1>6, EditScopeWrites
<1>7. ASSUME NEW r \in RuleIds, SetExpiry(r) PROVE FlagInv'
  BY <1>2, <1>7 DEF SetExpiry
<1>8. ASSUME NEW r \in RuleIds, Keep(r) PROVE FlagInv'
  <2> DEFINE n == Len(decisions)
  <2>1. PICK e \in Decision : /\ Writes(e) /\ e.form = "keep" /\ e.rule = r
                              /\ e.kind = "approval"
    BY <1>8, KeepWrites
  <2>2. /\ Grew(n, n + 1) /\ decisions'[n + 1] = e
        /\ \A i \in DecisionIds' \ DecisionIds : i = n + 1
    BY <2>1, WritesGrows
  <2>3. \E f \in DecisionIds : IsFlag(f, r)
    BY <1>8, KeepWrites DEF OpenFlag, LatestFlag, Last
  <2> HIDE DEF n
  <2>4. \A i \in DecisionIds' \ DecisionIds : decisions'[i] = e  BY <2>2
  <2> QED  BY <2>1, <2>2, <2>3, <2>4, NoFlagKeeps
<1>9. ASSUME NEW k \in Thresholds, NEW v \in Values, PatchConfig(k, v) PROVE FlagInv'
  BY <1>1, <1>9, PatchConfigWrites
<1>10. ASSUME Scan \/ Audit PROVE FlagInv'
  BY <1>10, ScanOrAuditExpires, ExpireFlags
<1>11. CASE UNCHANGED vars  BY <1>2, <1>11 DEF vars
<1> QED  BY <1>3, <1>4, <1>5, <1>6, <1>7, <1>8, <1>9, <1>10, <1>11 DEF Next

\* The list of rules shows no flag but the one that a keep would answer, ...
THEOREM OneFlagOpen == Spec => []AtMostOneOpenFlag
<1>1. Init => TypeOK /\ FlagInv  BY TypeInit, FlagInit
<1>2. TypeOK /\ FlagInv /\ [Next]_vars => (TypeOK /\ FlagInv)'  BY TypeStep, FlagStep
<1>3. TypeOK /\ FlagInv => AtMostOneOpenFlag  BY OneOpenFlag DEF FlagInv
<1> QED  BY <1>1, <1>2, <1>3, PTL DEF Spec

\* ... and what is flagged after a keep is of the other kind or worse than what was accepted.
THEOREM KeepIsRespected == Spec => []ReflagOnlyWhenWorse
<1>1. Init => TypeOK /\ FlagInv  BY TypeInit, FlagInit
<1>2. TypeOK /\ FlagInv /\ [Next]_vars => (TypeOK /\ FlagInv)'  BY TypeStep, FlagStep
<1>3. FlagInv => ReflagOnlyWhenWorse  BY DEF FlagInv
<1> QED  BY <1>1, <1>2, <1>3, PTL DEF Spec

------------------------------------------------------------------------------
(* What an undo and an expiry write back.                                    *)

\* The closing e takes back what was applied: it writes no threshold but that of its rule,
\* and that one if it was written, with the value from before.
Reverses(e) ==
    /\ e.key # NoThreshold =>
         \E a \in DecisionIds : /\ IsApply(a, e.rule) /\ decisions[a].key = e.key
                                /\ e.new = decisions[a].old
    /\ \A a \in DecisionIds :
         IsApply(a, e.rule) /\ decisions[a].key # NoThreshold => e.key = decisions[a].key

\* What a decision says agrees with its rule and, if it closes one, with the apply decision.
Traced(e) ==
    /\ e.kind \in {"suppression", "threshold_change"} => e.form \in {"apply", "edit", "settings"}
    /\ e.key # NoThreshold => e.form \in {"apply", "settings", "undo", "expired"}
    /\ e.form = "apply" => Applies(e, e.rule, rules[e.rule])
    /\ e.form = "edit" => rules[e.rule].type # "threshold"
    /\ e.form \in {"undo", "expired"} => Reverses(e)
TraceInv == \A i \in DecisionIds : Traced(decisions[i])

\* The query by kind and rule finds the apply decision of a threshold rule.
LEMMA FindsApply ==
  ASSUME TypeOK, RuleRefs, TraceInv, NEW r \in RuleIds
  PROVE  /\ rules[r].type = "threshold" =>
              \A d \in ApplyDecision(r) : /\ d \in DecisionIds /\ d # 0 /\ IsApply(d, r)
                                          /\ decisions[d].key = rules[r].key
                                          /\ rules[r].key \in Thresholds
                                          /\ Restored(d) \in Values
         /\ (\E a \in DecisionIds : IsApply(a, r)) => ApplyDecision(r) # {}
<1>1. DecisionIds = 1..Len(decisions) /\ Len(decisions) \in Nat /\ RuleIds = 1..Len(rules)
  BY IdsOfSeq DEF TypeOK, DecisionIds, RuleIds
<1>2. ASSUME rules[r].type = "threshold", NEW d \in ApplyDecision(r)
      PROVE  /\ d \in DecisionIds /\ d # 0 /\ IsApply(d, r)
             /\ decisions[d].key = rules[r].key
             /\ rules[r].key \in Thresholds
             /\ Restored(d) \in Values
  <2>1. /\ d \in DecisionIds /\ decisions[d].kind \in {"suppression", "threshold_change"}
        /\ decisions[d].rule = r
    BY DEF ApplyDecision, Last
  <2>2. Traced(decisions[d]) /\ d # 0  BY <1>1, <2>1 DEF TraceInv
  <2>3. decisions[d].form # "settings"  BY <1>1, <2>1 DEF RuleRefs
  <2>4. decisions[d].form = "apply"  BY <1>2, <2>1, <2>2, <2>3 DEF Traced
  <2> QED  BY <1>2, <2>1, <2>2, <2>4 DEF Traced, Applies, IsApply, Restored
<1>3. ASSUME NEW a \in DecisionIds, IsApply(a, r) PROVE ApplyDecision(r) # {}
  <2> DEFINE T == {i \in DecisionIds : /\ decisions[i].kind \in {"suppression", "threshold_change"}
                                       /\ decisions[i].rule = r}
  <2>1. a \in T  BY <1>3 DEF IsApply, TraceInv, Traced, Applies
  <2>2. T \subseteq Nat /\ \A x \in T : x <= Len(decisions)  BY <1>1
  <2> HIDE DEF T
  <2>3. Last(T) # {}  BY <1>1, <2>1, <2>2, GreatestOne
  <2> QED  BY <2>3 DEF ApplyDecision, T
<1> QED  BY <1>2, <1>3

\* What takes back the apply decision that is found reverses what was applied.
LEMMA TakenBack ==
  ASSUME TypeOK, RuleRefs, TraceInv, NEW r \in RuleIds, NEW e \in Decision, e.rule = r,
         TakesBack(e, r)
  PROVE  Reverses(e)
<1>1. PICK d \in ApplyDecisionOrNone(r) :
         IF rules[r].type = "threshold" /\ d # 0 /\ Restored(d) # NoValue
         THEN e.key = rules[r].key /\ e.new = Restored(d) ELSE e.key = NoThreshold
  BY DEF TakesBack
<1>2. CASE rules[r].type # "threshold"
  <2>1. \A a \in DecisionIds : IsApply(a, r) => decisions[a].key = NoThreshold
    BY <1>2 DEF TraceInv, Traced, Applies, IsApply
  <2> QED  BY <1>1, <1>2, <2>1 DEF Reverses
<1>3. CASE rules[r].type = "threshold" /\ ApplyDecision(r) = {}
  <2>1. d = 0  BY <1>3 DEF ApplyDecisionOrNone
  <2>2. \A a \in DecisionIds : ~IsApply(a, r)  BY <1>3, FindsApply
  <2> QED  BY <1>1, <2>1, <2>2 DEF Reverses
<1>4. CASE rules[r].type = "threshold" /\ ApplyDecision(r) # {}
  <2>1. d \in ApplyDecision(r)  BY <1>4 DEF ApplyDecisionOrNone
  <2>2. /\ d \in DecisionIds /\ d # 0 /\ IsApply(d, r) /\ decisions[d].key = rules[r].key
        /\ Restored(d) # NoValue
    BY <1>4, <2>1, FindsApply, ThresholdAssumption
  <2>3. e.key = rules[r].key /\ e.new = decisions[d].old
    BY <1>1, <1>4, <2>2 DEF Restored
  <2>4. \A a \in DecisionIds : IsApply(a, r) /\ decisions[a].key # NoThreshold
                               => decisions[a].key = rules[r].key
    BY <1>4 DEF TraceInv, Traced, Applies, IsApply
  <2> QED  BY <2>2, <2>3, <2>4 DEF Reverses
<1> QED  BY <1>2, <1>3, <1>4

LEMMA ExpiryTakesBack ==
  ASSUME TypeOK, NEW r \in RuleIds
  PROVE  TakesBack(ExpiryDecision(r), r)
<1>1. CASE ApplyDecision(r) = {}
  <2>1. 0 \in ApplyDecisionOrNone(r)  BY <1>1 DEF ApplyDecisionOrNone
  <2>2. ExpiryDecision(r).key = NoThreshold  BY <1>1, ExpiryDecisionType DEF Restores
  <2> QED  BY <2>1, <2>2 DEF TakesBack
<1>2. CASE ApplyDecision(r) # {}
  <2> DEFINE d == CHOOSE d \in ApplyDecision(r) : TRUE
  <2>1. d \in ApplyDecision(r)  BY <1>2
  <2>2. AppliedOld(r) = Restored(d)  BY DEF AppliedOld
  <2> HIDE DEF d
  <2>3. d \in ApplyDecisionOrNone(r)  BY <1>2, <2>1 DEF ApplyDecisionOrNone
  <2>4. d # 0
    <3>1. d \in DecisionIds  BY <2>1 DEF ApplyDecision, Last
    <3> QED  BY <3>1, IdsOfSeq DEF TypeOK, DecisionIds
  <2>5. Restores(r) <=> rules[r].type = "threshold" /\ d # 0 /\ Restored(d) # NoValue
    BY <1>2, <2>2, <2>4 DEF Restores
  <2> QED  BY <2>2, <2>3, <2>5, ExpiryDecisionType DEF TakesBack
<1> QED  BY <1>1, <1>2

\* A log that grew, about rules that aim at what they aimed at before.
LEMMA TraceGrows ==
  ASSUME TypeOK, StatusInv, TraceInv, StatusInv', NEW n, NEW m, Grew(n, m),
         \A r \in RuleIds : r \in RuleIds' /\ SameTarget(rules'[r], rules[r]),
         \A i \in DecisionIds' \ DecisionIds :
           LET e == decisions'[i]
           IN  /\ e.kind \in {"suppression", "threshold_change"}
                    => e.form \in {"apply", "edit", "settings"}
               /\ e.key # NoThreshold => e.form \in {"apply", "settings", "undo", "expired"}
               /\ e.form = "apply" => Applies(e, e.rule, rules'[e.rule])
               /\ e.form = "edit" => rules'[e.rule].type # "threshold"
               /\ e.form \in {"undo", "expired"} => Reverses(e),
         \A i, j \in DecisionIds' \ DecisionIds :
           decisions'[i].form \in {"undo", "expired"} => decisions'[j].form # "apply"
  PROVE  TraceInv'
<1>1. \A i \in DecisionIds : i \in DecisionIds' /\ decisions'[i] = decisions[i]
  BY DEF Grew
<1>2. \A i \in DecisionIds', j \in DecisionIds : i \notin DecisionIds => j < i
  BY DEF Grew
<1>3. \A r : \A a \in DecisionIds : IsApply(a, r)' <=> IsApply(a, r)
  BY <1>1 DEF IsApply
<1>4. ASSUME NEW i \in DecisionIds', NEW e, e = decisions'[i],
             e.form \in {"undo", "expired"}, Reverses(e)
      PROVE  Reverses(e)'
  <2>1. \A a \in DecisionIds' : IsApply(a, e.rule)' => a \in DecisionIds /\ IsApply(a, e.rule)
    <3> SUFFICES ASSUME NEW a \in DecisionIds', decisions'[a].form = "apply",
                        decisions'[a].rule = e.rule
                 PROVE  a \in DecisionIds /\ IsApply(a, e.rule)
      BY DEF IsApply
    <3>1. a \in DecisionIds
      <4>1. CASE i \in DecisionIds
        BY <1>2, <1>4, <4>1 DEF StatusInv, ClosingIsFinal
      <4>2. CASE i \notin DecisionIds
        BY <1>4, <4>2
      <4> QED  BY <4>1, <4>2
    <3> QED  BY <1>1, <3>1 DEF IsApply
  <2>2. e.key # NoThreshold =>
          \E a \in DecisionIds : /\ IsApply(a, e.rule) /\ decisions[a].key = e.key
                                 /\ e.new = decisions[a].old
    BY <1>4 DEF Reverses
  <2> QED  BY <1>1, <1>3, <1>4, <2>1, <2>2 DEF Reverses
<1>5. ASSUME NEW i \in DecisionIds, NEW e, e = decisions[i] PROVE Traced(e)'
  <2>1. Traced(e) /\ e = decisions'[i]  BY <1>1, <1>5 DEF TraceInv
  <2>2. e.form \in {"apply", "edit"} => e.rule \in RuleIds
    BY <1>5 DEF StatusInv, RuleRefs
  <2>3. e.form = "apply" => Applies(e, e.rule, rules'[e.rule])
    BY <2>1, <2>2 DEF Traced, Applies, SameTarget
  <2>4. e.form = "edit" => rules'[e.rule].type # "threshold"
    BY <2>1, <2>2 DEF Traced, SameTarget
  <2>5. e.form \in {"undo", "expired"} => Reverses(e)'
    BY <1>1, <1>4, <2>1 DEF Traced
  <2> QED  BY <2>1, <2>3, <2>4, <2>5 DEF Traced, Applies
<1>6. ASSUME NEW i \in DecisionIds' \ DecisionIds, NEW e, e = decisions'[i] PROVE Traced(e)'
  <2>1. e.form \in {"undo", "expired"} => Reverses(e)'
    BY <1>4, <1>6
  <2> QED  BY <1>6, <2>1 DEF Traced, Applies
<1>7. ASSUME NEW i \in DecisionIds' PROVE Traced(decisions[i])'
  <2>1. PICK e : e = decisions'[i]  OBVIOUS
  <2>2. Traced(e)'
    <3>1. CASE i \in DecisionIds  BY <1>1, <1>5, <2>1, <3>1
    <3>2. CASE i \notin DecisionIds  BY <1>6, <2>1, <3>2
    <3> QED  BY <3>1, <3>2
  <2> QED  BY <2>1, <2>2 DEF Traced, Reverses, Applies
<1> QED  BY <1>7 DEF TraceInv

\* A step that writes one decision about a rule and may rewrite its row.
LEMMA WriteTraced ==
  ASSUME TypeOK, StatusInv, TraceInv, StatusInv', NEW e \in Decision, Writes(e),
         \A r \in RuleIds : r \in RuleIds' /\ SameTarget(rules'[r], rules[r]),
         /\ e.kind \in {"suppression", "threshold_change"} => e.form \in {"apply", "edit", "settings"}
         /\ e.key # NoThreshold => e.form \in {"apply", "settings", "undo", "expired"}
         /\ e.form = "apply" => Applies(e, e.rule, rules'[e.rule])
         /\ e.form = "edit" => rules'[e.rule].type # "threshold"
         /\ e.form \in {"undo", "expired"} => Reverses(e)
  PROVE  TraceInv'
<1> DEFINE n == Len(decisions)
<1>1. /\ Grew(n, n + 1) /\ decisions'[n + 1] = e
      /\ \A i \in DecisionIds' \ DecisionIds : i = n + 1
  BY WritesGrows
<1> HIDE DEF n
<1>2. \A i \in DecisionIds' \ DecisionIds : decisions'[i] = e  BY <1>1
<1> QED  BY <1>1, <1>2, TraceGrows

\* A row is rewritten, and the targets stay.
LEMMA TargetsStay ==
  ASSUME TypeOK, NEW r \in RuleIds, NEW row \in Rule, rules' = [rules EXCEPT ![r] = row],
         SameTarget(row, rules[r])
  PROVE  /\ RuleIds' = RuleIds /\ rules'[r] = row
         /\ \A q \in RuleIds : q \in RuleIds' /\ SameTarget(rules'[q], rules[q])
<1>1. RuleIds' = RuleIds /\ \A q \in RuleIds : rules'[q] = IF q = r THEN row ELSE rules[q]
  BY RuleRewritten, Zenon DEF TypeOK
<1>2. \A q \in RuleIds : q # r => SameTarget(rules'[q], rules[q])  BY <1>1 DEF SameTarget
<1>3. rules'[r] = row /\ SameTarget(rules'[r], rules[r])  BY <1>1
<1> QED  BY <1>1, <1>2, <1>3

\* Rules keep their targets, and nothing is written.
LEMMA NothingTraced ==
  ASSUME TypeOK, StatusInv, TraceInv, StatusInv', UNCHANGED decisions,
         \A r \in RuleIds : r \in RuleIds' /\ SameTarget(rules'[r], rules[r])
  PROVE  TraceInv'
<1>1. DecisionIds = 1..Len(decisions) /\ Len(decisions) \in Nat /\ DecisionIds' = DecisionIds
  BY IdsOfSeq DEF TypeOK, DecisionIds
<1>2. Grew(Len(decisions), Len(decisions))  BY <1>1 DEF Grew
<1>3. DecisionIds' \ DecisionIds = {}  BY <1>1
<1> QED  BY <1>2, <1>3, TraceGrows

LEMMA AddedTraced ==
  ASSUME TypeOK, StatusInv, TraceInv, StatusInv', NEW row \in Rule, Adds(row)
  PROVE  TraceInv'
<1>1. /\ rules' = Append(rules, row)
      /\ \/ UNCHANGED <<config, decisions>>
         \/ \E e \in Decision : /\ Writes(e) /\ e.form = "apply" /\ e.rule = Len(rules) + 1
                                /\ Applies(e, Len(rules) + 1, row)
  BY DEF Adds
<1>2. /\ RuleIds' = RuleIds \cup {Len(rules) + 1} /\ rules'[Len(rules) + 1] = row
      /\ \A q \in RuleIds : rules'[q] = rules[q]
  BY <1>1, RuleAppended DEF TypeOK
<1>3. \A r \in RuleIds : r \in RuleIds' /\ SameTarget(rules'[r], rules[r])
  BY <1>2 DEF SameTarget
<1>4. CASE UNCHANGED decisions
  BY <1>3, <1>4, NothingTraced
<1>5. ASSUME NEW e \in Decision, Writes(e), e.form = "apply", e.rule = Len(rules) + 1,
             Applies(e, Len(rules) + 1, row)
      PROVE  TraceInv'
  <2>1. Applies(e, e.rule, rules'[e.rule])  BY <1>2, <1>5
  <2> QED  BY <1>3, <1>5, <2>1, WriteTraced
<1> QED  BY <1>1, <1>4, <1>5

\* Each entry that expires a rule takes back what that rule did.
LEMMA ExpireTraced ==
  ASSUME TypeOK, StatusInv, TraceInv, StatusInv',
         NEW order \in Orders(Due), NEW more \in Seq(FlagDecision), ExpireRules(order, more)
  PROVE  TraceInv'
<1> DEFINE n == Len(decisions)
<1> DEFINE m == Len(decisions) + Len(order) + Len(more)
<1>1. /\ DecisionIds = 1..n /\ n \in Nat /\ DecisionIds' = 1..m
      /\ Len(order) \in Nat /\ Len(more) \in Nat /\ DOMAIN order = 1..Len(order)
      /\ \A i \in DOMAIN order : /\ decisions'[n + i] = ExpiryDecision(order[i])
                                 /\ order[i] \in RuleIds
      /\ \A i \in 1..Len(more) : /\ decisions'[n + Len(order) + i] = more[i]
                                 /\ more[i] \in FlagDecision
  BY ExpireEffect
<1>2. Grew(n, m)  BY ExpireEntries
<1>3. ASSUME NEW i \in DecisionIds' \ DecisionIds
      PROVE  \/ \E r \in RuleIds : decisions'[i] = ExpiryDecision(r)
             \/ decisions'[i] \in FlagDecision
  <2>1. CASE i <= n + Len(order)
    <3>1. i - n \in 1..Len(order) /\ n + (i - n) = i  BY <1>1, <1>3, <2>1
    <3> QED  BY <1>1, <3>1
  <2>2. CASE n + Len(order) < i
    <3>1. /\ i - (n + Len(order)) \in 1..Len(more)
          /\ n + Len(order) + (i - (n + Len(order))) = i
      BY <1>1, <1>3, <2>2
    <3> QED  BY <1>1, <3>1
  <2> QED  BY <1>1, <1>3, <2>1, <2>2
<1> HIDE DEF n, m
<1>4. \A r \in RuleIds : r \in RuleIds' /\ SameTarget(rules'[r], rules[r])
  <2> SUFFICES ASSUME NEW r \in RuleIds PROVE r \in RuleIds' /\ SameTarget(rules'[r], rules[r])
    OBVIOUS
  <2>1. /\ RuleIds' = RuleIds
        /\ rules'[r] = IF r \in Due THEN [rules[r] EXCEPT !.status = "expired"] ELSE rules[r]
    BY ExpireEffect
  <2>2. rules[r] \in Rule  BY IdsOfSeq DEF TypeOK, RuleIds
  <2> QED  BY <2>1, <2>2 DEF SameTarget, Rule
<1>5. ASSUME NEW i \in DecisionIds' \ DecisionIds, NEW e, e = decisions'[i]
      PROVE  /\ e.kind = "reactivation" /\ e.form \in {"expired", "review"}
             /\ e.key # NoThreshold => e.form = "expired"
             /\ e.form = "expired" => Reverses(e)
  <2>1. CASE e \in FlagDecision
    BY <2>1 DEF FlagDecision
  <2>2. ASSUME NEW r \in RuleIds, e = ExpiryDecision(r)
        PROVE  e.kind = "reactivation" /\ e.form = "expired" /\ Reverses(e)
    <3>1. e \in Decision /\ e.kind = "reactivation" /\ e.form = "expired" /\ e.rule = r
      BY <2>2, ExpiryDecisionType
    <3>2. TakesBack(e, r)  BY <2>2, ExpiryTakesBack
    <3> QED  BY <3>1, <3>2, TakenBack DEF StatusInv
  <2> QED  BY <1>3, <1>5, <2>1, <2>2
<1> QED  BY <1>2, <1>4, <1>5, TraceGrows

LEMMA TraceInit == Init => TraceInv
<1> SUFFICES ASSUME Init PROVE TraceInv  OBVIOUS
<1>1. DecisionIds = {}  BY DEF Init, DecisionIds
<1> QED  BY <1>1 DEF TraceInv

LEMMA TraceStep == TypeOK /\ StatusInv /\ TraceInv /\ [Next]_vars => TraceInv'
<1> SUFFICES ASSUME TypeOK, StatusInv, TraceInv, [Next]_vars PROVE TraceInv'  OBVIOUS
<1>0. StatusInv'  BY StatusStep
<1>1. ASSUME NEW p \in Proposals, Propose(p) \/ ProposeRefused(p) PROVE TraceInv'
  BY <1>0, <1>1, ProposeWrites, AddedTraced
<1>2. ASSUME NEW r \in RuleIds, Apply(r) PROVE TraceInv'
  <2>1. PICK row \in Rule : rules' = [rules EXCEPT ![r] = row] /\ SameTarget(row, rules[r])
    BY <1>2, ApplyWrites
  <2>2. PICK e \in Decision : Writes(e) /\ Applies(e, r, rules[r])
    BY <1>2, ApplyWrites
  <2>3. /\ rules'[r] = row
        /\ \A q \in RuleIds : q \in RuleIds' /\ SameTarget(rules'[q], rules[q])
    BY <2>1, TargetsStay
  <2>4. e.form = "apply" /\ Applies(e, e.rule, rules'[e.rule])
    BY <2>1, <2>2, <2>3 DEF Applies, SameTarget
  <2> QED  BY <1>0, <2>2, <2>3, <2>4, WriteTraced
<1>3. ASSUME NEW r \in RuleIds, Undo(r) PROVE TraceInv'
  <2>1. PICK row \in Rule : rules' = [rules EXCEPT ![r] = row] /\ SameTarget(row, rules[r])
    BY <1>3, UndoWrites
  <2>2. PICK e \in Decision : /\ Writes(e) /\ e.form = "undo" /\ e.rule = r /\ e.kind = "undo"
                              /\ TakesBack(e, r)
    BY <1>3, UndoWrites
  <2>3. \A q \in RuleIds : q \in RuleIds' /\ SameTarget(rules'[q], rules[q])
    BY <2>1, TargetsStay
  <2>4. Reverses(e)  BY <2>2, TakenBack DEF StatusInv
  <2> QED  BY <1>0, <2>2, <2>3, <2>4, WriteTraced
<1>4. ASSUME NEW r \in RuleIds, NEW kind \in NewScopes, EditScope(r, kind) PROVE TraceInv'
  <2>1. PICK row \in Rule : rules' = [rules EXCEPT ![r] = row] /\ SameTarget(row, rules[r])
    BY <1>4, EditScopeWrites
  <2>2. PICK e \in Decision : Writes(e) /\ e.form = "edit" /\ e.rule = r /\ e.key = NoThreshold
    BY <1>4, EditScopeWrites
  <2>3. /\ rules'[r] = row
        /\ \A q \in RuleIds : q \in RuleIds' /\ SameTarget(rules'[q], rules[q])
    BY <2>1, TargetsStay
  <2>4. rules'[e.rule].type # "threshold"
    BY <1>4, <2>1, <2>2, <2>3, EditScopeWrites DEF SameTarget
  <2> QED  BY <1>0, <2>2, <2>3, <2>4, WriteTraced
<1>5. ASSUME NEW r \in RuleIds, SetExpiry(r) PROVE TraceInv'
  <2>1. rules' = [rules EXCEPT ![r] = [rules[r] EXCEPT !.due = TRUE]]  BY <1>5 DEF SetExpiry
  <2>2. rules[r] \in Rule  BY IdsOfSeq DEF TypeOK, RuleIds
  <2>3. /\ [rules[r] EXCEPT !.due = TRUE] \in Rule
        /\ SameTarget([rules[r] EXCEPT !.due = TRUE], rules[r])
    BY <2>2 DEF Rule, SameTarget
  <2>4. \A q \in RuleIds : q \in RuleIds' /\ SameTarget(rules'[q], rules[q])
    BY <2>1, <2>3, TargetsStay
  <2>5. UNCHANGED decisions  BY <1>5 DEF SetExpiry
  <2> QED  BY <1>0, <2>4, <2>5, NothingTraced
<1>6. ASSUME UNCHANGED rules PROVE \A q \in RuleIds : q \in RuleIds' /\ SameTarget(rules'[q], rules[q])
  BY <1>6 DEF RuleIds, SameTarget
<1>7. ASSUME NEW r \in RuleIds, Keep(r) PROVE TraceInv'
  <2>1. UNCHANGED rules  BY <1>7 DEF Keep
  <2>2. PICK e \in Decision : /\ Writes(e) /\ e.form = "keep" /\ e.kind = "approval"
                              /\ e.key = NoThreshold
    BY <1>7, KeepWrites
  <2> QED  BY <1>0, <1>6, <2>1, <2>2, WriteTraced
<1>8. ASSUME NEW k \in Thresholds, NEW v \in Values, PatchConfig(k, v) PROVE TraceInv'
  <2>1. UNCHANGED rules  BY <1>8 DEF PatchConfig
  <2>2. PICK e \in Decision : Writes(e) /\ e.form = "settings"  BY <1>8, PatchConfigWrites
  <2> QED  BY <1>0, <1>6, <2>1, <2>2, WriteTraced
<1>9. ASSUME Scan \/ Audit PROVE TraceInv'
  BY <1>0, <1>9, ScanOrAuditExpires, ExpireTraced
<1>10. CASE UNCHANGED vars
  BY <1>0, <1>6, <1>10, NothingTraced DEF vars
<1> QED  BY <1>1, <1>2, <1>3, <1>4, <1>5, <1>7, <1>8, <1>9, <1>10 DEF Next

\* When the rules on a threshold were closed in the reverse order of their application, the
\* values the log restored lead back to the seed, to an administrator or to a rule that has
\* not been closed: by induction over the entries that changed the threshold.
LEMMA NestedRestores ==
  ASSUME TypeOK, LogExplainsConfig, OldValuesChain, StatusInv, TraceInv
  PROVE  NestedUndoRestores
<1> SUFFICES ASSUME NEW k \in Thresholds, NEW first \in DecisionIds, decisions[first].key = k,
                    \A i \in DecisionIds :
                      decisions[i].form \in {"undo", "expired"} /\ decisions[i].key = k
                      => Nested(i),
                    DeadValueInForce(k)
             PROVE  FALSE
  BY DEF NestedUndoRestores
<1>1. DecisionIds = 1..Len(decisions) /\ Len(decisions) \in Nat /\ DecisionIds \subseteq Nat
  BY IdsOfSeq DEF TypeOK, DecisionIds
<1>2. k # NoThreshold  BY ThresholdAssumption
<1>3. \A i \in DecisionIds : Traced(decisions[i])  BY DEF TraceInv
<1>4. \A c, d \in DecisionIds :
        decisions[c].form \in {"undo", "expired"} /\ d > c => decisions[d].rule # decisions[c].rule
  BY DEF StatusInv, ClosingIsFinal
<1>5. ASSUME NEW b \in DecisionIds, decisions[b].form = "apply", decisions[b].key = k,
             NEW c \in DecisionIds, IsClose(c, decisions[b].rule)
      PROVE  decisions[c].key = k /\ b < c
  <2>1. decisions[c].form \in {"undo", "expired"} /\ decisions[c].rule = decisions[b].rule
    BY <1>5 DEF IsClose
  <2>2. Reverses(decisions[c])  BY <1>3, <2>1 DEF Traced
  <2>3. decisions[c].key = k  BY <1>2, <1>5, <2>1, <2>2 DEF Reverses, IsApply
  <2>4. b # c  BY <1>5, <2>1
  <2>5. ~(c < b)  BY <1>4, <2>1
  <2> QED  BY <1>1, <2>3, <2>4, <2>5
<1> DEFINE Kept(v, e) ==
      \E b \in DecisionIds :
        /\ b <= e /\ decisions[b].form = "apply" /\ decisions[b].key = k /\ decisions[b].new = v
        /\ \A c \in DecisionIds : c <= e => ~IsClose(c, decisions[b].rule)
    Sound(v, e) ==
      \/ v = Seed[k]
      \/ \E s \in DecisionIds : /\ decisions[s].form = "settings" /\ decisions[s].key = k
                                /\ decisions[s].new = v
      \/ Kept(v, e)
<1>6. \A e \in DecisionIds : decisions[e].key = k => Sound(decisions[e].new, e)
  <2> DEFINE Bad == {e \in DecisionIds : decisions[e].key = k /\ ~Sound(decisions[e].new, e)}
  <2> SUFFICES ASSUME Bad # {} PROVE FALSE
    OBVIOUS
  <2>1. Bad \subseteq Nat  BY <1>1
  <2> HIDE DEF Bad
  <2>2. PICK e \in Bad : \A y \in Bad : e <= y  BY <2>1, LeastOne
  <2> USE DEF Bad
  <2>3. PICK v : v = decisions[e].new  OBVIOUS
  <2>4. e \in DecisionIds /\ decisions[e].key = k /\ ~Sound(v, e) /\ e \in Nat
    BY <1>1, <2>2, <2>3
  <2>5. \A b \in DecisionIds : b < e /\ decisions[b].key = k => Sound(decisions[b].new, b)
    BY <1>1, <2>2
  <2> HIDE DEF Bad
  <2>6. decisions[e].form \in {"apply", "settings", "undo", "expired"}
    BY <1>2, <1>3, <2>4 DEF Traced
  <2>7. decisions[e].form # "settings"  BY <2>3, <2>4
  <2>8. decisions[e].form # "apply"
    <3> SUFFICES ASSUME decisions[e].form = "apply" PROVE FALSE  OBVIOUS
    <3>1. \A c \in DecisionIds : c <= e => ~IsClose(c, decisions[e].rule)
      BY <1>1, <1>5, <2>4
    <3>2. e <= e  BY <2>4
    <3> QED  BY <2>3, <2>4, <3>1, <3>2
  <2>9. PICK r : r = decisions[e].rule  OBVIOUS
  <2>10. decisions[e].form \in {"undo", "expired"} /\ IsClose(e, r)
    BY <2>6, <2>7, <2>8, <2>9 DEF IsClose
  <2>11. PICK a \in DecisionIds : IsApply(a, r) /\ decisions[a].key = k /\ decisions[a].old = v
    <3>1. Reverses(decisions[e])  BY <1>3, <2>4, <2>10 DEF Traced
    <3> QED  BY <1>2, <2>3, <2>4, <2>9, <3>1 DEF Reverses
  <2>12. a < e /\ decisions[a].form = "apply" /\ decisions[a].rule = r
    BY <1>5, <2>4, <2>10, <2>11 DEF IsApply
  <2>13. Explained(decisions, k, v, a)
    BY <1>2, <2>11, <2>12 DEF OldValuesChain
  <2>14. PICK b \in DecisionIds : /\ b < a /\ decisions[b].key = k /\ decisions[b].new = v
                                 /\ \A j \in DecisionIds : b < j /\ j < a => decisions[j].key # k
    BY <2>4, <2>13 DEF Explained, DecisionIds
  <2>15. a \in Nat /\ b \in Nat /\ b < a /\ b < e
    <3>1. a \in Nat /\ b \in Nat  BY <1>1, <2>11, <2>14
    <3> QED  BY <2>4, <2>12, <2>14, <3>1
  <2>16. Kept(v, b)  BY <2>4, <2>5, <2>14, <2>15
  <2>17. PICK o \in DecisionIds :
           /\ o <= b /\ decisions[o].form = "apply" /\ decisions[o].key = k /\ decisions[o].new = v
           /\ \A c \in DecisionIds : c <= b => ~IsClose(c, decisions[o].rule)
    BY <2>16
  <2>18. ASSUME NEW c \in DecisionIds, c <= e, IsClose(c, decisions[o].rule) PROVE FALSE
    <3>1. decisions[c].key = k /\ b < c
      BY <1>1, <1>5, <2>17, <2>18
    <3>2. decisions[c].form \in {"undo", "expired"} /\ decisions[c].rule = decisions[o].rule
      BY <2>18 DEF IsClose
    <3>3. a < c
      <4>1. ~(c < a)  BY <2>14, <3>1
      <4>2. c # a  BY <2>12, <3>2
      <4> QED  BY <1>1, <4>1, <4>2
    <3>4. o < a  BY <1>1, <2>14, <2>17
    <3>5. PICK q : q = decisions[o].rule  OBVIOUS
    <3>6. q # r
      <4> SUFFICES ASSUME q = r PROVE FALSE  OBVIOUS
      <4>1. IsApply(o, r) /\ IsApply(a, r)  BY <2>11, <2>17, <3>5 DEF IsApply
      <4>2. r \in RuleIds  BY <2>12 DEF StatusInv, RuleRefs
      <4>3. o = a  BY <4>1, <4>2 DEF StatusInv, StatusMatchesLog, StatusAgrees
      <4> QED  BY <1>1, <3>4, <4>3
    <3>7. c < e /\ c \in Nat
      <4>1. c # e  BY <2>9, <3>2, <3>5, <3>6
      <4>2. c \in Nat  BY <1>1
      <4> QED  BY <2>4, <2>18, <4>1, <4>2
    <3>8. Nested(c)  BY <3>1, <3>2
    <3>9. IsApply(o, decisions[c].rule)  BY <2>17, <3>2 DEF IsApply
    <3>10. PICK d \in DecisionIds : a < d /\ d < c /\ IsClose(d, r)
      BY <2>11, <2>12, <3>1, <3>3, <3>4, <3>8, <3>9 DEF Nested
    <3>11. d < e
      <4>1. d \in Nat  BY <1>1
      <4> QED  BY <2>4, <3>7, <3>10, <4>1
    <3>12. decisions[d].form \in {"undo", "expired"} /\ decisions[d].rule = r
      BY <3>10 DEF IsClose
    <3>13. e > d  BY <3>11
    <3> QED  BY <1>4, <2>4, <2>9, <3>12, <3>13
  <2>19. o <= e
    <3>1. o \in Nat  BY <1>1
    <3> QED  BY <2>4, <2>15, <2>17, <3>1
  <2> QED  BY <2>4, <2>17, <2>18, <2>19
<1> HIDE DEF Kept, Sound
<1>7. PICK i \in DecisionIds : /\ decisions[i].key = k
                               /\ \A j \in DecisionIds : j > i => decisions[j].key # k
  <2> DEFINE T == {i \in DecisionIds : decisions[i].key = k}
  <2>1. first \in T /\ T \subseteq Nat /\ \A x \in T : x <= Len(decisions)  BY <1>1
  <2> HIDE DEF T
  <2>2. PICK i \in Last(T) : TRUE  BY <1>1, <2>1, GreatestOne
  <2>3. i \in T /\ \A j \in T : j <= i  BY <2>2 DEF Last
  <2> QED  BY <1>1, <2>3 DEF T
<1>8. config[k] = decisions[i].new
  <2>1. Explained(decisions, k, config[k], Len(decisions) + 1)  BY DEF LogExplainsConfig
  <2>2. \A j \in DecisionIds : j < Len(decisions) + 1  BY <1>1
  <2>3. PICK x \in DecisionIds :
          /\ decisions[x].key = k /\ decisions[x].new = config[k]
          /\ \A j \in DecisionIds : x < j => decisions[j].key # k
    BY <1>7, <2>1, <2>2 DEF Explained, DecisionIds
  <2>4. x = i  BY <1>1, <1>7, <2>3
  <2> QED  BY <2>3, <2>4
<1>9. /\ config[k] # Seed[k]
      /\ \A j \in DecisionIds : decisions[j].form = "settings" /\ decisions[j].key = k
                                => decisions[j].new # config[k]
      /\ \A r \in RuleIds : rules[r].status = "active" /\ rules[r].key = k
                            => rules[r].value # config[k]
  BY <1>7 DEF DeadValueInForce
<1>10. Kept(config[k], i)
  <2>1. Sound(config[k], i)  BY <1>6, <1>7, <1>8
  <2> QED  BY <1>9, <2>1 DEF Sound
<1>11. PICK b \in DecisionIds :
         /\ b <= i /\ decisions[b].form = "apply" /\ decisions[b].key = k
         /\ decisions[b].new = config[k]
         /\ \A c \in DecisionIds : c <= i => ~IsClose(c, decisions[b].rule)
  BY <1>10 DEF Kept
<1>12. \A c \in DecisionIds : ~IsClose(c, decisions[b].rule)
  BY <1>1, <1>5, <1>7, <1>11
<1>13. PICK r \in RuleIds : r = decisions[b].rule
  BY <1>11 DEF StatusInv, RuleRefs
<1>14. rules[r].status = "active"
  <2>1. StatusAgrees(r) /\ IsApply(b, r)
    BY <1>11, <1>13 DEF StatusInv, StatusMatchesLog, IsApply
  <2>2. rules[r].status \notin {"pending_confirm", "reverted", "expired"}
    BY <1>12, <1>13, <2>1 DEF StatusAgrees
  <2>3. rules[r] \in Rule  BY IdsOfSeq DEF TypeOK, RuleIds
  <2> QED  BY <2>2, <2>3 DEF Rule
<1>15. rules[r].key = k /\ rules[r].value = config[k]
  <2>1. Applies(decisions[b], r, rules[r])  BY <1>3, <1>11, <1>13 DEF Traced
  <2> QED  BY <1>2, <1>11, <2>1 DEF Applies
<1> QED  BY <1>9, <1>14, <1>15

\* Undo and expiry, in the reverse order of the applications, leave no value of a closed rule
\* in force.
THEOREM NestedUndo == Spec => []NestedUndoRestores
<1> DEFINE Inv == TypeOK /\ LogExplainsConfig /\ OldValuesChain /\ StatusInv /\ TraceInv
<1>1. Init => Inv  BY TypeInit, LogInit, StatusInit, TraceInit
<1>2. Inv /\ [Next]_vars => Inv'  BY TypeStep, LogStep, StatusStep, TraceStep
<1>3. Inv => NestedUndoRestores  BY NestedRestores
<1> QED  BY <1>1, <1>2, <1>3, PTL DEF Spec
=============================================================================
