------------------------------- MODULE Chat_proofs -------------------------------
(***************************************************************************)
(* Proofs about Chat, for any posts, conversations, texts, tools and       *)
(* scopes: a tool is run about a customer that the conversation named,     *)
(* what tools write is in the log, knowledge is attributed to a message of *)
(* the same conversation, and no name but one at the start of a sentence   *)
(* reaches a prompt.                                                       *)
(*                                                                         *)
(* Two posts share the sequence of ids and the committed messages, and     *)
(* nothing else.  The invariant is a predicate of one post.  What a prompt *)
(* is made of is a second one, of texts, and what masking leaves of a text *)
(* is a lemma about Masking alone: the redaction's for any list of words,  *)
(* and that resolution and pseudonyms make lists of lists, by induction    *)
(* over what their folds have taken.                                       *)
(***************************************************************************)
EXTENDS Chat, FiniteSetTheorems, WellFoundedInduction, TLAPS

------------------------------------------------------------------------------
(* Numbers.                                                                  *)

\* A set of natural numbers has a least element.
LEMMA LeastOne ==
  ASSUME NEW T, T \subseteq Nat, T # {}
  PROVE  \E x \in T : \A y \in T : x <= y
<1> DEFINE R == OpToRel(<, Nat)
<1>1. IsWellFoundedOn(R, Nat)  BY NatLessThanWellFounded
<1>2. \A x, y \in Nat : y < x => <<y, x>> \in R  BY DEF OpToRel
<1> HIDE DEF R
<1>3. \E x \in T : \A y \in T : ~(<<y, x>> \in R)  BY <1>1, WFMin
<1>4. PICK x \in T : \A y \in T : ~(<<y, x>> \in R)  BY <1>3
<1>5. ASSUME NEW y \in T PROVE x <= y
  <2>1. x \in Nat /\ y \in Nat  OBVIOUS
  <2>2. ~(y < x)  BY <1>2, <1>4, <2>1
  <2> QED  BY <2>1, <2>2
<1> QED  BY <1>5

\* A set of natural numbers with a bound has a greatest element.
LEMMA GreatestOne ==
  ASSUME NEW T, T \subseteq Nat, T # {}, NEW n \in Nat, \A x \in T : x <= n
  PROVE  \E x \in T : \A y \in T : y <= x
<1> DEFINE Bounds == {b \in Nat : \A y \in T : y <= b}
<1>1. n \in Bounds  OBVIOUS
<1>2. PICK b \in Bounds : \A c \in Bounds : b <= c
  BY <1>1, LeastOne
<1>3. CASE b \in T
  BY <1>2, <1>3
<1>4. CASE b \notin T
  <2>1. PICK t : t \in T  OBVIOUS
  <2>2. \A y \in T : y < b /\ y \in Nat  BY <1>2, <1>4
  <2>3. b - 1 \in Bounds  BY <2>1, <2>2
  <2> QED  BY <1>2, <2>3
<1> QED  BY <1>3, <1>4

------------------------------------------------------------------------------
(* Finite sets in order.                                                     *)

IsList(s) == Len(s) \in Nat /\ DOMAIN s = 1 .. Len(s)

\* What holds of a set if it holds of the sets with one element less holds of every subset of a
\* finite set.
LEMMA SubsetInduction ==
  ASSUME NEW S, IsFiniteSet(S), NEW G,
         \A s \in SUBSET S : (\A x \in s : s \ {x} \in G) => s \in G
  PROVE  \A s \in SUBSET S : s \in G
<1> SUFFICES ASSUME NEW s \in SUBSET S, s \notin G PROVE FALSE
  OBVIOUS
<1> DEFINE Bad == {n \in Nat : \E t \in SUBSET S : t \notin G /\ Cardinality(t) = n}
<1>1. \A t \in SUBSET S : IsFiniteSet(t) /\ Cardinality(t) \in Nat
  BY FS_Subset, FS_CardinalityType
<1>2. Bad # {}  BY <1>1
<1>3. PICK n \in Bad : \A m \in Bad : n <= m  BY <1>2, LeastOne
<1>4. PICK t \in SUBSET S : t \notin G /\ Cardinality(t) = n  BY <1>3
<1>5. PICK x \in t : t \ {x} \notin G  BY <1>4
<1>6. Cardinality(t \ {x}) = n - 1  BY <1>1, <1>4, <1>5, FS_RemoveElement
<1>7. t \ {x} \in SUBSET S /\ Cardinality(t \ {x}) \in Nat  BY <1>1
<1>8. n - 1 \in Bad  BY <1>5, <1>6, <1>7
<1> QED  BY <1>3, <1>6, <1>7, <1>8

\* How many elements of K come before x in R.
RankIn(K, R, x) == Cardinality({y \in K : <<y, x>> \in R})
StrictOrder(K, R) ==
    /\ \A x \in K : <<x, x>> \notin R
    /\ \A x, y, z \in K : <<x, y>> \in R /\ <<y, z>> \in R => <<x, z>> \in R
    /\ \A x, y \in K : x # y => <<x, y>> \in R \/ <<y, x>> \in R

\* In a finite set with a strict order there is an element of every rank.
LEMMA EveryRank ==
  ASSUME NEW K, IsFiniteSet(K), NEW R, StrictOrder(K, R)
  PROVE  \A n \in 0 .. Cardinality(K) - 1 : \E x \in K : RankIn(K, R, x) = n
<1> DEFINE Below(x) == {y \in K : <<y, x>> \in R}
           rank == [x \in K |-> Cardinality(Below(x))]
           Ranks == 0 .. Cardinality(K) - 1
<1>1. Cardinality(K) \in Nat  BY FS_CardinalityType
<1>2. \A x \in K : IsFiniteSet(Below(x)) /\ rank[x] \in Nat /\ rank[x] = Cardinality(Below(x))
  <2> SUFFICES ASSUME NEW x \in K
               PROVE  /\ IsFiniteSet(Below(x)) /\ rank[x] \in Nat
                      /\ rank[x] = Cardinality(Below(x))
    OBVIOUS
  <2>1. Below(x) \subseteq K /\ rank[x] = Cardinality(Below(x))  OBVIOUS
  <2> HIDE DEF Below
  <2>2. IsFiniteSet(Below(x))  BY <2>1, FS_Subset
  <2>3. Cardinality(Below(x)) \in Nat  BY <2>2, FS_CardinalityType
  <2> QED  BY <2>1, <2>2, <2>3
<1>3. ASSUME NEW x \in K, NEW y \in K, <<x, y>> \in R PROVE rank[x] < rank[y]
  <2>1. Below(x) \subseteq Below(y) \ {x} /\ x \in Below(y)  BY <1>3 DEF StrictOrder
  <2> HIDE DEF Below, rank
  <2>2. IsFiniteSet(Below(y)) /\ rank[y] = Cardinality(Below(y)) /\ rank[x] = Cardinality(Below(x))
    BY <1>2
  <2>3. IsFiniteSet(Below(y) \ {x}) /\ Cardinality(Below(y) \ {x}) = rank[y] - 1
    BY <2>1, <2>2, FS_RemoveElement
  <2>4. Cardinality(Below(x)) <= Cardinality(Below(y) \ {x})  BY <2>1, <2>3, FS_Subset
  <2>5. rank[x] \in Nat /\ rank[y] \in Nat  BY <1>2
  <2> QED  BY <2>2, <2>3, <2>4, <2>5
<1>4. ASSUME NEW x \in K PROVE rank[x] \in Ranks
  <2>1. Below(x) \subseteq K \ {x}  BY DEF StrictOrder
  <2> HIDE DEF Below, rank
  <2>2. IsFiniteSet(K \ {x}) /\ Cardinality(K \ {x}) = Cardinality(K) - 1
    BY FS_RemoveElement
  <2>3. Cardinality(Below(x)) <= Cardinality(K \ {x})  BY <2>1, <2>2, FS_Subset
  <2>4. rank[x] \in Nat /\ rank[x] = Cardinality(Below(x))  BY <1>2
  <2> QED  BY <1>1, <2>2, <2>3, <2>4
<1>5. ASSUME NEW x \in K, NEW y \in K, x # y PROVE rank[x] # rank[y]
  <2>1. rank[x] < rank[y] \/ rank[y] < rank[x]
    <3>1. CASE <<x, y>> \in R
      <4> HIDE DEF rank
      <4> QED  BY <1>3, <3>1
    <3>2. CASE <<y, x>> \in R
      <4> HIDE DEF rank
      <4> QED  BY <1>3, <3>2
    <3> QED  BY <1>5, <3>1, <3>2 DEF StrictOrder
  <2>2. rank[x] \in Nat /\ rank[y] \in Nat  BY <1>2
  <2> HIDE DEF rank
  <2> QED  BY <2>1, <2>2
<1>6. DOMAIN rank = K /\ rank = [x \in K |-> rank[x]]  OBVIOUS
<1> HIDE DEF rank
<1>7. rank \in [K -> Ranks]
  <2> HIDE DEF Ranks
  <2> QED  BY <1>4, <1>6
<1>8. rank \in Injection(K, Ranks)
  <2> HIDE DEF Ranks
  <2> QED  BY <1>5, <1>7 DEF Injection, IsInjective
<1>9. IsFiniteSet(Ranks) /\ Cardinality(Ranks) = Cardinality(K)
  <2>1. 0 \in Int /\ Cardinality(K) - 1 \in Int  BY <1>1
  <2>2. IsFiniteSet(Ranks)  BY <2>1, FS_Interval
  <2>3. Cardinality(Ranks) = IF 0 > Cardinality(K) - 1 THEN 0 ELSE Cardinality(K) - 1 - 0 + 1
    BY <2>1, FS_Interval
  <2> HIDE DEF Ranks
  <2> QED  BY <1>1, <2>2, <2>3
<1>10. rank \in Surjection(K, Ranks)
  <2> HIDE DEF Ranks
  <2> QED  BY <1>8, <1>9, FS_Injection
<1>11. \A n \in Ranks : \E x \in K : rank[x] = n
  <2> HIDE DEF Ranks
  <2> QED  BY <1>10 DEF Surjection
<1>12. \A n \in Ranks : \E x \in K : Cardinality(Below(x)) = n
  <2> HIDE DEF Ranks, Below
  <2> QED  BY <1>2, <1>11
<1> QED  BY <1>12 DEF RankIn

\* What is kept of a text is in its order.
LEMMA KeptInOrder ==
  ASSUME NEW n \in Nat, NEW K, K \subseteq 1 .. n
  PROVE  /\ Cardinality(K) \in Nat /\ DOMAIN InOrder(K, <) = 1 .. Cardinality(K)
         /\ \A k \in 1 .. Cardinality(K) : InOrder(K, <)[k] \in K
         /\ \A x \in K : \E k \in 1 .. Cardinality(K) : InOrder(K, <)[k] = x
         /\ \A k, l \in 1 .. Cardinality(K) : k < l => InOrder(K, <)[k] < InOrder(K, <)[l]
<1> DEFINE Below(x) == {y \in K : y < x}
           Rank(x) == Cardinality(Below(x))
           s == InOrder(K, <)
<1>1. IsFiniteSet(K) /\ Cardinality(K) \in Nat
  <2>1. IsFiniteSet(1 .. n)  BY FS_Interval
  <2>2. IsFiniteSet(K)  BY <2>1, FS_Subset
  <2> QED  BY <2>2, FS_CardinalityType
<1>2. \A x : IsFiniteSet(Below(x)) /\ Rank(x) \in Nat
  <2> SUFFICES ASSUME NEW x PROVE IsFiniteSet(Below(x)) /\ Rank(x) \in Nat
    OBVIOUS
  <2>1. Below(x) \subseteq K  OBVIOUS
  <2> HIDE DEF Below
  <2>2. IsFiniteSet(Below(x))  BY <1>1, <2>1, FS_Subset
  <2> QED  BY <2>2, FS_CardinalityType
<1>3. K \subseteq Nat /\ (\A x \in K : x <= n) /\ (\A x \in K : x \in Nat)  OBVIOUS
<1>11. \A x : Rank(x) \in Nat  BY <1>2
<1>4. ASSUME NEW x \in K PROVE Rank(x) < Cardinality(K)
  <2>1. Below(x) \subseteq K \ {x}  BY <1>3
  <2>2. IsFiniteSet(K \ {x}) /\ Cardinality(K \ {x}) = Cardinality(K) - 1
    BY <1>1, FS_RemoveElement
  <2> HIDE DEF Below
  <2>3. Rank(x) <= Cardinality(K \ {x})  BY <2>1, <2>2, FS_Subset
  <2> QED  BY <1>1, <1>2, <2>2, <2>3
<1>5. ASSUME NEW x \in K, NEW y \in K, x < y PROVE Rank(x) < Rank(y)
  <2>1. Below(x) \subseteq Below(y) \ {x} /\ x \in Below(y)
    <3>1. \A z \in K : z < x => z < y /\ z # x  BY <1>3, <1>5
    <3> QED  BY <1>5, <3>1
  <2> HIDE DEF Below
  <2>2. IsFiniteSet(Below(y) \ {x}) /\ Cardinality(Below(y) \ {x}) = Rank(y) - 1
    BY <1>2, <2>1, FS_RemoveElement
  <2>3. Rank(x) <= Cardinality(Below(y) \ {x})  BY <2>1, <2>2, FS_Subset
  <2> QED  BY <1>2, <2>2, <2>3
<1>6. ASSUME NEW k \in 1 .. Cardinality(K) PROVE \E x \in K : Rank(x) = k - 1
  <2> DEFINE R == {p \in K \X K : p[1] < p[2]}
  <2>1. \A x, y \in K : <<x, y>> \in R <=> x < y  OBVIOUS
  <2>2. \A x \in K : Rank(x) = RankIn(K, R, x)
    <3> SUFFICES ASSUME NEW x \in K PROVE Rank(x) = RankIn(K, R, x)
      OBVIOUS
    <3>1. Below(x) = {y \in K : <<y, x>> \in R}  OBVIOUS
    <3> QED  BY <3>1 DEF RankIn
  <2> HIDE DEF R, Rank
  <2>3. StrictOrder(K, R)  BY <1>3, <2>1 DEF StrictOrder
  <2>4. k - 1 \in 0 .. Cardinality(K) - 1  BY <1>1
  <2>5. \A a \in 0 .. Cardinality(K) - 1 : \E x \in K : RankIn(K, R, x) = a
    BY <1>1, <2>3, EveryRank
  <2> QED  BY <2>2, <2>4, <2>5
<1>7. /\ DOMAIN s = 1 .. Cardinality(K)
      /\ \A k \in 1 .. Cardinality(K) : s[k] = CHOOSE x \in K : Rank(x) = k - 1
  BY DEF InOrder
<1> HIDE DEF Rank, Below, s
<1>8. \A k \in 1 .. Cardinality(K) : s[k] \in K /\ Rank(s[k]) = k - 1  BY <1>6, <1>7
<1>9. ASSUME NEW x \in K PROVE \E k \in 1 .. Cardinality(K) : s[k] = x
  <2> DEFINE k == Rank(x) + 1
  <2>1. k \in 1 .. Cardinality(K)  BY <1>1, <1>11, <1>4
  <2>2. s[k] \in K /\ Rank(s[k]) = Rank(x)  BY <1>11, <1>8, <2>1
  <2>3. s[k] = x
    <3> HIDE DEF k
    <3>1. s[k] \in Nat /\ x \in Nat  BY <1>3, <2>2
    <3>2. Rank(x) \in Nat /\ ~(Rank(x) < Rank(x))  BY <1>11
    <3>3. ~(s[k] < x)
      <4>1. ~(Rank(s[k]) < Rank(x))  BY <2>2, <3>2
      <4> QED  BY <1>5, <2>2, <4>1
    <3>4. ~(x < s[k])
      <4>1. ~(Rank(x) < Rank(s[k]))  BY <2>2, <3>2
      <4> QED  BY <1>5, <2>2, <4>1
    <3> QED  BY <3>1, <3>3, <3>4
  <2> QED  BY <2>1, <2>3
<1>10. ASSUME NEW k \in 1 .. Cardinality(K), NEW l \in 1 .. Cardinality(K), k < l
       PROVE  s[k] < s[l]
  <2>1. s[k] \in K /\ s[l] \in K /\ Rank(s[k]) = k - 1 /\ Rank(s[l]) = l - 1  BY <1>8
  <2>2. s[k] \in Nat /\ s[l] \in Nat  BY <1>3, <2>1
  <2>3. ~(s[l] < s[k])
    <3>1. ~(l - 1 < k - 1)  BY <1>10
    <3> QED  BY <1>5, <2>1, <3>1
  <2>4. s[l] # s[k]  BY <1>10, <2>1
  <2> QED  BY <2>2, <2>3, <2>4
<1> QED  BY <1>1, <1>7, <1>8, <1>9, <1>10 DEF s

\* A run ends before a word that is not like a name, or begins a sentence.
LEMMA RunEnds ==
  ASSUME NEW t, IsList(t), NEW i \in DOMAIN t
  PROVE  /\ RunEnd(t, i) \in i .. Len(t)
         /\ \A j \in i + 1 .. RunEnd(t, i) : NameLike(t[j]) /\ ~StartsSentence(t, j)
         /\ RunEnd(t, i) < Len(t) =>
               ~NameLike(t[RunEnd(t, i) + 1]) \/ StartsSentence(t, RunEnd(t, i) + 1)
<1> DEFINE E == {e \in i .. Len(t) :
                   \A j \in i + 1 .. e : NameLike(t[j]) /\ ~StartsSentence(t, j)}
           Ends(e) == /\ \A j \in i + 1 .. e : NameLike(t[j]) /\ ~StartsSentence(t, j)
                      /\ e < Len(t) => ~NameLike(t[e + 1]) \/ StartsSentence(t, e + 1)
<1>1. Len(t) \in Nat /\ DOMAIN t = 1 .. Len(t) /\ i \in 1 .. Len(t)  BY DEF IsList
<1>2. E \subseteq Nat /\ i \in E /\ \A e \in E : e <= Len(t)  BY <1>1
<1>3. PICK e \in E : \A d \in E : d <= e
  <2> HIDE DEF E
  <2> QED  BY <1>1, <1>2, GreatestOne
<1>4. e \in i .. Len(t) /\ e \in Nat  BY <1>1
<1>5. ASSUME e < Len(t), NameLike(t[e + 1]), ~StartsSentence(t, e + 1) PROVE FALSE
  <2>1. e + 1 \in i .. Len(t)  BY <1>1, <1>4, <1>5
  <2>2. \A j \in i + 1 .. e + 1 : j \in i + 1 .. e \/ j = e + 1  BY <1>1, <1>4
  <2>3. e + 1 \in E  BY <1>5, <2>1, <2>2
  <2> QED  BY <1>3, <1>4, <2>3
<1>6. Ends(e)  BY <1>5
<1>7. RunEnd(t, i) = CHOOSE d \in i .. Len(t) : Ends(d)  BY DEF RunEnd
<1> HIDE DEF Ends
<1>8. RunEnd(t, i) \in i .. Len(t) /\ Ends(RunEnd(t, i))  BY <1>4, <1>6, <1>7
<1> QED  BY <1>8 DEF Ends

------------------------------------------------------------------------------
(* What the redaction leaves.                                                *)

\* A word like a name is in a run that begins at it or before it.
LEMMA InARun ==
  ASSUME NEW t, IsList(t), NEW a \in DOMAIN t, NameLike(t[a])
  PROVE  \E b \in 1 .. a : /\ b \in DOMAIN t /\ BeginsRun(t, b) /\ a <= RunEnd(t, b)
<1> DEFINE B == {b \in 1 .. a : /\ \A j \in b .. a : NameLike(t[j])
                                /\ \A j \in b + 1 .. a : ~StartsSentence(t, j)}
<1>1. Len(t) \in Nat /\ DOMAIN t = 1 .. Len(t) /\ a \in 1 .. Len(t)  BY DEF IsList
<1>2. a \in B
  <2>1. \A j \in a .. a : j = a  BY <1>1
  <2>2. \A j \in a + 1 .. a : FALSE  BY <1>1
  <2>3. a \in 1 .. a  BY <1>1
  <2> QED  BY <2>1, <2>2, <2>3
<1>3. B \subseteq Nat  OBVIOUS
<1> HIDE DEF B
<1>4. PICK b \in B : \A c \in B : b <= c  BY <1>2, <1>3, LeastOne
<1>5. /\ b \in 1 .. a /\ b \in DOMAIN t
      /\ \A j \in b .. a : NameLike(t[j])
      /\ \A j \in b + 1 .. a : ~StartsSentence(t, j)
  BY <1>1, <1>4 DEF B
<1>6. NameLike(t[b])  BY <1>1, <1>5
<1>7. ASSUME ~StartsSentence(t, b), NameLike(t[b - 1]) PROVE FALSE
  <2>1. b # 1  BY <1>7 DEF StartsSentence
  <2>2. b - 1 \in 1 .. a  BY <1>1, <1>5, <2>1
  <2>3. \A j \in b - 1 .. a : j \in b .. a \/ j = b - 1  BY <1>1, <1>5
  <2>4. \A j \in (b - 1) + 1 .. a : j \in b + 1 .. a \/ j = b  BY <1>1, <1>5
  <2>5. b - 1 \in B  BY <1>5, <1>7, <2>2, <2>3, <2>4 DEF B
  <2> QED  BY <1>4, <1>5, <2>5
<1>8. BeginsRun(t, b)  BY <1>6, <1>7 DEF BeginsRun
<1>9. ASSUME RunEnd(t, b) < a PROVE FALSE
  <2> DEFINE e == RunEnd(t, b)
  <2>1. /\ e \in b .. Len(t)
        /\ e < Len(t) => ~NameLike(t[e + 1]) \/ StartsSentence(t, e + 1)
    BY <1>5, RunEnds
  <2> HIDE DEF e
  <2>2. e + 1 \in b .. a /\ e + 1 \in b + 1 .. a /\ e < Len(t)  BY <1>1, <1>5, <1>9, <2>1 DEF e
  <2> QED  BY <1>5, <2>1, <2>2
<1>10. RunEnd(t, b) \in b .. Len(t)  BY <1>5, RunEnds
<1>11. a <= RunEnd(t, b)  BY <1>1, <1>5, <1>9, <1>10
<1> QED  BY <1>5, <1>8, <1>11

\* What the redaction of a text removes, and what is left of a name.
Gone(t) == UNION {s[1] + 1 .. s[2] : s \in Spans(t)}
Replaced(t, a) == \E s \in Spans(t) : s[1] = a

\* The runs that are redacted, by where they begin and end, and what they remove.
LEMMA SpansAre ==
  ASSUME NEW t, IsList(t)
  PROVE  /\ \A g : g \in Gone(t) <=>
               \E b \in DOMAIN t : /\ BeginsRun(t, b) /\ ToRedact(t, b)
                                   /\ g \in b + 1 .. RunEnd(t, b)
         /\ \A a : Replaced(t, a) <=>
               a \in DOMAIN t /\ BeginsRun(t, a) /\ ToRedact(t, a)
         /\ \A a : Replaced(t, a) => (CHOOSE s \in Spans(t) : s[1] = a) = <<a, RunEnd(t, a)>>
<1>1. \A s : s \in Spans(t) <=>
        \E b \in DOMAIN t : BeginsRun(t, b) /\ ToRedact(t, b) /\ s = <<b, RunEnd(t, b)>>
  BY DEF Spans
<1>2. ASSUME NEW g
      PROVE  g \in Gone(t) <=>
               \E b \in DOMAIN t : /\ BeginsRun(t, b) /\ ToRedact(t, b)
                                   /\ g \in b + 1 .. RunEnd(t, b)
  <2>1. g \in Gone(t) <=> \E s \in Spans(t) : g \in s[1] + 1 .. s[2]  BY DEF Gone
  <2>2. ASSUME NEW s \in Spans(t), g \in s[1] + 1 .. s[2]
        PROVE  \E b \in DOMAIN t : /\ BeginsRun(t, b) /\ ToRedact(t, b)
                                   /\ g \in b + 1 .. RunEnd(t, b)
    <3>1. PICK b \in DOMAIN t : BeginsRun(t, b) /\ ToRedact(t, b) /\ s = <<b, RunEnd(t, b)>>
      BY <1>1
    <3>2. s[1] = b /\ s[2] = RunEnd(t, b)  BY <3>1
    <3> QED  BY <2>2, <3>1, <3>2
  <2>3. ASSUME NEW b \in DOMAIN t, BeginsRun(t, b), ToRedact(t, b),
               g \in b + 1 .. RunEnd(t, b)
        PROVE  \E s \in Spans(t) : g \in s[1] + 1 .. s[2]
    <3> DEFINE s == <<b, RunEnd(t, b)>>
    <3>1. s \in Spans(t)  BY <1>1, <2>3
    <3>2. s[1] = b /\ s[2] = RunEnd(t, b)  OBVIOUS
    <3> HIDE DEF s
    <3> QED  BY <2>3, <3>1, <3>2
  <2> QED  BY <2>1, <2>2, <2>3
<1>3. ASSUME NEW s \in Spans(t)
      PROVE  s[1] \in DOMAIN t /\ BeginsRun(t, s[1]) /\ ToRedact(t, s[1])
             /\ s = <<s[1], RunEnd(t, s[1])>>
  <2>1. PICK b \in DOMAIN t : BeginsRun(t, b) /\ ToRedact(t, b) /\ s = <<b, RunEnd(t, b)>>
    BY <1>1
  <2>2. s[1] = b  BY <2>1
  <2> QED  BY <2>1, <2>2
<1>4. ASSUME NEW a
      PROVE  Replaced(t, a) <=> a \in DOMAIN t /\ BeginsRun(t, a) /\ ToRedact(t, a)
  <2>1. ASSUME a \in DOMAIN t, BeginsRun(t, a), ToRedact(t, a) PROVE Replaced(t, a)
    <3>1. <<a, RunEnd(t, a)>> \in Spans(t)  BY <1>1, <2>1
    <3>2. <<a, RunEnd(t, a)>>[1] = a  OBVIOUS
    <3> QED  BY <3>1, <3>2 DEF Replaced
  <2> QED  BY <1>3, <2>1 DEF Replaced
<1>5. ASSUME NEW a, Replaced(t, a)
      PROVE  (CHOOSE s \in Spans(t) : s[1] = a) = <<a, RunEnd(t, a)>>
  <2> DEFINE s == CHOOSE s \in Spans(t) : s[1] = a
  <2>1. s \in Spans(t) /\ s[1] = a  BY <1>5 DEF Replaced
  <2> HIDE DEF s
  <2>2. s = <<a, RunEnd(t, a)>>  BY <1>3, <2>1
  <2> QED  BY <2>2 DEF s
<1> QED  BY <1>2, <1>4, <1>5

\* What is left: a word that is not replaced and is like a name is a run by itself, and begins a
\* sentence.  What begins a run that is replaced is left.
LEMMA WhatIsLeft ==
  ASSUME NEW t, IsList(t)
  PROVE  /\ \A a \in DOMAIN t \ Gone(t) : NameLike(t[a]) /\ ~Replaced(t, a) =>
               RunEnd(t, a) = a /\ StartsSentence(t, a)
         /\ \A a : Replaced(t, a) => a \notin Gone(t)
         /\ \A a \in DOMAIN t \ Gone(t) : Replaced(t, a - 1) => RunEnd(t, a - 1) = a - 1
         /\ \A a \in DOMAIN t \ Gone(t) : \A b : Replaced(t, b) /\ b < a => RunEnd(t, b) < a
<1>1. Len(t) \in Nat /\ DOMAIN t = 1 .. Len(t)  BY DEF IsList
<1>2. ASSUME NEW a \in DOMAIN t \ Gone(t), NEW b, Replaced(t, b), b < a
      PROVE  RunEnd(t, b) < a
  <2>1. b \in DOMAIN t /\ BeginsRun(t, b) /\ ToRedact(t, b)  BY <1>2, SpansAre
  <2>2. RunEnd(t, b) \in b .. Len(t)  BY <2>1, RunEnds
  <2>3. a \notin b + 1 .. RunEnd(t, b)  BY <2>1, SpansAre
  <2> QED  BY <1>1, <1>2, <2>1, <2>2, <2>3
<1>3. ASSUME NEW a \in DOMAIN t \ Gone(t), NameLike(t[a]), ~Replaced(t, a)
      PROVE  RunEnd(t, a) = a /\ StartsSentence(t, a)
  <2>1. PICK b \in 1 .. a : b \in DOMAIN t /\ BeginsRun(t, b) /\ a <= RunEnd(t, b)
    BY <1>3, InARun
  <2>2. RunEnd(t, b) \in b .. Len(t)  BY <2>1, RunEnds
  <2>3. ~ToRedact(t, b)
    <3>1. ASSUME ToRedact(t, b) PROVE FALSE
      <4>1. Replaced(t, b)  BY <2>1, <3>1, SpansAre
      <4>2. b # a  BY <1>3, <4>1
      <4>3. RunEnd(t, b) < a  BY <1>1, <1>2, <2>1, <4>1, <4>2
      <4> QED  BY <1>1, <2>1, <2>2, <4>3
    <3> QED  BY <3>1
  <2>4. ~(RunEnd(t, b) > b) /\ StartsSentence(t, b)  BY <2>3 DEF ToRedact
  <2>5. b = a /\ RunEnd(t, b) = a  BY <1>1, <2>1, <2>2, <2>4
  <2> QED  BY <2>4, <2>5
<1>4. ASSUME NEW a, Replaced(t, a), a \in Gone(t) PROVE FALSE
  <2>1. a \in DOMAIN t /\ BeginsRun(t, a)  BY <1>4, SpansAre
  <2>2. PICK b \in DOMAIN t : /\ BeginsRun(t, b) /\ ToRedact(t, b)
                              /\ a \in b + 1 .. RunEnd(t, b)
    BY <1>4, SpansAre
  <2>3. /\ RunEnd(t, b) \in b .. Len(t)
        /\ \A j \in b + 1 .. RunEnd(t, b) : NameLike(t[j]) /\ ~StartsSentence(t, j)
    BY <2>2, RunEnds
  <2>4. ~NameLike(t[a - 1])  BY <2>1, <2>2, <2>3 DEF BeginsRun
  <2>5. a - 1 = b \/ a - 1 \in b + 1 .. RunEnd(t, b)  BY <1>1, <2>1, <2>2, <2>3
  <2>6. NameLike(t[b])  BY <2>2 DEF BeginsRun
  <2> QED  BY <2>3, <2>4, <2>5, <2>6
<1>5. ASSUME NEW a \in DOMAIN t \ Gone(t), Replaced(t, a - 1) PROVE RunEnd(t, a - 1) = a - 1
  <2>1. a - 1 \in DOMAIN t  BY <1>5, SpansAre
  <2>2. RunEnd(t, a - 1) \in a - 1 .. Len(t)  BY <2>1, RunEnds
  <2>3. RunEnd(t, a - 1) < a  BY <1>1, <1>2, <1>5
  <2> QED  BY <1>1, <2>1, <2>2, <2>3
<1> QED  BY <1>2, <1>3, <1>4, <1>5

\* What the redaction makes of a text: the words that are not gone, in order, those that begin a
\* run that is replaced by the token.
LEMMA RedactedIs ==
  ASSUME NEW t, IsList(t)
  PROVE  \E m \in Nat : \E kept :
           /\ DOMAIN RedactNames(t) = 1 .. m /\ Len(RedactNames(t)) = m
           /\ \A k \in 1 .. m : kept[k] \in DOMAIN t \ Gone(t)
           /\ \A a \in DOMAIN t \ Gone(t) : \E k \in 1 .. m : kept[k] = a
           /\ \A k, l \in 1 .. m : k < l => kept[k] < kept[l]
           /\ \A k \in 1 .. m :
                 RedactNames(t)[k] = IF Replaced(t, kept[k])
                                     THEN Redacted(t[RunEnd(t, kept[k])].ends) ELSE t[kept[k]]
<1> DEFINE K == DOMAIN t \ Gone(t)
           m == Cardinality(K)
           kept == InOrder(K, <)
           left(a) == IF \E s \in Spans(t) : s[1] = a
                      THEN Redacted(t[(CHOOSE s \in Spans(t) : s[1] = a)[2]].ends) ELSE t[a]
<1>1. Len(t) \in Nat /\ K \subseteq 1 .. Len(t)  BY DEF IsList
<1> HIDE DEF K
<1>2. /\ m \in Nat /\ DOMAIN kept = 1 .. m
      /\ \A k \in 1 .. m : kept[k] \in K
      /\ \A a \in K : \E k \in 1 .. m : kept[k] = a
      /\ \A k, l \in 1 .. m : k < l => kept[k] < kept[l]
  BY <1>1, KeptInOrder
<1>3. RedactNames(t) = [k \in 1 .. m |-> left(kept[k])]
  <2>1. RedactNames(t) = [k \in DOMAIN kept |-> left(kept[k])]
    BY DEF RedactNames, Kept, Gone, K
  <2> QED  BY <1>2, <2>1
<1>4. \A a : left(a) = IF Replaced(t, a) THEN Redacted(t[RunEnd(t, a)].ends) ELSE t[a]
  <2> SUFFICES ASSUME NEW a
               PROVE  left(a) = IF Replaced(t, a) THEN Redacted(t[RunEnd(t, a)].ends) ELSE t[a]
    OBVIOUS
  <2>1. CASE Replaced(t, a)
    <3>1. (CHOOSE s \in Spans(t) : s[1] = a) = <<a, RunEnd(t, a)>>  BY <2>1, SpansAre
    <3> DEFINE span == CHOOSE s \in Spans(t) : s[1] = a
    <3> HIDE DEF span
    <3>3. span = <<a, RunEnd(t, a)>>  BY <3>1 DEF span
    <3>2. span[2] = RunEnd(t, a)  BY <3>3
    <3> QED  BY <2>1, <3>2 DEF Replaced, span
  <2>2. CASE ~Replaced(t, a)  BY <2>2 DEF Replaced
  <2> QED  BY <2>1, <2>2
<1> HIDE DEF left, kept, m
<1>5. \A k \in 1 .. m : RedactNames(t)[k] = left(kept[k])  BY <1>3
<1>6. DOMAIN RedactNames(t) = 1 .. m /\ Len(RedactNames(t)) = m  BY <1>2, <1>3
<1> WITNESS m \in Nat
<1> WITNESS kept
<1> QED  BY <1>2, <1>4, <1>5, <1>6 DEF K

\* The word before one that is left and begins a sentence ends one.
LEMMA RedactionLeaves ==
  ASSUME NEW t, IsList(t), NEW i \in DOMAIN RedactNames(t), NameLike(RedactNames(t)[i])
  PROVE  /\ StartsSentence(RedactNames(t), i)
         /\ i < Len(RedactNames(t)) =>
               ~NameLike(RedactNames(t)[i + 1]) \/ RedactNames(t)[i].ends
<1> DEFINE R == RedactNames(t)
<1>0. PICK m \in Nat : \E kept :
           /\ DOMAIN R = 1 .. m /\ Len(R) = m
           /\ \A k \in 1 .. m : kept[k] \in DOMAIN t \ Gone(t)
           /\ \A a \in DOMAIN t \ Gone(t) : \E k \in 1 .. m : kept[k] = a
           /\ \A k, l \in 1 .. m : k < l => kept[k] < kept[l]
           /\ \A k \in 1 .. m :
                 R[k] = IF Replaced(t, kept[k]) THEN Redacted(t[RunEnd(t, kept[k])].ends)
                                                ELSE t[kept[k]]
  BY RedactedIs
<1>1. PICK kept :
           /\ DOMAIN R = 1 .. m /\ Len(R) = m
           /\ \A k \in 1 .. m : kept[k] \in DOMAIN t \ Gone(t)
           /\ \A a \in DOMAIN t \ Gone(t) : \E k \in 1 .. m : kept[k] = a
           /\ \A k, l \in 1 .. m : k < l => kept[k] < kept[l]
           /\ \A k \in 1 .. m :
                 R[k] = IF Replaced(t, kept[k]) THEN Redacted(t[RunEnd(t, kept[k])].ends)
                                                ELSE t[kept[k]]
  BY <1>0
<1> HIDE DEF R
<1>2. i \in 1 .. m /\ NameLike(R[i])  BY <1>1 DEF R
<1>3. Len(t) \in Nat /\ DOMAIN t = 1 .. Len(t)  BY DEF IsList
<1>4. \A e : ~NameLike(Redacted(e)) /\ Redacted(e).ends = e  BY DEF NameLike, IsWord, Redacted
<1> DEFINE a == kept[i]
<1>5. a \in DOMAIN t \ Gone(t) /\ ~Replaced(t, a) /\ R[i] = t[a]  BY <1>1, <1>2, <1>4
<1>6. a \in 1 .. Len(t)  BY <1>3, <1>5
<1>7. RunEnd(t, a) = a /\ StartsSentence(t, a)  BY <1>2, <1>5, WhatIsLeft
<1>8. \A k \in 1 .. m : kept[k] \in 1 .. Len(t)  BY <1>1, <1>3
<1>9. StartsSentence(R, i)
  <2>1. CASE i = 1  BY <2>1 DEF StartsSentence
  <2>2. CASE i # 1
    <3> DEFINE p == kept[i - 1]
    <3>1. i - 1 \in 1 .. m /\ i - 1 < i  BY <1>2, <2>2
    <3>2. p \in DOMAIN t \ Gone(t) /\ p < a /\ p \in 1 .. Len(t)  BY <1>1, <1>2, <1>8, <3>1
    <3>3. a # 1 /\ t[a - 1].ends  BY <1>3, <1>6, <1>7, <3>2 DEF StartsSentence
    <3>4. ASSUME NEW c \in DOMAIN t, p < c, c < a PROVE c \in Gone(t)
      <4> SUFFICES ASSUME c \notin Gone(t) PROVE FALSE
        OBVIOUS
      <4>1. PICK k \in 1 .. m : kept[k] = c  BY <1>1
      <4>2. c \in 1 .. Len(t)  BY <1>3
      <4>3. ~(k < i - 1)
        <5>1. ~(c < p)  BY <1>3, <3>2, <3>4, <4>2
        <5> QED  BY <1>1, <3>1, <4>1, <5>1
      <4>4. ~(i < k)
        <5>1. ~(a < c)  BY <1>6, <3>4, <4>2
        <5> QED  BY <1>1, <1>2, <4>1, <5>1
      <4>5. k # i - 1 /\ k # i  BY <1>6, <3>2, <3>4, <4>1, <4>2
      <4> QED  BY <1>2, <4>3, <4>4, <4>5
    <3>5. CASE p = a - 1
      <4>1. Replaced(t, p) => RunEnd(t, p) = p  BY <1>5, <3>5, WhatIsLeft
      <4>2. R[i - 1].ends = t[p].ends  BY <1>1, <1>4, <3>1, <4>1
      <4> QED  BY <3>3, <3>5, <4>2 DEF StartsSentence
    <3>6. CASE p # a - 1
      <4>1. a - 1 \in DOMAIN t /\ p < a - 1 /\ a - 1 < a  BY <1>3, <1>6, <3>2, <3>6
      <4>2. a - 1 \in Gone(t)  BY <3>4, <4>1
      <4>3. PICK b \in DOMAIN t : /\ BeginsRun(t, b) /\ ToRedact(t, b)
                                  /\ a - 1 \in b + 1 .. RunEnd(t, b)
        BY <4>2, SpansAre
      <4>4. Replaced(t, b)  BY <4>3, SpansAre
      <4>5. b \notin Gone(t) /\ b \in 1 .. Len(t)  BY <1>3, <4>4, WhatIsLeft
      <4>6. RunEnd(t, b) \in b .. Len(t)  BY RunEnds
      <4>7. b < a /\ a - 1 <= RunEnd(t, b)  BY <1>6, <4>3, <4>5, <4>6
      <4>8. RunEnd(t, b) < a  BY <1>5, <4>4, <4>7, WhatIsLeft
      <4>9. RunEnd(t, b) = a - 1  BY <1>6, <4>6, <4>7, <4>8
      <4>10. ~(p < b)  BY <3>4, <4>5, <4>7
      <4>11. ~(b < p)
        <5>1. ASSUME b < p PROVE FALSE
          <6>1. p \in b + 1 .. RunEnd(t, b)  BY <3>2, <4>1, <4>5, <4>9, <5>1
          <6>2. p \in Gone(t)  BY <4>3, <6>1, SpansAre
          <6> QED  BY <3>2, <6>2
        <5> QED  BY <5>1
      <4>12. p = b  BY <3>2, <4>5, <4>10, <4>11
      <4>13. R[i - 1].ends = t[RunEnd(t, p)].ends  BY <1>1, <1>4, <3>1, <4>4, <4>12
      <4> QED  BY <3>3, <4>9, <4>12, <4>13 DEF StartsSentence
    <3> QED  BY <3>5, <3>6
  <2> QED  BY <2>1, <2>2
<1>10. ASSUME i < m, NameLike(R[i + 1]) PROVE R[i].ends
  <2> DEFINE b == kept[i + 1]
  <2>1. i + 1 \in 1 .. m /\ i < i + 1  BY <1>2, <1>10
  <2>2. b \in DOMAIN t \ Gone(t) /\ a < b /\ b \in 1 .. Len(t)  BY <1>1, <1>2, <1>8, <2>1
  <2>3. ~Replaced(t, b) /\ R[i + 1] = t[b]  BY <1>1, <1>4, <1>10, <2>1
  <2>4. a + 1 \in DOMAIN t /\ a < Len(t)  BY <1>3, <1>6, <2>2
  <2>5. a + 1 \notin Gone(t)
    <3> SUFFICES ASSUME a + 1 \in Gone(t) PROVE FALSE
      OBVIOUS
    <3>1. PICK c \in DOMAIN t : /\ BeginsRun(t, c) /\ ToRedact(t, c)
                                /\ a + 1 \in c + 1 .. RunEnd(t, c)
      BY SpansAre
    <3>2. Replaced(t, c)  BY <3>1, SpansAre
    <3>3. c # a /\ c \in 1 .. Len(t)  BY <1>3, <1>5, <3>2
    <3>4. RunEnd(t, c) \in c .. Len(t)  BY RunEnds
    <3>5. c < a /\ a < RunEnd(t, c)  BY <1>6, <3>1, <3>3, <3>4
    <3>6. RunEnd(t, c) < a  BY <1>5, <3>2, <3>5, WhatIsLeft
    <3> QED  BY <1>6, <3>4, <3>5, <3>6
  <2>6. PICK k \in 1 .. m : kept[k] = a + 1  BY <1>1, <2>4, <2>5
  <2>7. ~(k < i)
    <3>1. ~(a + 1 < a)  BY <1>6
    <3> QED  BY <1>1, <1>2, <2>6, <3>1
  <2>8. ~(i + 1 < k)
    <3>1. ~(b < a + 1)  BY <1>6, <2>2
    <3> QED  BY <1>1, <2>1, <2>6, <3>1
  <2>9. k # i  BY <1>6, <2>6
  <2>10. k = i + 1  BY <1>2, <2>7, <2>8, <2>9
  <2>11. b = a + 1  BY <2>6, <2>10
  <2>12. ~NameLike(t[a + 1]) \/ StartsSentence(t, a + 1)
    <3>1. RunEnd(t, a) < Len(t) =>
             ~NameLike(t[RunEnd(t, a) + 1]) \/ StartsSentence(t, RunEnd(t, a) + 1)
      BY <1>5, RunEnds
    <3> QED  BY <1>7, <2>4, <3>1
  <2>13. StartsSentence(t, a + 1)  BY <1>10, <2>3, <2>11, <2>12
  <2>14. t[a].ends  BY <1>6, <2>13 DEF StartsSentence
  <2> QED  BY <1>5, <2>14
<1> QED  BY <1>1, <1>9, <1>10 DEF R

------------------------------------------------------------------------------
(* Folds over a sequence.                                                    *)

\* The two folds of Masking, F: the claims of resolve_entities and the pseudonyms of mask_text.
\* A fold over the indices of a sequence takes the greatest one last.
Taken(F, i, acc) ==
    IF F.of = "claims" THEN Claim(F.words, acc, ByLength[i])
    ELSE Pseudonymise(acc, Resolve(F.words)[i], F.words)
IsFold(h, F, base, S) ==
    h = [s \in SUBSET S |-> IF s = {} THEN base ELSE Taken(F, Max(s), h[s \ {Max(s)}])]

\* Indices of a sequence.
Bounded(S) == \E n \in Nat : S \subseteq 1 .. n

\* The greatest element of a bounded set is one of its elements.
LEMMA MaxIsIn ==
  ASSUME NEW s, Bounded(s), s # {}
  PROVE  Max(s) \in s
<1>0. PICK n \in Nat : s \subseteq 1 .. n  BY DEF Bounded
<1>1. s \subseteq Nat /\ \A x \in s : x <= n  BY <1>0
<1>2. PICK m \in s : \A y \in s : y <= m  BY <1>1, GreatestOne
<1>3. \A y \in s : m >= y  BY <1>1, <1>2
<1> QED  BY <1>3 DEF Max

\* A bounded set is finite, and so are its subsets bounded.
LEMMA BoundedSubset ==
  ASSUME NEW S, Bounded(S)
  PROVE  IsFiniteSet(S) /\ \A s \in SUBSET S : Bounded(s)
<1>1. PICK n \in Nat : S \subseteq 1 .. n  BY DEF Bounded
<1>2. IsFiniteSet(1 .. n)  BY FS_Interval
<1>3. IsFiniteSet(S)  BY <1>1, <1>2, FS_Subset
<1> QED  BY <1>1, <1>3 DEF Bounded

\* What a fold has taken of each set of indices.
LEMMA FoldUnfolds ==
  ASSUME NEW h, NEW F, NEW base, NEW S, IsFold(h, F, base, S)
  PROVE  \A s \in SUBSET S : /\ s = {} => h[s] = base
                             /\ s # {} => h[s] = Taken(F, Max(s), h[s \ {Max(s)}])
BY DEF IsFold

\* A fold over more indices takes the same of fewer.
LEMMA FoldsAgree ==
  ASSUME NEW h, NEW F, NEW base, NEW S, IsFold(h, F, base, S), NEW U \in SUBSET S,
         Bounded(U), NEW k, IsFold(k, F, base, U)
  PROVE  h[U] = k[U]
<1> DEFINE G == {u \in SUBSET U : h[u] = k[u]}
<1>1. \A u \in SUBSET U : /\ u = {} => h[u] = base
                          /\ u # {} => h[u] = Taken(F, Max(u), h[u \ {Max(u)}])
  <2> SUFFICES ASSUME NEW u \in SUBSET U
               PROVE  /\ u = {} => h[u] = base
                      /\ u # {} => h[u] = Taken(F, Max(u), h[u \ {Max(u)}])
    OBVIOUS
  <2>1. u \in SUBSET S  OBVIOUS
  <2> HIDE DEF G
  <2> QED  BY <2>1 DEF IsFold
<1>2. \A u \in SUBSET U : /\ u = {} => k[u] = base
                          /\ u # {} => k[u] = Taken(F, Max(u), k[u \ {Max(u)}])
  BY FoldUnfolds
<1>3. ASSUME NEW u \in SUBSET U, \A x \in u : u \ {x} \in G PROVE h[u] = k[u]
  <2>1. CASE u = {}
    <3>1. h[u] = base /\ k[u] = base  BY <1>1, <1>2, <2>1
    <3> QED  BY <3>1
  <2>2. CASE u # {}
    <3>1. Bounded(u)  BY BoundedSubset
    <3>2. Max(u) \in u
      <4> HIDE DEF G
      <4> QED  BY <2>2, <3>1, MaxIsIn
    <3>3. h[u \ {Max(u)}] = k[u \ {Max(u)}]  BY <1>3, <3>2
    <3>4. h[u] = Taken(F, Max(u), h[u \ {Max(u)}])  BY <1>1, <2>2
    <3>5. k[u] = Taken(F, Max(u), k[u \ {Max(u)}])  BY <1>2, <2>2
    <3> QED  BY <3>3, <3>4, <3>5
  <2> QED  BY <2>1, <2>2
<1>4. \A u \in SUBSET U : (\A x \in u : u \ {x} \in G) => u \in G  BY <1>3
<1> HIDE DEF G
<1>5. IsFiniteSet(U)  BY BoundedSubset
<1>6. \A u \in SUBSET U : u \in G  BY <1>4, <1>5, SubsetInduction
<1>7. U \in G  BY <1>6
<1> QED  BY <1>7 DEF G

\* There is a fold over every bounded set of indices.
LEMMA FoldExists ==
  ASSUME NEW F, NEW base, NEW S, Bounded(S)
  PROVE  \E h : IsFold(h, F, base, S)
<1> DEFINE G == {s \in SUBSET S : \A u \in SUBSET s : \E h : IsFold(h, F, base, u)}
<1>1. ASSUME NEW s \in SUBSET S, \A x \in s : s \ {x} \in G PROVE s \in G
  <2>1. ASSUME NEW u \in SUBSET s, u # s PROVE \E h : IsFold(h, F, base, u)
    <3>1. PICK x \in s : x \notin u  BY <2>1
    <3>2. u \in SUBSET (s \ {x})  BY <3>1
    <3> QED  BY <1>1, <3>2
  <2> DEFINE V(t) == (CHOOSE h : IsFold(h, F, base, t))[t]
             h == [t \in SUBSET s |-> IF t = {} THEN base
                                      ELSE Taken(F, Max(t), V(t \ {Max(t)}))]
  <2>2. ASSUME NEW t \in SUBSET s, t # {}
        PROVE  /\ Max(t) \in t
               /\ t \ {Max(t)} \in SUBSET s
               /\ t \ {Max(t)} # s
    <3> HIDE DEF G
    <3>1. Bounded(t)
      <4>1. t \in SUBSET S  OBVIOUS
      <4> QED  BY <4>1, BoundedSubset
    <3>2. Max(t) \in t  BY <2>2, <3>1, MaxIsIn
    <3> QED  BY <3>2
  <2>3. ASSUME NEW u \in SUBSET s, u # s PROVE h[u] = V(u)
    <3> HIDE DEF G
    <3> DEFINE k == CHOOSE k : IsFold(k, F, base, u)
    <3>1. IsFold(k, F, base, u)  BY <2>1, <2>3
    <3> HIDE DEF k
    <3>2. V(u) = k[u]  BY DEF k
    <3>3. \A v \in SUBSET u : /\ v = {} => k[v] = base
                              /\ v # {} => k[v] = Taken(F, Max(v), k[v \ {Max(v)}])
      <4> HIDE DEF h, V
      <4> QED  BY <3>1, FoldUnfolds, SMTT(30)
    <3>4. u \in SUBSET u  OBVIOUS
    <3>5. CASE u = {}
      <4>1. h[u] = base  BY <3>5
      <4>2. k[u] = base  BY <3>3, <3>4, <3>5
      <4> QED  BY <3>2, <4>1, <4>2
    <3>6. CASE u # {}
      <4> DEFINE w == u \ {Max(u)}
                 l == CHOOSE l : IsFold(l, F, base, w)
      <4>1. w \in SUBSET u /\ w \in SUBSET s /\ w # s  BY <2>2, <2>3, <3>6
      <4>2. IsFold(l, F, base, w)  BY <2>1, <4>1
      <4>3. Bounded(w)
        <5>1. w \in SUBSET S  BY <4>1
        <5> HIDE DEF w
        <5> QED  BY <5>1, BoundedSubset
      <4> HIDE DEF l
      <4>4. V(w) = l[w]  BY DEF l
      <4>5. h[u] = Taken(F, Max(u), V(w))  BY <2>3, <3>6
      <4> HIDE DEF V, h
      <4>6. k[w] = l[w]
        <5> HIDE DEF w
        <5> QED  BY <3>1, <4>1, <4>2, <4>3, FoldsAgree
      <4>7. k[u] = Taken(F, Max(u), k[w])  BY <3>3, <3>4, <3>6
      <4> HIDE DEF w
      <4> QED  BY <3>2, <4>4, <4>5, <4>6, <4>7
    <3> QED  BY <3>5, <3>6
  <2> HIDE DEF V
  <2>4. IsFold(h, F, base, s)
    <3>1. \A t \in SUBSET s : t # {} => h[t \ {Max(t)}] = V(t \ {Max(t)})
      <4> HIDE DEF h
      <4> QED  BY <2>2, <2>3
    <3> QED  BY <3>1 DEF IsFold
  <2> QED  BY <2>1, <2>4
<1>2. \A s \in SUBSET S : (\A x \in s : s \ {x} \in G) => s \in G  BY <1>1
<1> HIDE DEF G
<1>3. IsFiniteSet(S)  BY BoundedSubset
<1>4. \A s \in SUBSET S : s \in G  BY <1>2, <1>3, SubsetInduction
<1>5. S \in G  BY <1>4
<1> QED  BY <1>5 DEF G

\* Induction over what a fold has taken.
LEMMA FoldInduction ==
  ASSUME NEW S, Bounded(S), NEW G,
         \A s \in SUBSET S : /\ s = {} => s \in G
                             /\ s # {} /\ Max(s) \in s /\ s \ {Max(s)} \in G => s \in G
  PROVE  \A s \in SUBSET S : s \in G
<1>1. IsFiniteSet(S) /\ \A s \in SUBSET S : Bounded(s)  BY BoundedSubset
<1>2. ASSUME NEW s \in SUBSET S, \A x \in s : s \ {x} \in G PROVE s \in G
  <2>1. s # {} => Max(s) \in s  BY <1>1, MaxIsIn
  <2> QED  BY <1>2, <2>1
<1>3. \A s \in SUBSET S : (\A x \in s : s \ {x} \in G) => s \in G  BY <1>2
<1> QED  BY <1>1, <1>3, SubsetInduction

------------------------------------------------------------------------------
(* What resolution finds and the pseudonyms leave.                           *)

\* ByLength runs through customers.
LEMMA ByLengthIsOfIds ==
  DOMAIN ByLength = 1 .. Cardinality(Ids) /\ \A k \in DOMAIN ByLength : ByLength[k] \in Ids
<1> DEFINE Before(c, d) == \/ Len(Customers[c]) > Len(Customers[d])
                           \/ Len(Customers[c]) = Len(Customers[d]) /\ c < d
           R == {p \in Ids \X Ids : Before(p[1], p[2])}
           Rank(d) == Cardinality({c \in Ids : Before(c, d)})
<1>1. /\ Ids = 1 .. Len(Customers) /\ Len(Customers) \in Nat
      /\ \A c \in Ids : c \in Nat /\ Len(Customers[c]) \in Nat
  <2>1. Customers \in Seq(Seq(STRING) \ {<<>>})  BY MaskingAssumption
  <2>2. Ids = 1 .. Len(Customers) /\ Len(Customers) \in Nat  BY <2>1 DEF Ids
  <2>3. \A c \in Ids : Customers[c] \in Seq(STRING)  BY <2>1, <2>2
  <2> QED  BY <2>2, <2>3
<1>2. IsFiniteSet(Ids) /\ Cardinality(Ids) \in Nat
  <2>1. IsFiniteSet(1 .. Len(Customers))  BY <1>1, FS_Interval
  <2> QED  BY <1>1, <2>1, FS_CardinalityType
<1>3. \A x, y \in Ids : <<x, y>> \in R <=> Before(x, y)  OBVIOUS
<1>4. \A d \in Ids : Rank(d) = RankIn(Ids, R, d)
  <2> SUFFICES ASSUME NEW d \in Ids PROVE Rank(d) = RankIn(Ids, R, d)
    OBVIOUS
  <2> HIDE DEF R, Before
  <2>1. {c \in Ids : Before(c, d)} = {c \in Ids : <<c, d>> \in R}  BY <1>3
  <2> QED  BY <2>1 DEF RankIn
<1>5. /\ \A x \in Ids : ~Before(x, x)
      /\ \A x, y, z \in Ids : Before(x, y) /\ Before(y, z) => Before(x, z)
      /\ \A x, y \in Ids : x # y => Before(x, y) \/ Before(y, x)
  BY <1>1
<1>6. /\ DOMAIN ByLength = 1 .. Cardinality(Ids)
      /\ \A k \in 1 .. Cardinality(Ids) : ByLength[k] = CHOOSE x \in Ids : Rank(x) = k - 1
  BY DEF ByLength, InOrder
<1> HIDE DEF R, Before, Rank
<1>7. \A n \in 0 .. Cardinality(Ids) - 1 : \E x \in Ids : RankIn(Ids, R, x) = n
  <2>1. StrictOrder(Ids, R)  BY <1>3, <1>5 DEF StrictOrder
  <2> QED  BY <1>2, <2>1, EveryRank
<1>8. ASSUME NEW k \in 1 .. Cardinality(Ids) PROVE ByLength[k] \in Ids
  <2>1. k - 1 \in 0 .. Cardinality(Ids) - 1  BY <1>2
  <2>2. \E x \in Ids : Rank(x) = k - 1  BY <1>4, <1>7, <2>1
  <2> QED  BY <1>6, <2>2
<1> QED  BY <1>6, <1>8

\* What Resolve may find in a text.
Matches(words) ==
    LET first(c) == CHOOSE i \in Starts(Customers[c], words) :
                       \A j \in Starts(Customers[c], words) : i <= j
    IN  {[customer |-> c, at |-> first(c)] : c \in Ids}

\* A claim adds a customer to what was found, or nothing.
LEMMA ClaimFinds ==
  ASSUME NEW words, NEW acc, acc.found \in Seq(Matches(words)), NEW c \in Ids
  PROVE  Claim(words, acc, c).found \in Seq(Matches(words))
<1> DEFINE starts == Starts(Customers[c], words)
           first == CHOOSE i \in starts : \A j \in starts : i <= j
           match == [customer |-> c, at |-> first]
           more == [claimed |-> acc.claimed \cup Span(Customers[c], first),
                    found |-> Append(acc.found, match)]
<1>1. match \in Matches(words)  BY DEF Matches
<1>2. Claim(words, acc, c) = acc \/ Claim(words, acc, c) = more  BY DEF Claim
<1>3. more.found = Append(acc.found, match)  OBVIOUS
<1> HIDE DEF match, more
<1>4. Append(acc.found, match) \in Seq(Matches(words))  BY <1>1
<1> QED  BY <1>2, <1>3, <1>4

\* Resolution finds customers.
LEMMA ResolveFinds ==
  ASSUME NEW words
  PROVE  Resolve(words) \in Seq(Matches(words))
<1> DEFINE S == DOMAIN ByLength
           base == [claimed |-> {}, found |-> <<>>]
           F == [of |-> "claims", words |-> words]
           h == CHOOSE h : h = [s \in SUBSET S |->
                    IF s = {} THEN base
                    ELSE Claim(words, h[s \ {Max(s)}], ByLength[Max(s)])]
           G == {s \in SUBSET S : h[s].found \in Seq(Matches(words))}
<1>1. Resolve(words) = h[S].found
  BY DEF Resolve, FoldLeft, MapThenFoldSet
<1>2. Bounded(S)
  <2>1. Cardinality(Ids) \in Nat
    <3>1. Ids = 1 .. Len(Customers) /\ Len(Customers) \in Nat  BY MaskingAssumption DEF Ids
    <3>2. IsFiniteSet(1 .. Len(Customers))  BY <3>1, FS_Interval
    <3> QED  BY <3>1, <3>2, FS_CardinalityType
  <2> QED  BY <2>1, ByLengthIsOfIds DEF Bounded
<1>3. \E k : k = [s \in SUBSET S |->
                    IF s = {} THEN base
                    ELSE Claim(words, k[s \ {Max(s)}], ByLength[Max(s)])]
  <2>1. PICK k : IsFold(k, F, base, S)
    <3> HIDE DEF S, F, base
    <3> QED  BY <1>2, FoldExists
  <2>2. \A i, acc : Taken(F, i, acc) = Claim(words, acc, ByLength[i])  BY DEF Taken
  <2> HIDE DEF S, F, base
  <2>3. k = [s \in SUBSET S |->
                IF s = {} THEN base ELSE Taken(F, Max(s), k[s \ {Max(s)}])]
    BY <2>1 DEF IsFold
  <2>4. k = [s \in SUBSET S |->
                IF s = {} THEN base ELSE Claim(words, k[s \ {Max(s)}], ByLength[Max(s)])]
    BY <2>2, <2>3
  <2> QED  BY <2>4
<1>4. h = [s \in SUBSET S |->
              IF s = {} THEN base ELSE Claim(words, h[s \ {Max(s)}], ByLength[Max(s)])]
  <2> HIDE DEF S, base
  <2> QED  BY <1>3
<1>5. \A c \in S : ByLength[c] \in Ids  BY ByLengthIsOfIds
<1>6. base.found \in Seq(Matches(words))  OBVIOUS
<1> HIDE DEF S, base, h
<1>7. ASSUME NEW s \in SUBSET S, s = {} PROVE s \in G
  BY <1>4, <1>6, <1>7
<1>8. ASSUME NEW s \in SUBSET S, s # {}, Max(s) \in s, s \ {Max(s)} \in G PROVE s \in G
  <2>1. h[s] = Claim(words, h[s \ {Max(s)}], ByLength[Max(s)])  BY <1>4, <1>8
  <2>2. h[s \ {Max(s)}].found \in Seq(Matches(words))  BY <1>8
  <2>3. ByLength[Max(s)] \in Ids  BY <1>5, <1>8
  <2>4. Claim(words, h[s \ {Max(s)}], ByLength[Max(s)]).found \in Seq(Matches(words))
    BY <2>2, <2>3, ClaimFinds
  <2> QED  BY <2>1, <2>4
<1>9. S \in G
  <2> HIDE DEF G
  <2>1. \A s \in SUBSET S : s \in G  BY <1>2, <1>7, <1>8, FoldInduction
  <2>2. S \in SUBSET S  OBVIOUS
  <2> QED  BY <2>1, <2>2
<1> QED  BY <1>1, <1>9

\* Putting a pseudonym into a text leaves a text.
LEMMA PseudonymiseLeavesAList ==
  ASSUME NEW t, IsList(t), NEW match, NEW words
  PROVE  IsList(Pseudonymise(t, match, words))
<1> DEFINE name == Customers[match.customer]
           spelt == [j \in DOMAIN name |-> words[match.at + j - 1].capital]
           same == {i \in Starts(name, t) : \A j \in DOMAIN name : t[i + j - 1].capital = spelt[j]}
           gone == UNION {Span(name, i) \ {i} : i \in same}
           K == DOMAIN t \ gone
           kept == InOrder(K, <)
           m == Cardinality(K)
           word(k) == IF kept[k] \in same
                      THEN Alias(match.customer, t[kept[k] + Len(name) - 1].ends)
                      ELSE t[kept[k]]
<1>1. Pseudonymise(t, match, words) = [k \in DOMAIN kept |-> word(k)]
  BY DEF Pseudonymise, Kept
<1>2. Len(t) \in Nat /\ K \subseteq 1 .. Len(t)  BY DEF IsList
<1> HIDE DEF K
<1>3. m \in Nat /\ DOMAIN kept = 1 .. m  BY <1>2, KeptInOrder
<1> HIDE DEF kept, m, word
<1>4. Pseudonymise(t, match, words) = [k \in 1 .. m |-> word(k)]  BY <1>1, <1>3
<1> QED  BY <1>3, <1>4 DEF IsList

\* What mask_text has made of a text before the redaction is a text.
LEMMA UnredactedIsAList ==
  ASSUME NEW words, IsList(words)
  PROVE  IsList(Unredacted(words))
<1> DEFINE R == Resolve(words)
           S == DOMAIN R
           F == [of |-> "pseudonyms", words |-> words]
           h == CHOOSE h : h = [s \in SUBSET S |->
                    IF s = {} THEN words
                    ELSE Pseudonymise(h[s \ {Max(s)}], R[Max(s)], words)]
           G == {s \in SUBSET S : IsList(h[s])}
<1>1. Unredacted(words) = h[S]
  BY DEF Unredacted, FoldLeft, MapThenFoldSet
<1>2. Bounded(S)
  <2>1. R \in Seq(Matches(words))  BY ResolveFinds
  <2>2. Len(R) \in Nat /\ DOMAIN R = 1 .. Len(R)
    <3> HIDE DEF R
    <3> QED  BY <2>1
  <2> QED  BY <2>2 DEF Bounded
<1>3. \E k : k = [s \in SUBSET S |->
                    IF s = {} THEN words
                    ELSE Pseudonymise(k[s \ {Max(s)}], R[Max(s)], words)]
  <2>1. PICK k : IsFold(k, F, words, S)
    <3> HIDE DEF S, F
    <3> QED  BY <1>2, FoldExists
  <2>2. \A i, acc : Taken(F, i, acc) = Pseudonymise(acc, R[i], words)  BY DEF Taken
  <2> HIDE DEF S, F, R
  <2>3. k = [s \in SUBSET S |->
                IF s = {} THEN words ELSE Taken(F, Max(s), k[s \ {Max(s)}])]
    BY <2>1 DEF IsFold
  <2>4. k = [s \in SUBSET S |->
                IF s = {} THEN words ELSE Pseudonymise(k[s \ {Max(s)}], R[Max(s)], words)]
    BY <2>2, <2>3
  <2> QED  BY <2>4
<1> HIDE DEF S, R
<1>4. h = [s \in SUBSET S |->
              IF s = {} THEN words ELSE Pseudonymise(h[s \ {Max(s)}], R[Max(s)], words)]
  BY <1>3
<1> HIDE DEF h
<1>5. ASSUME NEW s \in SUBSET S, s = {} PROVE s \in G
  BY <1>4, <1>5
<1>6. ASSUME NEW s \in SUBSET S, s # {}, Max(s) \in s, s \ {Max(s)} \in G PROVE s \in G
  <2>1. h[s] = Pseudonymise(h[s \ {Max(s)}], R[Max(s)], words)  BY <1>4, <1>6
  <2>2. IsList(h[s \ {Max(s)}])  BY <1>6
  <2>3. IsList(Pseudonymise(h[s \ {Max(s)}], R[Max(s)], words))
    BY <2>2, PseudonymiseLeavesAList
  <2> QED  BY <2>1, <2>3
<1>7. S \in G
  <2> HIDE DEF G
  <2>1. \A s \in SUBSET S : s \in G  BY <1>2, <1>5, <1>6, FoldInduction
  <2>2. S \in SUBSET S  OBVIOUS
  <2> QED  BY <2>1, <2>2
<1> QED  BY <1>1, <1>7

\* What masking leaves of a text.
LEMMA MaskingLeaves ==
  ASSUME NEW words, IsList(words)
  PROVE  \A i \in DOMAIN MaskText(words) :
            NameLike(MaskText(words)[i]) =>
              /\ StartsSentence(MaskText(words), i)
              /\ i < Len(MaskText(words)) =>
                    ~NameLike(MaskText(words)[i + 1]) \/ MaskText(words)[i].ends
<1>1. IsList(Unredacted(words))  BY UnredactedIsAList
<1>2. MaskText(words) = RedactNames(Unredacted(words))  BY DEF MaskText
<1> QED  BY <1>1, <1>2, RedactionLeaves

------------------------------------------------------------------------------
(* The invariant.                                                            *)

Going == {"stored"} \cup InFlight
Fields == {"pc", "conv", "words", "id", "titling", "context", "prompts", "kind", "steps",
           "calls", "log", "writes"}
Shaped(q) == DOMAIN q = Fields /\ IsList(q.calls)

Phase(p) ==
    /\ Shaped(post[p])
    /\ post[p].pc \in {"idle", "committed", "done"} \cup Going
    /\ post[p].pc \in {"idle", "stored", "committed", "done"} =>
          post[p].context = {} /\ post[p].calls = <<>> /\ post[p].writes = {}
    /\ post[p].pc = "classified" => post[p].kind = "tool"

\* The ids that are drawn are those of one post's rows.
Numbered(p) ==
    post[p].pc # "idle" =>
      /\ post[p].id \in Nat /\ post[p].id < nextId
      /\ \A m \in messages : m.id = post[p].id => m.post = p
      /\ \A r \in Posts \ {p} : post[r].pc # "idle" => post[r].id # post[p].id

\* The message of a post whose transaction has committed.
Stored(p) ==
    post[p].pc = "committed" =>
      \E m \in messages : m.id = post[p].id /\ m.conv = post[p].conv /\ m.role = "user"

\* Post p may have heard of customer c.
Hears(p, c) ==
    \/ c \in Mentions(post[p].words)
    \/ \E m \in messages : m.conv = post[p].conv /\ c \in Mentions(m.words)
    \/ \E j \in DOMAIN post[p].calls : c \in post[p].calls[j].shown
InContext(p) == \A c \in post[p].context : Hears(p, c)
CallsNamed(p) ==
    \A i \in DOMAIN post[p].calls :
        LET call == post[p].calls[i]
        IN  call.customer # 0 /\ call.by # "id" =>
              \/ call.customer \in Mentions(post[p].words)
              \/ \E m \in messages :
                    m.conv = post[p].conv /\ call.customer \in Mentions(m.words)
              \/ \E j \in 1 .. i - 1 : call.customer \in post[p].calls[j].shown
Logged(p) ==
    \A e \in post[p].writes : \E row \in post[p].log :
        /\ row.no = e.no
        /\ row.tool \in WriteTools /\ post[p].kind # "analysis"
        /\ e.what \in {"task", "rule"} /\ ~Decided(p, e.no) => ~row.ok

Good(p) ==
    /\ Phase(p) /\ Numbered(p) /\ Stored(p)
    /\ InContext(p) /\ CallsNamed(p) /\ Logged(p)

Drawn ==
    /\ nextId \in Nat \ {0}
    /\ \A m \in messages : m.id \in Nat /\ m.id < nextId
Captured ==
    \A k \in captures : k.post \in Posts /\ post[k.post].pc = "done"

IInv ==
    /\ DOMAIN post = Posts
    /\ Drawn /\ Captured /\ CaptureFollowsTheMessage
    /\ \A p \in Posts : Good(p)

------------------------------------------------------------------------------
(* A step of one post leaves the others alone.                               *)

\* What post p does to what is shared: it may draw an id, and store rows under its own id
\* or the new one.
Shares(p, q) ==
    /\ post' = [post EXCEPT ![p] = q]
    /\ messages \subseteq messages'
    /\ nextId' \in Nat /\ nextId <= nextId'
    /\ \A m \in messages' \ messages :
          /\ m.post = p /\ m.id < nextId'
          /\ m.id = nextId \/ (post[p].pc # "idle" /\ m.id = post[p].id)
    /\ post[p].pc # "done" /\ q.pc # "idle"
    /\ IF post[p].pc = "idle" THEN q.id = nextId /\ nextId < nextId' ELSE q.id = post[p].id

LEMMA OthersKeep ==
  ASSUME IInv, NEW p \in Posts, NEW q, Shares(p, q), NEW r \in Posts \ {p}
  PROVE  Good(r)'
<1>1. post'[r] = post[r] /\ post'[p] = q /\ Good(r) /\ Good(p)
  BY DEF IInv, Shares
<1>2. Phase(r)'  BY <1>1 DEF Good, Phase
<1>3. Numbered(r)'
  <2> SUFFICES ASSUME post[r].pc # "idle"
               PROVE  Numbered(r)'
    BY <1>1 DEF Numbered
  <2>1. post[r].id \in Nat /\ post[r].id < nextId  BY <1>1 DEF Good, Numbered
  <2>2. nextId \in Nat /\ nextId' \in Nat /\ nextId <= nextId'  BY DEF IInv, Drawn, Shares
  <2>3. post[r].id < nextId'  BY <2>1, <2>2
  <2>4. post[p].pc # "idle" => post[p].id # post[r].id
    BY <1>1 DEF Good, Numbered
  <2>5. ASSUME NEW m \in messages', m.id = post[r].id PROVE m.post = r
    <3>1. CASE m \in messages  BY <1>1, <2>5, <3>1 DEF Good, Numbered
    <3>2. CASE m \notin messages
      <4>1. m.id = nextId \/ (post[p].pc # "idle" /\ m.id = post[p].id)
        BY <3>2 DEF Shares
      <4> QED  BY <2>1, <2>2, <2>4, <2>5, <4>1
    <3> QED  BY <3>1, <3>2
  <2>6. q.id # post[r].id
    BY <2>1, <2>2, <2>4 DEF Shares
  <2>7. ASSUME NEW s \in Posts \ {r}, post'[s].pc # "idle" PROVE post'[s].id # post[r].id
    <3>1. CASE s = p  BY <1>1, <2>6, <3>1
    <3>2. CASE s # p
      <4>1. post'[s] = post[s]  BY <3>2 DEF IInv, Shares
      <4> QED  BY <1>1, <2>7, <4>1 DEF Good, Numbered
    <3> QED  BY <3>1, <3>2
  <2> QED  BY <1>1, <2>1, <2>3, <2>5, <2>7 DEF Numbered
<1>4. Stored(r)'
  BY <1>1 DEF Good, Stored, Shares
<1>5. InContext(r)'
  BY <1>1 DEF Good, InContext, Hears, Shares
<1>6. CallsNamed(r)'
  BY <1>1 DEF Good, CallsNamed, Shares
<1>7. Logged(r)'
  BY <1>1 DEF Good, Logged, Decided
<1> QED  BY <1>2, <1>3, <1>4, <1>5, <1>6, <1>7 DEF Good

LEMMA CapturesKeep ==
  ASSUME IInv, NEW p \in Posts, NEW q, Shares(p, q)
  PROVE  /\ \A k \in captures : k.post \in Posts /\ post'[k.post] = post[k.post]
         /\ \A k \in captures : k.post \in Posts /\ post'[k.post].pc = "done"
         /\ \A k \in captures : \E m \in messages' :
               /\ m.id = k.message /\ m.role = "user" /\ m.conv = post'[k.post].conv
               /\ m.post # k.post => m.id > post'[k.post].id
<1>1. \A k \in captures : k.post \in Posts /\ k.post # p /\ post[k.post].pc = "done"
  BY DEF IInv, Captured, Shares
<1>2. \A k \in captures : post'[k.post] = post[k.post]
  BY <1>1 DEF IInv, Shares
<1> QED  BY <1>1, <1>2 DEF IInv, CaptureFollowsTheMessage, Shares

\* The step keeps the invariant if it keeps what is said of its own post.
LEMMA StepKeeps ==
  ASSUME IInv, NEW p \in Posts, NEW q, Shares(p, q), captures' = captures, Good(p)'
  PROVE  IInv'
<1>1. DOMAIN post' = Posts  BY DEF IInv, Shares
<1>2. Drawn'
  <2>1. nextId \in Nat \ {0} /\ nextId' \in Nat /\ nextId <= nextId'
    BY DEF IInv, Drawn, Shares
  <2>2. ASSUME NEW m \in messages' PROVE m.id \in Nat /\ m.id < nextId'
    <3>1. CASE m \in messages
      <4>1. m.id \in Nat /\ m.id < nextId  BY <3>1 DEF IInv, Drawn
      <4> QED  BY <2>1, <4>1
    <3>2. CASE m \notin messages
      <4>1. m.id < nextId' /\ (m.id = nextId \/ (post[p].pc # "idle" /\ m.id = post[p].id))
        BY <3>2 DEF Shares
      <4>2. post[p].pc # "idle" => post[p].id \in Nat  BY DEF IInv, Good, Numbered
      <4> QED  BY <2>1, <4>1, <4>2
    <3> QED  BY <3>1, <3>2
  <2> QED  BY <2>1, <2>2 DEF Drawn
<1>3. Captured'  BY CapturesKeep DEF Captured
<1>4. CaptureFollowsTheMessage'  BY CapturesKeep DEF CaptureFollowsTheMessage
<1>5. \A r \in Posts : Good(r)'  BY OthersKeep
<1> QED  BY <1>1, <1>2, <1>3, <1>4, <1>5 DEF IInv

\* The rows that are stored are the same, and so is the id.
LEMMA OwnKeeps ==
  ASSUME IInv, NEW p \in Posts, NEW q, post' = [post EXCEPT ![p] = q],
         UNCHANGED <<committed, nextId>>,
         post[p].pc \notin {"idle", "done"}, q.pc # "idle", q.id = post[p].id
  PROVE  Shares(p, q) /\ Numbered(p)'
<1>1. Shares(p, q)
  BY DEF IInv, Drawn, Shares, committed
<1>2. Good(p) /\ post'[p] = q /\ \A r \in Posts \ {p} : post'[r] = post[r]
  BY DEF IInv
<1>3. Numbered(p)'
  BY <1>2 DEF Good, Numbered, committed
<1> QED  BY <1>1, <1>3

------------------------------------------------------------------------------
(* Before the tools run.                                                     *)

\* What post p sees are its own message and committed ones of its conversation.
LEMMA SeenIsHeard ==
  ASSUME IInv, NEW p \in Posts
  PROVE  /\ \A c \in Mentions(post[p].words) : Hears(p, c)
         /\ \A m \in Seen(p) : \A c \in Mentions(m.words) : Hears(p, c)
         /\ \A skip : Newest(p, skip) \subseteq Seen(p)
BY DEF Hears, Seen, Own, Newest

LEMMA StoreKeeps ==
  ASSUME IInv, NEW p \in Posts, NEW c \in Conversations, NEW words \in Texts, Store(p, c, words)
  PROVE  IInv'
<1> DEFINE q == [Idle EXCEPT !.pc = "stored", !.conv = c, !.words = words, !.id = nextId,
                             !.titling = (titles[c] = {})]
<1>1. post[p].pc = "idle" /\ post' = [post EXCEPT ![p] = q] /\ captures' = captures
  BY DEF Store
<1>2. /\ q.pc = "stored" /\ q.id = nextId /\ q.context = {} /\ q.calls = <<>> /\ q.writes = {}
      /\ Shaped(q)
  <2>1. IsList(<<>>)  BY DEF IsList
  <2>2. DOMAIN q = Fields  BY DEF Idle, Fields
  <2> QED  BY <2>1, <2>2 DEF Idle, Shaped
<1>3. nextId \in Nat \ {0} /\ nextId' = nextId + 1 /\ messages' = messages
      /\ \A m \in messages : m.id \in Nat /\ m.id < nextId
  BY DEF IInv, Drawn, Store, committed
<1> HIDE DEF q
<1>4. Shares(p, q)  BY <1>1, <1>2, <1>3 DEF Shares
<1>5. post'[p] = q /\ \A r \in Posts \ {p} : post'[r] = post[r]
  BY <1>1 DEF IInv
<1>6. Phase(p)'  BY <1>2, <1>5 DEF Phase, Going
<1>7. Numbered(p)'
  <2>1. \A m \in messages : m.id # nextId  BY <1>3
  <2>2. \A r \in Posts \ {p} : post[r].pc # "idle" => post[r].id # nextId
    BY <1>3 DEF IInv, Good, Numbered
  <2> QED  BY <1>2, <1>3, <1>5, <2>1, <2>2 DEF Numbered
<1>8. Stored(p)' /\ InContext(p)' /\ CallsNamed(p)' /\ Logged(p)'
  BY <1>2, <1>5 DEF Stored, InContext, CallsNamed, Logged
<1> QED  BY <1>1, <1>4, <1>6, <1>7, <1>8, StepKeeps DEF Good

LEMMA ClassifyKeeps ==
  ASSUME IInv, NEW p \in Posts, NEW kind \in Kinds, Classify(p, kind)
  PROVE  IInv'
<1> DEFINE texts == {post[p].words} \cup {m.words : m \in History(p)}
           q == [post[p] EXCEPT
                   !.pc = IF kind = "analysis" THEN "looping"
                          ELSE IF kind = "reply" THEN "replying" ELSE "classified",
                   !.kind = kind,
                   !.context = UNION {Mentions(t) : t \in texts},
                   !.prompts = {Masked[t] : t \in texts}]
<1>1. post[p].pc = "stored" /\ post' = [post EXCEPT ![p] = q]
      /\ UNCHANGED <<committed, nextId, captures>>
  BY DEF IInv, Classify
<1>2. \A c \in UNION {Mentions(t) : t \in texts} : Hears(p, c)
  BY SeenIsHeard DEF History
<1>3. Good(p) /\ Shaped(post[p])  BY DEF IInv, Good, Phase
<1>4. /\ q.pc \in {"looping", "replying", "classified"} /\ q.kind = kind
      /\ q.pc = "classified" => kind = "tool"
      /\ \A c \in q.context : Hears(p, c)
      /\ q.conv = post[p].conv /\ q.words = post[p].words /\ q.id = post[p].id
      /\ q.calls = post[p].calls /\ q.log = post[p].log /\ q.writes = post[p].writes
      /\ Shaped(q)
  BY <1>2, <1>3 DEF Shaped, Fields, Kinds
<1>5. post[p].writes = {}  BY <1>1, <1>3 DEF Good, Phase
<1> HIDE DEF q
<1>6. q.pc # "idle" /\ post[p].pc \notin {"idle", "done"} /\ captures' = captures
  BY <1>1, <1>4
<1>7. Shares(p, q) /\ Numbered(p)' /\ messages' = messages
  BY <1>1, <1>4, <1>6, OwnKeeps DEF committed
<1>8. post'[p] = q  BY <1>1 DEF IInv
<1>9. Phase(p)'  BY <1>4, <1>8 DEF Phase, Going, InFlight
<1>10. Stored(p)' /\ Logged(p)'  BY <1>4, <1>5, <1>8 DEF Stored, Logged
<1>11. InContext(p)'  BY <1>4, <1>7, <1>8 DEF InContext, Hears
<1>12. CallsNamed(p)'  BY <1>3, <1>4, <1>7, <1>8 DEF Good, CallsNamed
<1> QED  BY <1>6, <1>7, <1>9, <1>10, <1>11, <1>12, StepKeeps DEF Good

------------------------------------------------------------------------------
(* The tools.                                                                *)

\* What a call may write, and what its log row then has to say.
LEMMA WhatIsWritten ==
  ASSUME NEW tool, NEW result, NEW written \in Written(tool, result), NEW what \in written
  PROVE  /\ tool \in WriteTools
         /\ what \in {"task", "rule"} /\ "decision" \notin written => result # "ok"
<1>1. CASE result = "ok"
  <2>1. written \in WrittenBySuccess(tool)  BY <1>1 DEF Written
  <2> QED  BY <2>1 DEF WrittenBySuccess, WriteTools, TaskDraft, RuleProposal, QueuedInvestigation
<1>2. CASE result = "tool_error"
  <2>1. written \in WrittenByFailure(tool)  BY <1>2 DEF Written
  <2> QED  BY <1>2, <2>1 DEF WrittenByFailure, WriteTools
<1>3. CASE result \notin {"ok", "tool_error"}
  BY <1>3 DEF Written
<1> QED  BY <1>1, <1>2, <1>3

\* A call of a tool, about a customer that the post has heard of unless it is given by an id.
LEMMA DispatchKeeps ==
  ASSUME IInv, NEW p \in Posts, NEW tool, NEW ref, NEW after,
         post[p].pc \notin {"idle", "done"},
         Shaped(after), after.pc \in {"looping", "replying"},
         after.conv = post[p].conv, after.words = post[p].words, after.id = post[p].id,
         after.context = post[p].context, after.calls = post[p].calls, after.log = post[p].log,
         after.writes = post[p].writes, after.kind = post[p].kind,
         tool \in WriteTools => post[p].kind # "analysis",
         ref.customer # 0 /\ ref.by # "id" => Hears(p, ref.customer),
         Dispatch(p, tool, ref, after), UNCHANGED <<committed, nextId, captures>>
  PROVE  IInv'
<1>0. PICK result \in Results(p, tool, About(tool, ref)) :
      \E written \in Written(tool, result),
         shown \in IF result = "ok" THEN Shown(p, tool, About(tool, ref)) ELSE {{}} :
        post' = [post EXCEPT ![p] = Dispatched(after, tool, ref, result, written, shown)]
  BY DEF Dispatch
<1>1. PICK written \in Written(tool, result),
           shown \in IF result = "ok" THEN Shown(p, tool, About(tool, ref)) ELSE {{}} :
        post' = [post EXCEPT ![p] = Dispatched(after, tool, ref, result, written, shown)]
  BY <1>0
<1> DEFINE q == Dispatched(after, tool, ref, result, written, shown)
           n == Len(post[p].calls)
           call == [customer |-> About(tool, ref), by |-> ref.by, shown |-> shown]
           entry == [no |-> n + 1, tool |-> tool, ok |-> result = "ok"]
<1>2. Good(p) /\ IsList(post[p].calls) /\ n \in Nat /\ DOMAIN post[p].calls = 1 .. n
  BY DEF IInv, Good, Phase, Shaped, IsList
<1>3. /\ q.pc = after.pc /\ q.conv = post[p].conv /\ q.words = post[p].words
      /\ q.id = post[p].id /\ q.context = post[p].context \cup shown /\ q.kind = post[p].kind
      /\ q.calls = Append(post[p].calls, call) /\ q.log = post[p].log \cup {entry}
      /\ q.writes = post[p].writes \cup {[no |-> n + 1, what |-> what] : what \in written}
      /\ DOMAIN q = Fields
  BY DEF Dispatched, Ran, Shaped, Fields
<1>4. /\ Len(Append(post[p].calls, call)) = n + 1
      /\ DOMAIN Append(post[p].calls, call) = 1 .. n + 1
      /\ \A j \in 1 .. n : Append(post[p].calls, call)[j] = post[p].calls[j]
      /\ Append(post[p].calls, call)[n + 1] = call
  BY <1>2
<1> HIDE DEF q, call, n
<1>5. /\ q.pc \in {"looping", "replying"} /\ q.conv = post[p].conv /\ q.words = post[p].words
      /\ q.id = post[p].id /\ q.context = post[p].context \cup shown /\ q.kind = post[p].kind
      /\ q.log = post[p].log \cup {entry}
      /\ q.writes = post[p].writes \cup {[no |-> n + 1, what |-> what] : what \in written}
      /\ DOMAIN q.calls = 1 .. n + 1 /\ Len(q.calls) = n + 1
      /\ \A j \in 1 .. n : q.calls[j] = post[p].calls[j]
      /\ q.calls[n + 1] = call
  BY <1>3, <1>4
<1>6. Shaped(q)  BY <1>2, <1>3, <1>5 DEF Shaped, IsList
<1>7. Shares(p, q) /\ Numbered(p)' /\ messages' = messages /\ captures' = captures
  BY <1>1, <1>5, OwnKeeps DEF q, committed
<1>8. post'[p] = q  BY <1>1 DEF IInv, q
<1>9. Phase(p)'  BY <1>5, <1>6, <1>8 DEF Phase, Going, InFlight
<1>10. Stored(p)'  BY <1>5, <1>8 DEF Stored
<1>11. \A c : Hears(p, c) \/ c \in shown => Hears(p, c)'
  <2>1. \A j \in 1 .. n : q.calls[j].shown = post[p].calls[j].shown  BY <1>5
  <2>2. q.calls[n + 1].shown = shown /\ n + 1 \in DOMAIN q.calls  BY <1>2, <1>5 DEF call
  <2>3. \A j \in DOMAIN post[p].calls : j \in DOMAIN q.calls  BY <1>2, <1>5
  <2> QED  BY <1>2, <1>5, <1>7, <1>8, <2>1, <2>2, <2>3 DEF Hears
<1>12. InContext(p)'
  BY <1>2, <1>5, <1>8, <1>11 DEF Good, InContext
<1>13. CallsNamed(p)'
  <2> SUFFICES ASSUME NEW i \in 1 .. n + 1, NEW c, c = q.calls[i],
                      c.customer # 0, c.by # "id"
               PROVE  \/ c.customer \in Mentions(post[p].words)
                      \/ \E m \in messages :
                            m.conv = post[p].conv /\ c.customer \in Mentions(m.words)
                      \/ \E j \in 1 .. i - 1 : c.customer \in q.calls[j].shown
    BY <1>5, <1>7, <1>8 DEF CallsNamed
  <2>1. CASE i \in 1 .. n
    <3>1. c = post[p].calls[i] /\ \A j \in 1 .. i - 1 : q.calls[j] = post[p].calls[j]
      BY <1>2, <1>5, <2>1
    <3> QED  BY <1>2, <2>1, <3>1 DEF Good, CallsNamed
  <2>2. CASE i = n + 1
    <3>1. c.customer = About(tool, ref) /\ c.by = ref.by  BY <1>5, <2>2 DEF call
    <3>2. c.customer = ref.customer  BY <3>1 DEF About
    <3>3. Hears(p, c.customer)  BY <3>1, <3>2
    <3>4. \A j \in DOMAIN post[p].calls : j \in 1 .. i - 1 /\ q.calls[j] = post[p].calls[j]
      BY <1>2, <1>5, <2>2
    <3> QED  BY <3>3, <3>4 DEF Hears
  <2> QED  BY <1>2, <2>1, <2>2
<1>14. Logged(p)'
  <2> SUFFICES ASSUME NEW e \in q.writes
               PROVE  \E row \in q.log :
                        /\ row.no = e.no
                        /\ row.tool \in WriteTools /\ q.kind # "analysis"
                        /\ e.what \in {"task", "rule"} /\ [no |-> e.no, what |-> "decision"] \notin q.writes
                           => ~row.ok
    BY <1>8 DEF Logged, Decided
  <2>1. CASE e \in post[p].writes
    BY <1>2, <1>5, <2>1 DEF Good, Logged, Decided
  <2>2. CASE e \notin post[p].writes
    <3>1. PICK what \in written : e = [no |-> n + 1, what |-> what]  BY <1>5, <2>2
    <3>2. tool \in WriteTools /\ (what \in {"task", "rule"} /\ "decision" \notin written => result # "ok")
      BY <1>1, WhatIsWritten
    <3>3. "decision" \in written => [no |-> e.no, what |-> "decision"] \in q.writes
      BY <1>5, <3>1
    <3>4. entry \in q.log /\ entry.no = e.no /\ entry.tool = tool /\ entry.ok = (result = "ok")
      BY <1>5, <3>1
    <3>5. e.what = what  BY <3>1
    <3> QED  BY <1>5, <3>2, <3>3, <3>4, <3>5
  <2> QED  BY <2>1, <2>2
<1> QED  BY <1>7, <1>9, <1>10, <1>12, <1>13, <1>14, StepKeeps DEF Good

\* A post goes on without a call.
LEMMA PassKeeps ==
  ASSUME IInv, NEW p \in Posts, NEW q, post' = [post EXCEPT ![p] = q],
         post[p].pc \notin {"idle", "done"},
         Shaped(q), q.pc \in {"looping", "replying"},
         q.conv = post[p].conv, q.words = post[p].words, q.id = post[p].id,
         q.context = post[p].context, q.calls = post[p].calls, q.log = post[p].log,
         q.writes = post[p].writes, q.kind = post[p].kind,
         UNCHANGED <<committed, nextId, captures>>
  PROVE  IInv'
<1>1. Good(p) /\ post'[p] = q  BY DEF IInv
<1>2. Shares(p, q) /\ Numbered(p)' /\ messages' = messages /\ captures' = captures
  BY OwnKeeps DEF committed
<1>3. Phase(p)' /\ Stored(p)'  BY <1>1 DEF Phase, Stored, Going, InFlight
<1>4. InContext(p)'  BY <1>1, <1>2 DEF Good, InContext, Hears
<1>5. CallsNamed(p)'  BY <1>1, <1>2 DEF Good, CallsNamed
<1>6. Logged(p)'  BY <1>1 DEF Good, Logged, Decided
<1> QED  BY <1>2, <1>3, <1>4, <1>5, <1>6, StepKeeps DEF Good

\* The customer in focus is one that the post has heard of.
LEMMA FocusIsHeard ==
  ASSUME IInv, NEW p \in Posts, post[p].pc # "idle", Focus(p) # 0
  PROVE  Hears(p, Focus(p))
<1> DEFINE visible(m) == {i \in 1 .. Len(Named[m.words]) : Named[m.words][i] \in Visible[p]}
           naming == {m \in Newest(p, 0) : visible(m) # {}}
           newest == CHOOSE m \in naming : \A n \in naming : n.id <= m.id
           ids == {m.id : m \in naming}
<1>1. naming # {} /\ Focus(p) = Named[newest.words][Min(visible(newest))]
  BY DEF Focus
<1>2. naming \subseteq Seen(p)  BY SeenIsHeard
<1>3. nextId \in Nat /\ \A m \in Seen(p) : m.id \in Nat /\ m.id < nextId
  BY DEF IInv, Drawn, Good, Numbered, Seen, Own
<1> HIDE DEF naming
<1>4. ids \subseteq Nat /\ ids # {} /\ \A x \in ids : x <= nextId
  <2>1. \A m \in naming : m.id \in Nat /\ m.id <= nextId  BY <1>2, <1>3
  <2> QED  BY <1>1, <2>1
<1>5. PICK x \in ids : \A y \in ids : y <= x  BY <1>3, <1>4, GreatestOne
<1>6. PICK m \in naming : x = m.id  OBVIOUS
<1>7. \A n \in naming : n.id <= m.id  BY <1>5, <1>6
<1>8. newest \in naming  BY <1>7
<1> HIDE DEF newest
<1> USE DEF naming
<1>9. visible(newest) # {} /\ newest \in Seen(p)  BY <1>2, <1>8
<1>10. visible(newest) \subseteq Nat  OBVIOUS
<1>11. PICK i \in visible(newest) : \A j \in visible(newest) : i <= j
  BY <1>9, <1>10, LeastOne
<1>12. Min(visible(newest)) \in visible(newest)  BY <1>11 DEF Min
<1>13. Focus(p) \in Mentions(newest.words)  BY <1>1, <1>12 DEF Mentions
<1> QED  BY <1>9, <1>13, SeenIsHeard

\* The pseudonyms that the model may use stand for customers of the context.
LEMMA ReferencesAreHeard ==
  ASSUME IInv, NEW p \in Posts, NEW ref \in References(p), ref.customer # 0, ref.by # "id"
  PROVE  Hears(p, ref.customer)
<1>1. ref.customer \in post[p].context  BY DEF References
<1> QED  BY <1>1 DEF IInv, Good, InContext

LEMMA OneToolKeeps ==
  ASSUME IInv, NEW p \in Posts, NEW tool \in Tools, NEW ref \in References(p), OneTool(p, tool, ref)
  PROVE  IInv'
<1> DEFINE required == tool \in CustomerRequired /\ ref.customer = 0
           used == IF required THEN [customer |-> Focus(p), by |-> "focus"] ELSE ref
           after == [post[p] EXCEPT !.pc = "replying"]
<1>1. /\ post[p].pc = "classified" /\ UNCHANGED <<committed, nextId, captures>>
      /\ IF required /\ used.customer = 0 THEN post' = [post EXCEPT ![p] = after]
         ELSE Dispatch(p, tool, used, after)
  BY DEF OneTool
<1>2. Good(p) /\ Shaped(post[p]) /\ post[p].kind = "tool"
  BY <1>1 DEF IInv, Good, Phase
<1>3. /\ Shaped(after) /\ after.pc = "replying"
      /\ after.conv = post[p].conv /\ after.words = post[p].words /\ after.id = post[p].id
      /\ after.context = post[p].context /\ after.calls = post[p].calls
      /\ after.log = post[p].log /\ after.writes = post[p].writes /\ after.kind = post[p].kind
  BY <1>2 DEF Shaped, Fields
<1>4. used.customer # 0 /\ used.by # "id" => Hears(p, used.customer)
  BY <1>1, FocusIsHeard, ReferencesAreHeard
<1> HIDE DEF after, used
<1>5. CASE required /\ used.customer = 0
  BY <1>1, <1>3, <1>5, PassKeeps
<1>6. CASE ~(required /\ used.customer = 0)
  <2>1. Dispatch(p, tool, used, after)  BY <1>1, <1>6
  <2> QED  BY <1>1, <1>2, <1>3, <1>4, <2>1, DispatchKeeps
<1> QED  BY <1>5, <1>6

LEMMA AgentKeeps ==
  ASSUME IInv, NEW p \in Posts, Agent(p)
  PROVE  IInv'
<1>1. post[p].pc = "looping" /\ UNCHANGED <<committed, nextId, captures>>
  BY DEF Agent, AgentCall, AgentEnds
<1>2. Good(p) /\ Shaped(post[p])  BY DEF IInv, Good, Phase
<1>3. CASE AgentEnds(p)
  <2> DEFINE q == [post[p] EXCEPT !.pc = "replying"]
  <2>1. post' = [post EXCEPT ![p] = q]  BY <1>3 DEF AgentEnds
  <2>2. /\ Shaped(q) /\ q.pc = "replying"
        /\ q.conv = post[p].conv /\ q.words = post[p].words /\ q.id = post[p].id
        /\ q.context = post[p].context /\ q.calls = post[p].calls
        /\ q.log = post[p].log /\ q.writes = post[p].writes /\ q.kind = post[p].kind
    BY <1>2 DEF Shaped, Fields
  <2> HIDE DEF q
  <2> QED  BY <1>1, <2>1, <2>2, PassKeeps
<1>4. ASSUME NEW tool \in Tools, NEW ref \in References(p), AgentCall(p, tool, ref) PROVE IInv'
  <2> DEFINE after == [post[p] EXCEPT !.steps = @ + 1]
  <2>1. \/ post' = [post EXCEPT ![p] = after]
        \/ tool \in ReadTools /\ Dispatch(p, tool, ref, after)
    BY <1>4 DEF AgentCall
  <2>2. /\ Shaped(after) /\ after.pc = "looping"
        /\ after.conv = post[p].conv /\ after.words = post[p].words /\ after.id = post[p].id
        /\ after.context = post[p].context /\ after.calls = post[p].calls
        /\ after.log = post[p].log /\ after.writes = post[p].writes /\ after.kind = post[p].kind
    BY <1>1, <1>2 DEF Shaped, Fields
  <2>3. ref.customer # 0 /\ ref.by # "id" => Hears(p, ref.customer)
    BY <1>4, ReferencesAreHeard
  <2> HIDE DEF after
  <2>4. CASE post' = [post EXCEPT ![p] = after]
    BY <1>1, <2>2, <2>4, PassKeeps
  <2>5. CASE tool \in ReadTools /\ Dispatch(p, tool, ref, after)
    <3>1. tool \notin WriteTools  BY <2>5 DEF ReadTools, WriteTools
    <3> QED  BY <1>1, <2>2, <2>3, <2>5, <3>1, DispatchKeeps
  <2> QED  BY <2>1, <2>4, <2>5
<1> QED  BY <1>3, <1>4 DEF Agent

------------------------------------------------------------------------------
(* The end of a post.                                                        *)

\* A post that is over, or about to capture, has nothing left to say.
LEMMA OverSays ==
  ASSUME IInv, NEW p \in Posts, NEW pc \in {"committed", "done"}, NEW q,
         q = [Over(p) EXCEPT !.pc = pc], post' = [post EXCEPT ![p] = q]
  PROVE  /\ q.pc = pc /\ q.conv = post[p].conv /\ q.id = post[p].id
         /\ Phase(p)' /\ InContext(p)' /\ CallsNamed(p)' /\ Logged(p)'
<1>1. /\ DOMAIN q = Fields /\ q.pc = pc /\ q.conv = post[p].conv /\ q.id = post[p].id
      /\ q.context = {} /\ q.calls = <<>> /\ q.writes = {}
  BY DEF Over, Idle, Fields
<1>2. post'[p] = q  BY DEF IInv
<1>3. IsList(<<>>)  BY DEF IsList
<1>4. Phase(p)'  BY <1>1, <1>2, <1>3 DEF Phase, Shaped
<1>5. DOMAIN post'[p].calls = {}
  <2>1. DOMAIN <<>> = {}  OBVIOUS
  <2> QED  BY <1>1, <1>2, <2>1
<1>6. InContext(p)'  BY <1>1, <1>2 DEF InContext
<1>7. CallsNamed(p)'  BY <1>5 DEF CallsNamed
<1>8. Logged(p)'  BY <1>1, <1>2 DEF Logged
<1> QED  BY <1>1, <1>4, <1>6, <1>7, <1>8

LEMMA OverIsDone ==
  ASSUME NEW p
  PROVE  Over(p) = [Over(p) EXCEPT !.pc = "done"]
BY DEF Over, Idle

LEMMA OverKeeps ==
  ASSUME IInv, NEW p \in Posts, Abort(p) \/ LoseCapture(p)
  PROVE  IInv'
<1> DEFINE q == [Over(p) EXCEPT !.pc = "done"]
<1>1. /\ post[p].pc \notin {"idle", "done"} /\ post' = [post EXCEPT ![p] = q]
      /\ UNCHANGED <<committed, nextId, captures>>
  BY OverIsDone DEF Abort, LoseCapture, InFlight
<1> HIDE DEF q
<1>2. /\ q.pc = "done" /\ q.id = post[p].id
      /\ Phase(p)' /\ InContext(p)' /\ CallsNamed(p)' /\ Logged(p)'
  BY <1>1, OverSays DEF q
<1>3. Shares(p, q) /\ Numbered(p)' /\ captures' = captures
  BY <1>1, <1>2, OwnKeeps
<1>4. Stored(p)'
  <2>1. post'[p] = q  BY <1>1 DEF IInv
  <2> QED  BY <1>2, <2>1 DEF Stored
<1> QED  BY <1>2, <1>3, <1>4, StepKeeps DEF Good

LEMMA FinishKeeps ==
  ASSUME IInv, NEW p \in Posts, NEW words, Finish(p, words)
  PROVE  IInv'
<1> DEFINE q == [Over(p) EXCEPT !.pc = "committed"]
<1>1. /\ post[p].pc = "replying" /\ post' = [post EXCEPT ![p] = q]
      /\ messages' = messages \cup {Own(p), Reply(p, words)}
      /\ nextId' = nextId + 1 /\ captures' = captures
  BY DEF Finish
<1> HIDE DEF q
<1>2. /\ q.pc = "committed" /\ q.id = post[p].id /\ q.conv = post[p].conv
      /\ Phase(p)' /\ InContext(p)' /\ CallsNamed(p)' /\ Logged(p)'
  BY <1>1, OverSays DEF q
<1>3. /\ Own(p).id = post[p].id /\ Own(p).conv = post[p].conv /\ Own(p).role = "user"
      /\ Own(p).post = p
      /\ Reply(p, words).id = nextId /\ Reply(p, words).post = p
  BY DEF Own, Reply
<1>4. nextId \in Nat \ {0} /\ post[p].id \in Nat /\ post[p].id < nextId /\ Good(p)
  BY <1>1 DEF IInv, Drawn, Good, Numbered
<1>5. Shares(p, q)
  <2>1. nextId' \in Nat /\ nextId <= nextId' /\ post[p].id < nextId' /\ nextId < nextId'
    BY <1>1, <1>4
  <2>2. ASSUME NEW m \in messages' \ messages
        PROVE  /\ m.post = p /\ m.id < nextId'
               /\ m.id = nextId \/ (post[p].pc # "idle" /\ m.id = post[p].id)
    BY <1>1, <1>3, <2>1
  <2>3. post[p].pc # "done" /\ q.pc # "idle" /\ post[p].pc # "idle"  BY <1>1, <1>2
  <2> QED  BY <1>1, <1>2, <2>1, <2>2, <2>3 DEF Shares
<1>6. post'[p] = q /\ \A r \in Posts \ {p} : post'[r] = post[r]
  BY <1>1 DEF IInv
<1>7. Numbered(p)'
  <2>1. \A r \in Posts \ {p} : post[r].pc # "idle" => post[r].id # post[p].id
    BY <1>1, <1>4 DEF Good, Numbered
  <2>2. \A m \in messages' : m.id = post[p].id => m.post = p
    BY <1>1, <1>3, <1>4 DEF Good, Numbered
  <2> QED  BY <1>1, <1>2, <1>4, <1>6, <2>1, <2>2 DEF Numbered
<1>8. Stored(p)'  BY <1>1, <1>2, <1>3, <1>6 DEF Stored
<1> QED  BY <1>1, <1>2, <1>5, <1>7, <1>8, StepKeeps DEF Good

LEMMA CaptureKeeps ==
  ASSUME IInv, NEW p \in Posts, Capture(p)
  PROVE  IInv'
<1> DEFINE q == [Over(p) EXCEPT !.pc = "done"]
<1>1. /\ post[p].pc = "committed" /\ post' = [post EXCEPT ![p] = q]
      /\ UNCHANGED <<committed, nextId>>
  BY OverIsDone DEF Capture
<1>2. PICK m \in UserRows(p) : /\ \A n \in UserRows(p) : n.id <= m.id
                               /\ captures' = captures \cup {[post |-> p, message |-> m.id]}
  BY DEF Capture
<1> HIDE DEF q
<1>3. /\ q.pc = "done" /\ q.id = post[p].id /\ q.conv = post[p].conv
      /\ Phase(p)' /\ InContext(p)' /\ CallsNamed(p)' /\ Logged(p)'
  BY <1>1, OverSays DEF q
<1>4. Shares(p, q) /\ Numbered(p)' /\ messages' = messages
  BY <1>1, <1>3, OwnKeeps DEF committed
<1>5. post'[p] = q  BY <1>1 DEF IInv
<1>6. m.post # p => m.id > post[p].id
  <2>1. PICK n \in messages : n.id = post[p].id /\ n.conv = post[p].conv /\ n.role = "user"
    BY <1>1 DEF IInv, Good, Stored
  <2>2. n \in UserRows(p) /\ m \in messages  BY <1>2, <2>1 DEF UserRows
  <2>3. post[p].id <= m.id  BY <1>2, <2>1, <2>2
  <2>4. m.id = post[p].id => m.post = p  BY <1>1, <2>2 DEF IInv, Good, Numbered
  <2>5. m.id \in Nat /\ post[p].id \in Nat
    BY <1>1, <2>2 DEF IInv, Drawn, Good, Numbered
  <2> QED  BY <2>3, <2>4, <2>5
<1>7. m \in messages /\ m.role = "user" /\ m.conv = post[p].conv  BY <1>2 DEF UserRows
<1>8. DOMAIN post' = Posts /\ Drawn'
  BY <1>1, <1>4 DEF IInv, Drawn
<1>9. Captured'
  <2>1. \A k \in captures : k.post \in Posts /\ post'[k.post].pc = "done"
    BY <1>4, CapturesKeep
  <2> QED  BY <1>2, <1>3, <1>5, <2>1 DEF Captured
<1>10. CaptureFollowsTheMessage'
  <2> SUFFICES ASSUME NEW k \in captures'
               PROVE  \E n \in messages' :
                        /\ n.id = k.message /\ n.role = "user" /\ n.conv = post'[k.post].conv
                        /\ n.post # k.post => n.id > post'[k.post].id
    BY DEF CaptureFollowsTheMessage
  <2>1. CASE k \in captures  BY <1>4, <2>1, CapturesKeep
  <2>2. CASE k \notin captures
    <3>1. k.post = p /\ k.message = m.id  BY <1>2, <2>2
    <3> QED  BY <1>3, <1>4, <1>5, <1>6, <1>7, <3>1
  <2> QED  BY <2>1, <2>2
<1>11. Good(p)'
  <2>1. Stored(p)'  BY <1>3, <1>5 DEF Stored
  <2> QED  BY <1>3, <1>4, <2>1 DEF Good
<1>12. \A r \in Posts : Good(r)'  BY <1>4, <1>11, OthersKeep
<1> QED  BY <1>8, <1>9, <1>10, <1>12 DEF IInv

------------------------------------------------------------------------------
(* The theorems.                                                             *)

LEMMA InitKeeps == Init => IInv
<1> SUFFICES ASSUME Init PROVE IInv  OBVIOUS
<1>1. /\ DOMAIN post = Posts /\ messages = {} /\ captures = {} /\ nextId = 1
      /\ \A p \in Posts : post[p] = Idle
  BY DEF Init
<1>2. /\ Idle.pc = "idle" /\ Idle.context = {} /\ Idle.calls = <<>> /\ Idle.writes = {}
      /\ DOMAIN Idle = Fields
  BY DEF Idle, Fields
<1>3. IsList(<<>>)  BY DEF IsList
<1>4. ASSUME NEW p \in Posts PROVE Good(p)
  BY <1>1, <1>2, <1>3 DEF Good, Phase, Shaped, Numbered, Stored, InContext, CallsNamed, Logged
<1> QED  BY <1>1, <1>4 DEF IInv, Drawn, Captured, CaptureFollowsTheMessage

LEMMA NextKeeps == IInv /\ [Next]_vars => IInv'
<1> SUFFICES ASSUME IInv, [Next]_vars PROVE IInv'  OBVIOUS
<1>1. CASE UNCHANGED vars
  BY <1>1 DEF vars, committed, IInv, Drawn, Captured, CaptureFollowsTheMessage, Good, Phase,
              Numbered, Stored, InContext, Hears, CallsNamed, Logged, Decided
<1>2. ASSUME NEW p \in Posts, NEW c \in Conversations, NEW words \in Texts, Store(p, c, words)
      PROVE  IInv'
  BY <1>2, StoreKeeps
<1>3. ASSUME NEW p \in Posts, NEW kind \in Kinds, Classify(p, kind) PROVE IInv'
  BY <1>3, ClassifyKeeps
<1>4. ASSUME NEW p \in Posts, NEW tool \in Tools, NEW ref \in References(p), OneTool(p, tool, ref)
      PROVE  IInv'
  BY <1>4, OneToolKeeps
<1>5. ASSUME NEW p \in Posts, Agent(p) PROVE IInv'
  BY <1>5, AgentKeeps
<1>6. ASSUME NEW p \in Posts, NEW words \in ReplyWords(p), Finish(p, words) PROVE IInv'
  BY <1>6, FinishKeeps
<1>7. ASSUME NEW p \in Posts, Capture(p) PROVE IInv'
  BY <1>7, CaptureKeeps
<1>8. ASSUME NEW p \in Posts, Abort(p) \/ LoseCapture(p) PROVE IInv'
  BY <1>8, OverKeeps
<1> QED  BY <1>1, <1>2, <1>3, <1>4, <1>5, <1>6, <1>7, <1>8 DEF Next, Handle

\* Every state that is reached is good for each of its posts.
THEOREM Invariant == Spec => []IInv
<1>1. Init => IInv  BY InitKeeps
<1>2. IInv /\ [Next]_vars => IInv'  BY NextKeeps
<1> QED  BY <1>1, <1>2, PTL DEF Spec

\* By a pseudonym or by the focus, a tool is only ever run about a customer that the
\* conversation named, however the posts of one conversation and of others overlap.
THEOREM OnlyNamedCustomers == Spec => []CustomersWereNamed
<1>1. IInv => CustomersWereNamed
  BY DEF IInv, Good, CallsNamed, CustomersWereNamed
<1> QED  BY <1>1, Invariant, PTL

\* What a tool has written is in the log of the calls and in the log of the decisions, but for
\* what a failed call left and the investigations.
THEOREM EffectsLogged == Spec => []EffectsAreLogged
<1>1. IInv => EffectsAreLogged
  BY DEF IInv, Good, Logged, EffectsAreLogged
<1> QED  BY <1>1, Invariant, PTL

\* Knowledge is attributed to the message that was captured or to a later one of the same
\* conversation.
THEOREM CapturesFollow == Spec => []CaptureFollowsTheMessage
<1>1. IInv => CaptureFollowsTheMessage  BY DEF IInv
<1> QED  BY <1>1, Invariant, PTL

------------------------------------------------------------------------------
(* What the prompts are made of.                                             *)

\* The texts of post p, whom it knows of, and what it has sent to the model.
Told(p) ==
    /\ post[p].words \in AllTexts /\ post[p].context \subseteq Ids
    /\ post[p].prompts \subseteq {Masked[t] : t \in AllTexts}
TextInv ==
    /\ \A m \in messages : m.words \in AllTexts
    /\ \A p \in Posts : Told(p)

\* Texts are lists of words, and what they mention are customers.
LEMMA TextsAreLists ==
  ASSUME NEW words \in AllTexts
  PROVE  IsList(words) /\ Mentions(words) \subseteq Ids
<1>1. IsList(words)
  <2>1. CASE words \in Texts
    <3>1. words \in Seq(Words)  BY <2>1, ChatAssumption
    <3> QED  BY <3>1 DEF IsList
  <2>2. CASE words = <<>>  BY <2>2 DEF IsList
  <2>3. ASSUME NEW c \in Ids, words = Name(c) PROVE IsList(words)
    <3>1. Customers[c] \in Seq(STRING)
      <4>1. Customers \in Seq(Seq(STRING) \ {<<>>})  BY MaskingAssumption
      <4>2. c \in 1 .. Len(Customers)  BY <4>1 DEF Ids
      <4> QED  BY <4>1, <4>2
    <3>2. Len(Customers[c]) \in Nat /\ DOMAIN Customers[c] = 1 .. Len(Customers[c])  BY <3>1
    <3> QED  BY <2>3, <3>2 DEF IsList, Name
  <2> QED  BY <2>1, <2>2, <2>3 DEF AllTexts
<1>2. Mentions(words) \subseteq Ids
  <2> DEFINE found == Resolve(words)
  <2>1. found \in Seq(Matches(words))  BY ResolveFinds
  <2> HIDE DEF found
  <2>2. \A i \in 1 .. Len(found) : found[i] \in Matches(words)  BY <2>1
  <2>3. \A match \in Matches(words) : match.customer \in Ids  BY DEF Matches
  <2>4. Named[words] = [i \in 1 .. Len(found) |-> found[i].customer]
    BY DEF Named, found
  <2>5. Len(found) \in Nat  BY <2>1
  <2>6. Len(Named[words]) = Len(found)  BY <2>4, <2>5
  <2>7. \A i \in 1 .. Len(Named[words]) : Named[words][i] \in Ids
    BY <2>2, <2>3, <2>4, <2>6
  <2> QED  BY <2>7 DEF Mentions
<1> QED  BY <1>1, <1>2

\* A step of one post keeps the texts if it keeps what is said of its own.
LEMMA TextKeeps ==
  ASSUME IInv, TextInv, NEW p \in Posts, NEW q, post' = [post EXCEPT ![p] = q],
         q.words \in AllTexts, q.context \subseteq Ids,
         q.prompts \subseteq {Masked[t] : t \in AllTexts},
         \A m \in messages' : m.words \in AllTexts
  PROVE  TextInv'
<1>1. post'[p] = q /\ \A r \in Posts \ {p} : post'[r] = post[r]  BY DEF IInv
<1>2. ASSUME NEW r \in Posts PROVE Told(r)'
  <2> HIDE DEF AllTexts, Masked
  <2>1. CASE r = p  BY <1>1, <2>1 DEF Told
  <2>2. CASE r # p
    <3>1. Told(r) /\ post'[r] = post[r]  BY <1>1, <2>2 DEF TextInv
    <3> QED  BY <3>1 DEF Told
  <2> QED  BY <2>1, <2>2
<1> QED  BY <1>2 DEF TextInv

\* What a tool shows are customers (catalog.py).
LEMMA ShownAreCustomers ==
  ASSUME NEW p \in Posts, NEW tool, NEW customer, "ok" \in Results(p, tool, customer),
         NEW shown \in Shown(p, tool, customer)
  PROVE  shown \subseteq Ids
<1>1. Visible[p] \subseteq Ids  BY ChatAssumption
<1>2. tool \in CustomerRequired => customer \in Visible[p]
  BY DEF Results, OutOfScope, Incomplete, ForOneCustomer
<1>3. CASE tool = "query_metric"
  <2>1. customer # 0 => customer \in Visible[p]
    BY <1>3 DEF Results, OutOfScope, ForOneCustomer
  <2> QED  BY <1>1, <1>3, <2>1 DEF Shown, MetricRows
<1>4. CASE tool = "list_signals"  BY <1>1, <1>4 DEF Shown, OpenSignals
<1>5. CASE tool = "explain_signal"  BY <1>1, <1>5 DEF Shown, ExplainedSignal
<1>6. CASE tool = "get_customer_360"
  BY <1>1, <1>2, <1>6 DEF Shown, Customer360, CustomerRequired
<1>7. CASE tool = "get_client_knowledge"
  BY <1>1, <1>2, <1>7 DEF Shown, ClientKnowledge, CustomerRequired
<1>8. CASE tool \notin {"query_metric", "list_signals", "explain_signal", "get_customer_360",
                        "get_client_knowledge"}
  BY <1>8 DEF Shown
<1> QED  BY <1>3, <1>4, <1>5, <1>6, <1>7, <1>8

\* A call adds customers to the context and leaves the prompts (dispatch).
LEMMA DispatchTells ==
  ASSUME IInv, TextInv, NEW p \in Posts, NEW tool, NEW ref, NEW after, Shaped(after),
         after.words = post[p].words, after.context = post[p].context,
         after.prompts = post[p].prompts,
         Dispatch(p, tool, ref, after), messages' = messages
  PROVE  TextInv'
<1>1. PICK result \in Results(p, tool, About(tool, ref)) :
        \E written \in Written(tool, result),
           shown \in IF result = "ok" THEN Shown(p, tool, About(tool, ref)) ELSE {{}} :
          post' = [post EXCEPT ![p] = Dispatched(after, tool, ref, result, written, shown)]
  BY DEF Dispatch
<1>2. PICK written \in Written(tool, result),
           shown \in IF result = "ok" THEN Shown(p, tool, About(tool, ref)) ELSE {{}} :
          post' = [post EXCEPT ![p] = Dispatched(after, tool, ref, result, written, shown)]
  BY <1>1
<1> DEFINE q == Dispatched(after, tool, ref, result, written, shown)
<1>3. shown \subseteq Ids
  <2>1. CASE result = "ok"  BY <1>2, <2>1, ShownAreCustomers
  <2>2. CASE result # "ok"  BY <1>2, <2>2
  <2> QED  BY <2>1, <2>2
<1>4. q.words = post[p].words /\ q.context = post[p].context \cup shown
      /\ q.prompts = post[p].prompts
  BY DEF Dispatched, Ran, Shaped, Fields
<1> HIDE DEF q
<1>5. Told(p)  BY DEF TextInv
<1>6. q.words \in AllTexts /\ q.context \subseteq Ids
      /\ q.prompts \subseteq {Masked[t] : t \in AllTexts}
  BY <1>3, <1>4, <1>5 DEF Told
<1>7. \A m \in messages' : m.words \in AllTexts  BY DEF TextInv
<1>8. post' = [post EXCEPT ![p] = q]  BY <1>2 DEF q
<1> QED  BY <1>6, <1>7, <1>8, TextKeeps

\* A step that leaves a post's texts alone.
LEMMA SameTells ==
  ASSUME IInv, TextInv, NEW p \in Posts, NEW q, post' = [post EXCEPT ![p] = q],
         q.words = post[p].words, q.context = post[p].context, q.prompts = post[p].prompts,
         messages' = messages
  PROVE  TextInv'
<1>1. Told(p)  BY DEF TextInv
<1>2. q.words \in AllTexts /\ q.context \subseteq Ids
      /\ q.prompts \subseteq {Masked[t] : t \in AllTexts}
  BY <1>1 DEF Told
<1>3. \A m \in messages' : m.words \in AllTexts  BY DEF TextInv
<1> QED  BY <1>2, <1>3, TextKeeps

\* The prompts of a classification are masked texts of the conversation (_masked_history).
LEMMA ClassifyTells ==
  ASSUME IInv, TextInv, NEW p \in Posts, NEW kind, Classify(p, kind)
  PROVE  TextInv'
<1> DEFINE texts == {post[p].words} \cup {m.words : m \in History(p)}
           q == [post[p] EXCEPT
                   !.pc = IF kind = "analysis" THEN "looping"
                          ELSE IF kind = "reply" THEN "replying" ELSE "classified",
                   !.kind = kind,
                   !.context = UNION {Mentions(t) : t \in texts},
                   !.prompts = {Masked[t] : t \in texts}]
<1>1. post' = [post EXCEPT ![p] = q] /\ messages' = messages
  BY DEF Classify, committed
<1>2. Shaped(post[p]) /\ Told(p)  BY DEF IInv, Good, Phase, TextInv
<1>3. texts \subseteq AllTexts
  <2>1. \A m \in History(p) : m \in messages \/ m = Own(p)
    BY DEF History, Newest, Seen
  <2>2. Own(p).words = post[p].words  BY DEF Own
  <2>3. \A m \in History(p) : m.words \in AllTexts  BY <1>2, <2>1, <2>2 DEF Told, TextInv
  <2> QED  BY <1>2, <2>3 DEF Told
<1> HIDE DEF texts
<1>4. /\ q.words = post[p].words /\ q.context = UNION {Mentions(t) : t \in texts}
      /\ q.prompts = {Masked[t] : t \in texts}
  BY <1>2 DEF Shaped, Fields
<1> HIDE DEF q
<1>5. q.context \subseteq Ids
  <2>1. \A t \in texts : Mentions(t) \subseteq Ids  BY <1>3, TextsAreLists
  <2> QED  BY <1>4, <2>1
<1>6. q.prompts \subseteq {Masked[t] : t \in AllTexts}  BY <1>3, <1>4
<1>7. q.words \in AllTexts  BY <1>2, <1>4 DEF Told
<1>8. \A m \in messages' : m.words \in AllTexts  BY <1>1 DEF TextInv
<1> QED  BY <1>1, <1>5, <1>6, <1>7, <1>8, TextKeeps

\* A tool or the end of the agent's loop.
LEMMA ToolTells ==
  ASSUME IInv, TextInv, NEW p \in Posts, NEW tool, NEW ref,
         OneTool(p, tool, ref) \/ AgentCall(p, tool, ref) \/ AgentEnds(p)
  PROVE  TextInv'
<1>1. Shaped(post[p])  BY DEF IInv, Good, Phase
<1>2. messages' = messages  BY DEF OneTool, AgentCall, AgentEnds, committed
<1>3. CASE OneTool(p, tool, ref)
  <2> DEFINE required == tool \in CustomerRequired /\ ref.customer = 0
             used == IF required THEN [customer |-> Focus(p), by |-> "focus"] ELSE ref
             after == [post[p] EXCEPT !.pc = "replying"]
  <2>1. \/ post' = [post EXCEPT ![p] = after]
        \/ Dispatch(p, tool, used, after)
    BY <1>3 DEF OneTool
  <2>2. /\ Shaped(after) /\ after.words = post[p].words /\ after.context = post[p].context
        /\ after.prompts = post[p].prompts
    BY <1>1 DEF Shaped, Fields
  <2> HIDE DEF after, used
  <2> QED  BY <1>2, <2>1, <2>2, SameTells, DispatchTells
<1>4. CASE AgentCall(p, tool, ref)
  <2> DEFINE after == [post[p] EXCEPT !.steps = @ + 1]
  <2>1. \/ post' = [post EXCEPT ![p] = after]
        \/ Dispatch(p, tool, ref, after)
    BY <1>4 DEF AgentCall
  <2>2. /\ Shaped(after) /\ after.words = post[p].words /\ after.context = post[p].context
        /\ after.prompts = post[p].prompts
    BY <1>1 DEF Shaped, Fields
  <2> HIDE DEF after
  <2> QED  BY <1>2, <2>1, <2>2, SameTells, DispatchTells
<1>5. CASE AgentEnds(p)
  <2> DEFINE q == [post[p] EXCEPT !.pc = "replying"]
  <2>1. post' = [post EXCEPT ![p] = q]  BY <1>5 DEF AgentEnds
  <2>2. q.words = post[p].words /\ q.context = post[p].context /\ q.prompts = post[p].prompts
    BY <1>1 DEF Shaped, Fields
  <2> HIDE DEF q
  <2> QED  BY <1>2, <2>1, <2>2, SameTells
<1> QED  BY <1>3, <1>4, <1>5

\* A post that is stored or over has no prompts.
LEMMA BlankTells ==
  ASSUME IInv, TextInv, NEW p \in Posts, NEW q, post' = [post EXCEPT ![p] = q],
         q.words \in AllTexts, q.context = {}, q.prompts = {},
         \A m \in messages' : m.words \in AllTexts
  PROVE  TextInv'
<1>1. q.context \subseteq Ids /\ q.prompts \subseteq {Masked[t] : t \in AllTexts}  OBVIOUS
<1> QED  BY <1>1, TextKeeps

\* The reply names customers.
LEMMA FinishTells ==
  ASSUME IInv, TextInv, NEW p \in Posts, NEW words \in ReplyWords(p), Finish(p, words)
  PROVE  TextInv'
<1>1. Told(p) /\ Visible[p] \subseteq Ids  BY ChatAssumption DEF TextInv
<1>2. words \in AllTexts  BY <1>1 DEF ReplyWords, AllTexts, Told
<1>3. \A m \in messages' : m.words \in AllTexts
  <2>1. \A m \in messages' : m \in messages \/ m = Own(p) \/ m = Reply(p, words)
    BY DEF Finish
  <2>2. Own(p).words = post[p].words /\ Reply(p, words).words = words  BY DEF Own, Reply
  <2> QED  BY <1>1, <1>2, <2>1, <2>2 DEF Told, TextInv
<1> DEFINE q == [Over(p) EXCEPT !.pc = "committed"]
<1>4. post' = [post EXCEPT ![p] = q]  BY DEF Finish
<1>5. q.words = <<>> /\ q.context = {} /\ q.prompts = {}  BY DEF Over, Idle
<1>6. <<>> \in AllTexts  BY DEF AllTexts
<1> HIDE DEF q
<1> QED  BY <1>3, <1>4, <1>5, <1>6, BlankTells

\* Every step keeps the texts.
LEMMA NextTells == IInv /\ TextInv /\ [Next]_vars => TextInv'
<1> SUFFICES ASSUME IInv, TextInv, [Next]_vars PROVE TextInv'  OBVIOUS
<1>1. CASE UNCHANGED vars  BY <1>1 DEF vars, committed, TextInv, Told
<1>2. ASSUME NEW p \in Posts, NEW c \in Conversations, NEW words \in Texts, Store(p, c, words)
      PROVE  TextInv'
  <2> DEFINE q == [Idle EXCEPT !.pc = "stored", !.conv = c, !.words = words, !.id = nextId,
                               !.titling = (titles[c] = {})]
  <2>1. post' = [post EXCEPT ![p] = q] /\ messages' = messages  BY <1>2 DEF Store, committed
  <2>2. q.words = words /\ q.context = {} /\ q.prompts = {}  BY DEF Idle
  <2>3. words \in AllTexts /\ \A m \in messages' : m.words \in AllTexts
    BY <2>1 DEF AllTexts, TextInv
  <2> HIDE DEF q
  <2> QED  BY <2>1, <2>2, <2>3, BlankTells
<1>3. ASSUME NEW p \in Posts, NEW kind \in Kinds, Classify(p, kind) PROVE TextInv'
  BY <1>3, ClassifyTells
<1>4. ASSUME NEW p \in Posts, NEW tool \in Tools, NEW ref \in References(p), OneTool(p, tool, ref)
      PROVE  TextInv'
  BY <1>4, ToolTells
<1>5. ASSUME NEW p \in Posts, Agent(p) PROVE TextInv'
  BY <1>5, ToolTells DEF Agent
<1>6. ASSUME NEW p \in Posts, NEW words \in ReplyWords(p), Finish(p, words) PROVE TextInv'
  BY <1>6, FinishTells
<1>7. ASSUME NEW p \in Posts, Capture(p) \/ Abort(p) \/ LoseCapture(p) PROVE TextInv'
  <2>1. post' = [post EXCEPT ![p] = Over(p)] /\ messages' = messages
    BY <1>7 DEF Capture, Abort, LoseCapture, committed
  <2>2. Over(p).words = <<>> /\ Over(p).context = {} /\ Over(p).prompts = {}
    BY DEF Over, Idle
  <2>3. <<>> \in AllTexts /\ \A m \in messages' : m.words \in AllTexts
    BY <2>1 DEF AllTexts, TextInv
  <2> QED  BY <2>1, <2>2, <2>3, BlankTells
<1> QED  BY <1>1, <1>2, <1>3, <1>4, <1>5, <1>6, <1>7 DEF Next, Handle

\* No capitalised word of a message or of the history reaches a prompt but lone ones at the
\* start of a sentence and the acronyms, whatever customers there are and whatever is written.
THEOREM OnlyStartersSurvive == Spec => []OnlySentenceStartersSurvive
<1>1. Init => TextInv
  <2> SUFFICES ASSUME Init PROVE TextInv  OBVIOUS
  <2>1. messages = {} /\ \A p \in Posts : post[p] = Idle  BY DEF Init
  <2>2. Idle.words = <<>> /\ Idle.context = {} /\ Idle.prompts = {}  BY DEF Idle
  <2>3. <<>> \in AllTexts  BY DEF AllTexts
  <2> QED  BY <2>1, <2>2, <2>3 DEF TextInv, Told
<1>2. IInv /\ TextInv /\ [Next]_vars => TextInv'  BY NextTells
<1>3. TextInv => OnlySentenceStartersSurvive
  <2> SUFFICES ASSUME TextInv, NEW p \in Posts, NEW tokens \in post[p].prompts
               PROVE  \A i \in DOMAIN tokens :
                        NameLike(tokens[i]) =>
                            /\ StartsSentence(tokens, i)
                            /\ i < Len(tokens) => ~NameLike(tokens[i + 1]) \/ tokens[i].ends
    BY DEF OnlySentenceStartersSurvive
  <2>1. PICK t \in AllTexts : tokens = Masked[t]  BY DEF TextInv, Told
  <2>2. tokens = MaskText(t)  BY <2>1 DEF Masked
  <2>3. IsList(t)  BY TextsAreLists
  <2> QED  BY <2>2, <2>3, MaskingLeaves
<1> QED  BY <1>1, <1>2, <1>3, Invariant, PTL DEF Spec

=============================================================================
