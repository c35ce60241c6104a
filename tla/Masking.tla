--------------------------------- MODULE Masking ---------------------------------
(***************************************************************************)
(* What surrounds each question to the language model: customers in a text *)
(* are recognised (conversation/resolution.py) and replaced by pseudonyms, *)
(* whatever else looks like a name is redacted (llm/masking.py), a reply   *)
(* may use no number that its data do not have (llm/validators.py), and    *)
(* the pseudonyms it uses are turned into names again for the reader.      *)
(*                                                                         *)
(* A text is a sequence of words.  A word is its stem, without case and    *)
(* diacritics, whether it begins with a capital, and whether a sentence    *)
(* ends after it.  A customer's name is matched word by word; the code     *)
(* matches characters.  The pseudonyms are six hexadecimal digits of a     *)
(* hash and are taken to differ.                                           *)
(***************************************************************************)
EXTENDS Integers, FiniteSets, SequencesExt

CONSTANTS
    Customers,     \* core.customer in the order of its ids: the stems of each name
    AllowList,     \* the stems of _REDACTION_ALLOWLIST
    Digits         \* the decimal digits in a row in the pseudonym of each customer

Ids == DOMAIN Customers
Words == [kind : {"word"}, stem : STRING, capital : BOOLEAN, ends : BOOLEAN]

ASSUME MaskingAssumption ==
    /\ Customers \in Seq(Seq(STRING) \ {<<>>})
    /\ Digits \in [Ids -> SUBSET Nat]

------------------------------------------------------------------------------
(* resolve_entities                                                          *)

IsWord(token) == token.kind = "word"
Alias(c, ends) == [kind |-> "alias", of |-> c, inflected |-> FALSE, ends |-> ends]
Redacted(ends) == [kind |-> "redacted", ends |-> ends]

\* The name begins at the i-th word, and no punctuation stands within it.
OccursAt(name, words, i) ==
    /\ i + Len(name) - 1 <= Len(words)
    /\ \A j \in DOMAIN name :
          /\ IsWord(words[i + j - 1]) /\ words[i + j - 1].stem = name[j]
          /\ j < Len(name) => ~words[i + j - 1].ends
Starts(name, words) == {i \in DOMAIN words : OccursAt(name, words, i)}
Span(name, i) == i .. i + Len(name) - 1

\* A finite set as a sequence, in a strict order.
InOrder(S, Before(_, _)) ==
    [n \in 1 .. Cardinality(S) |->
        CHOOSE x \in S : Cardinality({y \in S : Before(y, x)}) = n - 1]
Kept(tokens, gone) == InOrder(DOMAIN tokens \ gone, <)

\* Longest names first, so that a name within a longer one does not win; a stable sort.
ByLength ==
    InOrder(Ids, LAMBDA c, d : \/ Len(Customers[c]) > Len(Customers[d])
                               \/ Len(Customers[c]) = Len(Customers[d]) /\ c < d)

\* Only the first occurrence of a name counts, and only if no longer name has claimed a part.
Claim(words, acc, c) ==
    LET starts == Starts(Customers[c], words)
        first == CHOOSE i \in starts : \A j \in starts : i <= j
    IN  IF starts = {} \/ Span(Customers[c], first) \cap acc.claimed # {}
        THEN acc
        ELSE [claimed |-> acc.claimed \cup Span(Customers[c], first),
              found |-> Append(acc.found, [customer |-> c, at |-> first])]
Resolve(words) ==
    FoldLeft(LAMBDA acc, c : Claim(words, acc, c), [claimed |-> {}, found |-> <<>>],
             ByLength).found

------------------------------------------------------------------------------
(* mask_text and redact_unresolved_names                                     *)

\* str.replace: every occurrence of the very text that was matched, capitals included.
Pseudonymise(tokens, match, words) ==
    LET name == Customers[match.customer]
        spelt == [j \in DOMAIN name |-> words[match.at + j - 1].capital]
        same == {i \in Starts(name, tokens) :
                    \A j \in DOMAIN name : tokens[i + j - 1].capital = spelt[j]}
        gone == UNION {Span(name, i) \ {i} : i \in same}
        kept == Kept(tokens, gone)
    IN  [k \in DOMAIN kept |->
            IF kept[k] \in same THEN Alias(match.customer, tokens[kept[k] + Len(name) - 1].ends)
                                ELSE tokens[kept[k]]]

NameLike(token) == IsWord(token) /\ token.capital /\ token.stem \notin AllowList
StartsSentence(tokens, i) == i = 1 \/ tokens[i - 1].ends

\* The run of capitalised words that begins at i; it never crosses a sentence's end.
RunEnd(tokens, i) ==
    CHOOSE e \in i .. Len(tokens) :
        /\ \A j \in i + 1 .. e : NameLike(tokens[j]) /\ ~StartsSentence(tokens, j)
        /\ e < Len(tokens) => ~NameLike(tokens[e + 1]) \/ StartsSentence(tokens, e + 1)

\* The loop over the tokens goes from run to run; one of a single word at the start of a
\* sentence is left alone.
RedactLoneOnly(tokens, i) == ~StartsSentence(tokens, i)       \* mutant: runs of two pass too
ToRedact(tokens, i) == RunEnd(tokens, i) > i \/ ~StartsSentence(tokens, i)
BeginsRun(tokens, i) ==
    NameLike(tokens[i]) /\ (StartsSentence(tokens, i) \/ ~NameLike(tokens[i - 1]))
Spans(tokens) ==
    {<<i, RunEnd(tokens, i)>> :
        i \in {j \in DOMAIN tokens : BeginsRun(tokens, j) /\ ToRedact(tokens, j)}}

RedactNames(tokens) ==
    LET spans == Spans(tokens)
        gone == UNION {s[1] + 1 .. s[2] : s \in spans}
        kept == Kept(tokens, gone)
    IN  [k \in DOMAIN kept |->
            IF \E s \in spans : s[1] = kept[k]
            THEN Redacted(tokens[(CHOOSE s \in spans : s[1] = kept[k])[2]].ends)
            ELSE tokens[kept[k]]]

Unredacted(words) ==
    FoldLeft(LAMBDA tokens, match : Pseudonymise(tokens, match, words), words, Resolve(words))
MaskText(words) == RedactNames(Unredacted(words))

------------------------------------------------------------------------------
(* mask_customer_fields and collect_allowed_numbers                          *)

\* _FORBIDDEN_KEYS and the customer's name beside its id
MaskFields(d) == {f \in d : f.key # "contact"}
NamedIn(d) == {f.customer : f \in {g \in d : g.key = "customer_name"}}

\* A number is its integer part and the digits after its point, if it has one.
Stripped(digits) == SubSeq(digits, 1, CHOOSE n \in 0 .. Len(digits) :
                        /\ \A i \in n + 1 .. Len(digits) : digits[i] = 0
                        /\ n > 0 => digits[n] # 0)
Normalised(number) ==
    {number} \cup
    IF number.point = <<>> THEN {}
    ELSE {[whole |-> number.whole, point |-> Stripped(number.point)],
          [whole |-> number.whole, point |-> <<>>]}

\* Every string of the payload is searched, the pseudonyms in it too: theirs are the digits of
\* the customers it names, and of those the question was about.
AliasesIn(d) == {f.customer : f \in {g \in d : g.key \in {"customer_name", "asked_about"}}}
DigitsOf(c) == {[whole |-> n, point |-> <<>>] : n \in Digits[c]}
Allowed(d) ==
    UNION {Normalised(f.number) : f \in {g \in MaskFields(d) : g.key = "number"}}
      \cup UNION {DigitsOf(c) : c \in AliasesIn(d)}

------------------------------------------------------------------------------
(* check_number_contract and rehydrate                                       *)

\* The digits of a pseudonym count as numbers unless it stands in the nominative; they are
\* allowed if the pseudonym is in the payload.
NumbersIn(token) ==
    CASE token.kind = "number" -> {token.number}
      [] token.kind = "alias" /\ token.inflected -> DigitsOf(token.of)
      [] OTHER -> {}
Violations(tokens, d) ==
    {n \in UNION {NumbersIn(tokens[i]) : i \in DOMAIN tokens} : Normalised(n) \cap Allowed(d) = {}}

\* Any inflection of a registered pseudonym becomes the customer's name.
Rehydrate(tokens, known) ==
    [i \in DOMAIN tokens |->
        IF tokens[i].kind = "alias" /\ tokens[i].of \in known
        THEN [kind |-> "name", of |-> tokens[i].of] ELSE tokens[i]]
=============================================================================
