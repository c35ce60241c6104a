-------------------------------- MODULE MCIngest --------------------------------
(* An instance of Ingest for TLC: a first export, a later one that changes it, and one that   *)
(* contradicts itself.                                                                         *)
EXTENDS Ingest

K(sifra, naziv, jib, legal, segment, rep) ==
    [sifra |-> sifra, naziv |-> naziv, jib |-> jib, naziv_pravnog_lica |-> legal,
     segment |-> segment, komercijalista |-> rep]
A(sifra, naziv, aktivan) == [sifra |-> sifra, naziv |-> naziv, aktivan |-> aktivan]
F(no, customer, total) == [broj_fakture |-> no, sifra_kupca |-> customer, ukupno |-> total]
S(no, article, amount) == [broj_fakture |-> no, sifra_artikla |-> article, iznos |-> amount]

\* Two objects of one firm, an article named twice, a line under an alias, one of an article
\* that nobody knows, one without an amount and one of an invoice that is missing.
First == [kupci |-> <<K("k1", "Aria", "j1", "Aria doo", "hotel", "ana"),
                      K("k2", "Aria II", "j1", "Aria doo", "", "")>>,
          artikli |-> <<A("a1", "sapun", "da"), A("a1", "sapun 5l", "ne")>>,
          fakture |-> <<F("f1", "k1", "10")>>,
          stavke |-> <<S("f1", "a1", "4"), S("f1", "old", "6"), S("f1", "a9", "1"), S("f1", "a1", ""), S("f8", "a1", "2")>>]
\* The total changed, and the first customer lost its segment and has another representative;
\* an invoice of nobody and a new one with three decimals.
Later == [kupci |-> <<K("k1", "", "", "", "", "ivo")>>,
          artikli |-> <<A("a1", "sapun krem", "ne")>>,
          fakture |-> <<F("f1", "k1", "4"), F("f2", "k9", "7"), F("f3", "k1", "7.005")>>,
          stavke |-> <<S("f1", "a1", "4"), S("f3", "a1", "7.005")>>]
\* A code with two names, a firm with two, an invoice that is there twice, and rows without a
\* code or a number.
Contradictory == [kupci |-> <<K("k1", "Aria", "j1", "Aria doo", "hotel", ""),
                              K("k1", "Aria 2", "j1", "Aria d.o.o.", "hotel", "")>>,
                  artikli |-> <<A("", "bez sifre", "da")>>,
                  fakture |-> <<F("f1", "k1", "10"), F("f1", "k1", "11"), F("f3", "k1", "8"), F("", "k1", "3")>>,
                  stavke |-> <<S("f1", "a1", "4"), S("f1", "", "5"), S("", "a1", "3")>>]
MCExports == {First, Later, Contradictory}
MCAliases == [old |-> "a2"]
MCRounded == [amount \in {"7.005"} |-> "7.01"]

\* One customer, one article and one invoice whose total has three decimals.
Decimals == [kupci |-> <<K("k1", "Aria", "j1", "Aria doo", "hotel", "")>>,
             artikli |-> <<A("a1", "sapun", "da")>>,
             fakture |-> <<F("f1", "k1", "7.005")>>,
             stavke |-> <<S("f1", "a1", "7.005")>>]
MCDecimals == {Decimals}
=============================================================================
