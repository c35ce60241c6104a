--------------------------- MODULE IngestDetection_proofs ---------------------------
(***************************************************************************)
(* Proofs about the two jobs that write the tables everything else reads.  *)
(*                                                                         *)
(* Ingest, for any imports and exports: natural keys have one row, the     *)
(* lines of an invoice come from one import, and what an import loses is   *)
(* in its report, but for what imports that overlapped did to each other.  *)
(* The invariant relates what a running import has written, read and       *)
(* reported (Good) to what is committed (Committed).  Its hard step is     *)
(* Write: each of the passes over a file is shown to be a sequence of      *)
(* states, one after each row, and what is true of the dictionaries of the *)
(* pass is carried from one state to the next.  The same export again      *)
(* touches nothing (SInv): what a pass makes of the tables is settled, a   *)
(* second one over the same rows makes nothing else of it.                 *)
(*                                                                         *)
(* Detection, for any keys, rules, scanners and number of dismissals:      *)
(* no two open signals are about one thing, every assigned signal has      *)
(* exactly one task, and what is hidden is explained.  A scan writes at    *)
(* its end what it decided from what it read at its beginning, so each     *)
(* property rests on what stays true of that reading meanwhile (Reading),  *)
(* which in turn rests on no two scans overlapping (OneAtATime).           *)
(***************************************************************************)
EXTENDS Ingest, Detection, SequenceTheorems, FiniteSetTheorems, WellFoundedInduction, TLAPS

------------------------------------------------------------------------------
(* The inductive invariant of Ingest.                                        *)

\* The columns of each table, what the ids of its rows are made of, the phase that writes it.
Columns == [legal_entity |-> {"id", "key", "name"},
            customer |-> {"id", "key", "name", "segment", "entity"},
            customer_rep |-> {"id", "customer", "rep"},
            article |-> {"id", "key", "name", "active"},
            invoice |-> {"id", "key", "customer", "total"},
            invoice_line |-> {"id", "invoice", "by", "article", "amount"}]
Tags == [legal_entity |-> {"jib", "own"}, customer |-> {"customer"}, customer_rep |-> {"rep"},
         article |-> {"article"}, invoice |-> {"invoice"}, invoice_line |-> {"line"}]
PhaseOf == [legal_entity |-> 1, customer |-> 1, customer_rep |-> 1, article |-> 2,
            invoice |-> 3, invoice_line |-> 3]
Identified == Keyed \cup {"invoice_line"}
TxFields == {"pc", "export", "phase", "seen", "ins", "upd", "del", "doomed", "report"}

\* Rows of a table, each with an id of its own; the updates of a row leave its id and key alone.
IsRow(t, r) ==
    /\ DOMAIN r = Columns[t] /\ r = [f \in Columns[t] |-> r[f]]
    /\ r.id[2] \in Tags[t]
AreRows(t, rows) == \A r \in rows : IsRow(t, r)
UniqueIds(rows) == \A r, s \in rows : r.id = s.id => r = s
IsUpdate(u) ==
    /\ u.row.id = u.id /\ u.id[2] # "line" /\ "id" \notin u.columns
    /\ u.id[2] \in Keyed => "key" \notin u.columns
UniqueKeys(rows) == \A r, s \in rows : r.key = s.key => r = s

\* The tables and the transactions are records.
Shape ==
    /\ core = [t \in Tables |-> core[t]]
    /\ tx = [i \in Imports |-> tx[i]]
    /\ \A i \in Imports : DOMAIN tx[i] = TxFields

\* What is committed: rows of completed imports, with the properties to be proved.
Committed ==
    /\ \A t \in Tables : AreRows(t, core[t])
    /\ \A t \in Identified :
          /\ UniqueIds(core[t])
          /\ \A r \in core[t] : \/ r.id[1] = None
                                \/ r.id[1] \in Imports /\ tx[r.id[1]].pc = "completed"
    /\ \A l \in core["invoice_line"] : l.by = l.id[1]
    /\ \A c \in DOMAIN Aliases : \E a \in core["article"] : a.key = Aliases[c]
    /\ OneRowPerKey
    /\ LinesOfOneImport

\* Imports that are running at the same time are known to have overlapped.
Overlapping ==
    \A i, j \in Imports : i # j /\ Running(i) /\ Running(j) => {i, j} \in overlaps

\* What a running import has written: rows of its own, in the tables of the passes it has done,
\* and deletions only in the last one.
Written(i) ==
    /\ tx[i].export \in Exports /\ tx[i].phase \in 1 .. 3
    /\ tx[i].pc = "written" => tx[i].phase = 3
    /\ DOMAIN tx[i].ins = Tables
    /\ \A t \in Tables : AreRows(t, tx[i].ins[t])
    /\ \A t \in Identified : UniqueIds(tx[i].ins[t]) /\ \A r \in tx[i].ins[t] : r.id[1] = i
    /\ \A l \in tx[i].ins["invoice_line"] : l.by = i
    /\ \A u \in tx[i].upd : IsUpdate(u)
    /\ \A d \in tx[i].del : d[2] = "line"
    /\ tx[i].pc # "written" =>
          /\ tx[i].del = {}
          /\ \A t \in Tables : PhaseOf[t] >= tx[i].phase =>
                tx[i].ins[t] = {} /\ \A u \in tx[i].upd : u.id[2] \notin Tags[t]

\* The keys it has inserted are new: no other row has them, unless it is a customer of an import
\* that overlapped; a code that is indexed is not even in two transactions.
KeysApart(i) ==
    /\ \A t \in Keyed : UniqueKeys(tx[i].ins[t])
    /\ \A t \in {"article", "invoice"} : \A r \in tx[i].ins[t] :
          r.key # Blank /\ \A s \in core[t] : s.key # r.key
    /\ \A r \in tx[i].ins["customer"], s \in core["customer"] :
          r.key = s.key => {i, s.id[1]} \in overlaps
    /\ \A j \in Imports \ {i}, t \in {"article", "invoice"} :
          Running(j) => \A r \in tx[i].ins[t], s \in tx[j].ins[t] : r.key # s.key

\* What it has read for the pass it is in: rows that are still there, and every customer that no
\* import that overlapped has committed.
Snapshot(i) ==
    /\ DOMAIN tx[i].seen = Tables
    /\ \A t \in Tables : AreRows(t, tx[i].seen[t])
    /\ \A t \in Keyed :
          /\ UniqueIds(tx[i].seen[t]) /\ UniqueKeys(tx[i].seen[t])
          /\ \A r \in tx[i].seen[t] :
                \E s \in core[t] \cup tx[i].ins[t] : s.id = r.id /\ s.key = r.key
    /\ tx[i].phase = 1 => \A s \in core["customer"] :
          (\E r \in tx[i].seen["customer"] : r.key = s.key) \/ {i, s.id[1]} \in overlaps
\* The lines it is going to delete are other imports', and all but those committed meanwhile.
Doomed(i) ==
    /\ AreRows("invoice_line", tx[i].doomed) /\ UniqueIds(tx[i].doomed)
    /\ \A l \in tx[i].doomed : l.id[1] # i /\ l.by = l.id[1]
    /\ \A l \in core["invoice_line"] : l \in tx[i].doomed \/ {i, l.by} \in overlaps
\* It has lines for an invoice that others have lines for only if it deletes those, or overlapped.
ReplacesLines(i) ==
    \A l \in tx[i].ins["invoice_line"], m \in core["invoice_line"] :
        l.invoice = m.invoice => m.id \in tx[i].del \/ {i, m.by} \in overlaps

\* What it has reported covers what it has left out or overwritten so far.
Known(i, code) == \E a \in core["article"] \cup tx[i].ins["article"] : a.key = code
Reported(i) ==
    /\ tx[i].report.duplicates = DuplicateCodes(tx[i].export.artikli)
    /\ tx[i].report.unsegmented = MissingSegments(tx[i].export)
    /\ Alone(i) => tx[i].report.renamed = RenamedArticles(tx[i].export)
    /\ \A k \in DOMAIN tx[i].export.stavke \ tx[i].report.orphans :
          /\ tx[i].export.stavke[k].broj_fakture \in Invoices(tx[i].export)
          /\ tx[i].export.stavke[k].sifra_artikla \in KnownArticles(tx[i].export)
    /\ SegmentsAreFlagged(i)
    /\ tx[i].phase = 3 =>
          /\ \A row \in ToSet(tx[i].export.artikli) : row.sifra # Blank => Known(i, row.sifra)
          /\ Alone(i) => NamesAreFlagged(i)
    /\ tx[i].pc = "written" => LinesAreFlagged(i)
\* And what it has read covers what it has not reported.
ReadReported(i) ==
    /\ tx[i].phase = 2 /\ Alone(i) => tx[i].seen["article"] = core["article"]
    /\ tx[i].phase = 3 =>
          \A k \in DOMAIN tx[i].export.stavke \ tx[i].report.orphans :
             ArticleIds(tx[i].seen, tx[i].export.stavke[k].sifra_artikla) # {}

\* All of it, for an import that is running.
Good(i) ==
    Running(i) =>
        /\ Written(i) /\ KeysApart(i) /\ ReplacesLines(i) /\ Reported(i)
        /\ tx[i].pc \in {"writing", "waiting"} => Snapshot(i) /\ ReadReported(i)
        /\ tx[i].pc = "waiting" => Doomed(i)
IInv == Shape /\ Committed /\ Overlapping /\ \A i \in Imports : Good(i)

------------------------------------------------------------------------------
(* Passes over the rows of a file.                                           *)

\* A set of numbers has a least one.
LEMMA LeastOne ==
  ASSUME NEW T, T \subseteq Nat, T # {}
  PROVE  \E x \in T : \A y \in T : x <= y
<1> DEFINE R == OpToRel(<, Nat)
<1>1. IsWellFoundedOn(R, Nat)  BY NatLessThanWellFounded
<1>2. \A x, y \in Nat : y < x => <<y, x>> \in R  BY DEF OpToRel
<1> HIDE DEF R
<1>3. \E x \in T : \A y \in T : ~(<<y, x>> \in R)  BY <1>1, WFMin
<1>4. PICK x \in T : \A y \in T : ~(<<y, x>> \in R)  BY <1>3
<1>5. ASSUME NEW y \in T PROVE x <= y
  <2>1. x \in Nat /\ y \in Nat  OBVIOUS
  <2>2. ~(y < x)  BY <1>2, <1>4, <2>1
  <2> QED  BY <2>1, <2>2
<1> QED  BY <1>5

\* What is so at 0 and passes from each number to the next is so up to n.
LEMMA CountingUp ==
  ASSUME NEW n \in Nat, NEW G, 0 \in G, \A k \in 1 .. n : k - 1 \in G => k \in G
  PROVE  \A k \in 0 .. n : k \in G
<1> DEFINE Bad == {k \in 0 .. n : k \notin G}
<1> SUFFICES ASSUME Bad # {} PROVE FALSE
  OBVIOUS
<1>1. Bad \subseteq Nat  OBVIOUS
<1>2. PICK k \in Bad : \A l \in Bad : k <= l  BY <1>1, LeastOne
<1>3. k \in 1 .. n /\ k - 1 \in 0 .. n /\ ~(k <= k - 1)  BY <1>2
<1> QED  BY <1>2, <1>3

\* The four passes, F, and what each makes of its next row.
Upsert(F, acc, row) ==
    CASE F.of = "entities" -> UpsertEntity(F.by, acc, row)
      [] F.of = "customers" -> UpsertCustomer(F.by, acc, row)
      [] F.of = "articles" -> UpsertArticle(F.by, acc, row)
      [] F.of = "invoices" -> UpsertInvoice(F.by, acc, row, F.stavke)
IsPass(h, F, base, rows, S) ==
    h = [s \in SUBSET S |-> IF s = {} THEN base ELSE Upsert(F, h[s \ {Max(s)}], rows[Max(s)])]

\* A pass over one row more.
LEMMA OneRowMore ==
  ASSUME NEW F, NEW base, NEW rows, NEW n \in Nat \ {0},
         NEW h, IsPass(h, F, base, rows, 1 .. n - 1)
  PROVE  \E g : IsPass(g, F, base, rows, 1 .. n)
<1> DEFINE g == [s \in SUBSET (1 .. n) |-> IF n \in s THEN Upsert(F, h[s \ {n}], rows[n]) ELSE h[s]]
<1>1. ASSUME NEW s \in SUBSET (1 .. n)
      PROVE  g[s] = IF s = {} THEN base ELSE Upsert(F, g[s \ {Max(s)}], rows[Max(s)])
  <2>1. CASE n \in s
    <3>1. Max(s) = n
      <4>1. \A x \in s : n >= x  OBVIOUS
      <4>2. \A x \in s : (\A y \in s : x >= y) => x = n  BY <2>1
      <4> QED  BY <2>1, <4>1, <4>2 DEF Max
    <3>2. s \ {n} \in SUBSET (1 .. n) /\ n \notin s \ {n}  OBVIOUS
    <3>3. g[s \ {n}] = h[s \ {n}]  BY <3>2
    <3>4. g[s] = Upsert(F, h[s \ {n}], rows[n])  BY <2>1
    <3> HIDE DEF g
    <3> QED  BY <2>1, <3>1, <3>3, <3>4
  <2>2. CASE n \notin s
    <3>1. s \in SUBSET (1 .. n - 1)  BY <2>2
    <3>2. s \ {Max(s)} \in SUBSET (1 .. n) /\ n \notin s \ {Max(s)}  BY <2>2
    <3>3. g[s] = h[s] /\ g[s \ {Max(s)}] = h[s \ {Max(s)}]  BY <2>2, <3>2
    <3> HIDE DEF g
    <3>4. h[s] = IF s = {} THEN base ELSE Upsert(F, h[s \ {Max(s)}], rows[Max(s)])
      BY <3>1 DEF IsPass
    <3> QED  BY <3>3, <3>4
  <2> QED  BY <2>1, <2>2
<1>2. g = [s \in SUBSET (1 .. n) |-> g[s]]  OBVIOUS
<1> HIDE DEF g
<1>3. IsPass(g, F, base, rows, 1 .. n)  BY <1>1, <1>2 DEF IsPass
<1> QED  BY <1>3

\* Each pass has its sequence of states, for it ends after the last row.
LEMMA PassExists ==
  ASSUME NEW F, NEW base, NEW rows, NEW n \in Nat
  PROVE  \E h : IsPass(h, F, base, rows, 1 .. n)
<1> DEFINE G == {k \in 0 .. n : \E h : IsPass(h, F, base, rows, 1 .. k)}
<1>1. 0 \in G
  <2> DEFINE h == [s \in SUBSET (1 .. 0) |-> base]
  <2>1. \A s \in SUBSET (1 .. 0) : s = {}  OBVIOUS
  <2>2. IsPass(h, F, base, rows, 1 .. 0)  BY <2>1 DEF IsPass
  <2> QED  BY <2>2
<1>2. ASSUME NEW k \in 1 .. n, k - 1 \in G PROVE k \in G
  <2>1. k \in Nat \ {0} /\ k \in 0 .. n  OBVIOUS
  <2>2. \E g : IsPass(g, F, base, rows, 1 .. k)  BY <1>2, <2>1, OneRowMore
  <2> QED  BY <2>1, <2>2
<1> HIDE DEF G
<1>3. \A k \in 0 .. n : k \in G  BY <1>1, <1>2, CountingUp
<1>4. n \in G  BY <1>3
<1> QED  BY <1>4 DEF G

\* A pass is a sequence of states, one after each row.
Through(g, F, base, rows, n) ==
    /\ g[0] = base
    /\ \A k \in 1 .. n : g[k] = Upsert(F, g[k - 1], rows[k])
LEMMA PassStates ==
  ASSUME NEW F, NEW base, NEW rows, NEW n \in Nat, NEW h, IsPass(h, F, base, rows, 1 .. n)
  PROVE  \E g : Through(g, F, base, rows, n) /\ g[n] = h[1 .. n]
<1> DEFINE g == [k \in 0 .. n |-> h[1 .. k]]
<1>1. IsPass(h, F, base, rows, 1 .. n)  OBVIOUS
<1>2. g[0] = base
  <2>1. g[0] = h[1 .. 0] /\ 1 .. 0 = {} /\ {} \in SUBSET (1 .. n)  OBVIOUS
  <2> QED  BY <1>1, <2>1 DEF IsPass
<1>3. ASSUME NEW k \in 1 .. n PROVE g[k] = Upsert(F, g[k - 1], rows[k])
  <2>1. g[k] = h[1 .. k] /\ g[k - 1] = h[1 .. k - 1]  OBVIOUS
  <2>2. 1 .. k \in SUBSET (1 .. n) /\ 1 .. k # {}  OBVIOUS
  <2>3. Max(1 .. k) = k
    <3>1. k \in 1 .. k /\ \A x \in 1 .. k : k >= x  OBVIOUS
    <3>2. \A x \in 1 .. k : (\A y \in 1 .. k : x >= y) => x = k  OBVIOUS
    <3> QED  BY <3>1, <3>2 DEF Max
  <2>4. (1 .. k) \ {k} = 1 .. k - 1  OBVIOUS
  <2>5. h[1 .. k] = Upsert(F, h[(1 .. k) \ {Max(1 .. k)}], rows[Max(1 .. k)])
    BY <1>1, <2>2 DEF IsPass
  <2> HIDE DEF g
  <2> QED  BY <2>1, <2>3, <2>4, <2>5
<1>4. g[n] = h[1 .. n]  OBVIOUS
<1> HIDE DEF g
<1>5. Through(g, F, base, rows, n)  BY <1>2, <1>3 DEF Through
<1> QED  BY <1>4, <1>5

\* The states that each pass goes through, and what it ends with.
EntityStates(g, i, seen, kupci, n) ==
    /\ g[0] = seen
    /\ \A k \in 1 .. n : g[k] = UpsertEntity(i, g[k - 1], kupci[k])
    /\ UpsertEntities(i, seen, kupci) = g[n]
LEMMA EntitiesStates ==
  ASSUME NEW i, NEW seen, NEW kupci, NEW n \in Nat, DOMAIN kupci = 1 .. n
  PROVE  \E g : EntityStates(g, i, seen, kupci, n)
<1> DEFINE F == [of |-> "entities", by |-> i, stavke |-> <<>>]
           h == CHOOSE h : h = [s \in SUBSET DOMAIN kupci |->
                    IF s = {} THEN seen
                    ELSE UpsertEntity(i, h[s \ {Max(s)}], kupci[Max(s)])]
<1>1. UpsertEntities(i, seen, kupci) = h[DOMAIN kupci]
  BY DEF UpsertEntities, FoldLeft, MapThenFoldSet
<1>2. \A acc, row : Upsert(F, acc, row) = UpsertEntity(i, acc, row)  BY DEF Upsert
<1> HIDE DEF F
<1>3. IsPass(h, F, seen, kupci, 1 .. n)
  <2>1. PICK k : IsPass(k, F, seen, kupci, 1 .. n)  BY PassExists
  <2>2. k = [s \in SUBSET DOMAIN kupci |->
               IF s = {} THEN seen ELSE UpsertEntity(i, k[s \ {Max(s)}], kupci[Max(s)])]
    BY <1>2, <2>1 DEF IsPass
  <2>3. h = [s \in SUBSET DOMAIN kupci |->
               IF s = {} THEN seen ELSE UpsertEntity(i, h[s \ {Max(s)}], kupci[Max(s)])]
    BY <2>2
  <2> HIDE DEF h
  <2> QED  BY <1>2, <2>3 DEF IsPass
<1> HIDE DEF h
<1>4. PICK g : Through(g, F, seen, kupci, n) /\ g[n] = h[1 .. n]
  BY <1>3, PassStates
<1> QED  BY <1>1, <1>2, <1>4 DEF Through, EntityStates

CustomerStates(g, i, seen, kupci, n) ==
    /\ g[0] = UpsertEntities(i, seen, kupci)
    /\ \A k \in 1 .. n : g[k] = UpsertCustomer(i, g[k - 1], kupci[k])
    /\ UpsertCustomers(i, seen, kupci) = g[n]
LEMMA CustomersStates ==
  ASSUME NEW i, NEW seen, NEW kupci, NEW n \in Nat, DOMAIN kupci = 1 .. n
  PROVE  \E g : CustomerStates(g, i, seen, kupci, n)
<1> DEFINE F == [of |-> "customers", by |-> i, stavke |-> <<>>]
           h == CHOOSE h : h = [s \in SUBSET DOMAIN kupci |->
                    IF s = {} THEN UpsertEntities(i, seen, kupci)
                    ELSE UpsertCustomer(i, h[s \ {Max(s)}], kupci[Max(s)])]
<1>1. UpsertCustomers(i, seen, kupci) = h[DOMAIN kupci]
  BY DEF UpsertCustomers, FoldLeft, MapThenFoldSet
<1>2. \A acc, row : Upsert(F, acc, row) = UpsertCustomer(i, acc, row)  BY DEF Upsert
<1> HIDE DEF F
<1>3. IsPass(h, F, UpsertEntities(i, seen, kupci), kupci, 1 .. n)
  <2>1. PICK k : IsPass(k, F, UpsertEntities(i, seen, kupci), kupci, 1 .. n)  BY PassExists
  <2>2. k = [s \in SUBSET DOMAIN kupci |->
               IF s = {} THEN UpsertEntities(i, seen, kupci)
               ELSE UpsertCustomer(i, k[s \ {Max(s)}], kupci[Max(s)])]
    BY <1>2, <2>1 DEF IsPass
  <2>3. h = [s \in SUBSET DOMAIN kupci |->
               IF s = {} THEN UpsertEntities(i, seen, kupci)
               ELSE UpsertCustomer(i, h[s \ {Max(s)}], kupci[Max(s)])]
    BY <2>2
  <2> HIDE DEF h
  <2> QED  BY <1>2, <2>3 DEF IsPass
<1> HIDE DEF h
<1>4. PICK g : Through(g, F, UpsertEntities(i, seen, kupci), kupci, n) /\ g[n] = h[1 .. n]
  BY <1>3, PassStates
<1> QED  BY <1>1, <1>2, <1>4 DEF Through, CustomerStates

ArticleStates(g, i, seen, artikli, n) ==
    /\ g[0] = [want |-> seen, codes |-> {}]
    /\ \A k \in 1 .. n : g[k] = UpsertArticle(i, g[k - 1], artikli[k])
    /\ UpsertArticles(i, seen, artikli) = g[n].want
LEMMA ArticlesStates ==
  ASSUME NEW i, NEW seen, NEW artikli, NEW n \in Nat, DOMAIN artikli = 1 .. n
  PROVE  \E g : ArticleStates(g, i, seen, artikli, n)
<1> DEFINE F == [of |-> "articles", by |-> i, stavke |-> <<>>]
           h == CHOOSE h : h = [s \in SUBSET DOMAIN artikli |->
                    IF s = {} THEN [want |-> seen, codes |-> {}]
                    ELSE UpsertArticle(i, h[s \ {Max(s)}], artikli[Max(s)])]
<1>1. UpsertArticles(i, seen, artikli) = h[DOMAIN artikli].want
  BY DEF UpsertArticles, FoldLeft, MapThenFoldSet
<1>2. \A acc, row : Upsert(F, acc, row) = UpsertArticle(i, acc, row)  BY DEF Upsert
<1> HIDE DEF F
<1>3. IsPass(h, F, [want |-> seen, codes |-> {}], artikli, 1 .. n)
  <2>1. PICK k : IsPass(k, F, [want |-> seen, codes |-> {}], artikli, 1 .. n)  BY PassExists
  <2>2. k = [s \in SUBSET DOMAIN artikli |->
               IF s = {} THEN [want |-> seen, codes |-> {}]
               ELSE UpsertArticle(i, k[s \ {Max(s)}], artikli[Max(s)])]
    BY <1>2, <2>1 DEF IsPass
  <2>3. h = [s \in SUBSET DOMAIN artikli |->
               IF s = {} THEN [want |-> seen, codes |-> {}]
               ELSE UpsertArticle(i, h[s \ {Max(s)}], artikli[Max(s)])]
    BY <2>2
  <2> HIDE DEF h
  <2> QED  BY <1>2, <2>3 DEF IsPass
<1> HIDE DEF h
<1>4. PICK g : Through(g, F, [want |-> seen, codes |-> {}], artikli, n) /\ g[n] = h[1 .. n]
  BY <1>3, PassStates
<1> QED  BY <1>1, <1>2, <1>4 DEF Through, ArticleStates

InvoiceStates(g, i, seen, fakture, stavke, n) ==
    /\ g[0] = [want |-> seen, fresh |-> {}, clash |-> FALSE]
    /\ \A k \in 1 .. n : g[k] = UpsertInvoice(i, g[k - 1], fakture[k], stavke)
    /\ UpsertInvoices(i, seen, fakture, stavke) = g[n]
LEMMA InvoicesStates ==
  ASSUME NEW i, NEW seen, NEW fakture, NEW stavke, NEW n \in Nat, DOMAIN fakture = 1 .. n
  PROVE  \E g : InvoiceStates(g, i, seen, fakture, stavke, n)
<1> DEFINE F == [of |-> "invoices", by |-> i, stavke |-> stavke]
           h == CHOOSE h : h = [s \in SUBSET DOMAIN fakture |->
                    IF s = {} THEN [want |-> seen, fresh |-> {}, clash |-> FALSE]
                    ELSE UpsertInvoice(i, h[s \ {Max(s)}], fakture[Max(s)], stavke)]
<1>1. UpsertInvoices(i, seen, fakture, stavke) = h[DOMAIN fakture]
  BY DEF UpsertInvoices, FoldLeft, MapThenFoldSet
<1>2. \A acc, row : Upsert(F, acc, row) = UpsertInvoice(i, acc, row, stavke)  BY DEF Upsert
<1> HIDE DEF F
<1>3. IsPass(h, F, [want |-> seen, fresh |-> {}, clash |-> FALSE], fakture, 1 .. n)
  <2>1. PICK k : IsPass(k, F, [want |-> seen, fresh |-> {}, clash |-> FALSE], fakture, 1 .. n)
    BY PassExists
  <2>2. k = [s \in SUBSET DOMAIN fakture |->
               IF s = {} THEN [want |-> seen, fresh |-> {}, clash |-> FALSE]
               ELSE UpsertInvoice(i, k[s \ {Max(s)}], fakture[Max(s)], stavke)]
    BY <1>2, <2>1 DEF IsPass
  <2>3. h = [s \in SUBSET DOMAIN fakture |->
               IF s = {} THEN [want |-> seen, fresh |-> {}, clash |-> FALSE]
               ELSE UpsertInvoice(i, h[s \ {Max(s)}], fakture[Max(s)], stavke)]
    BY <2>2
  <2> HIDE DEF h
  <2> QED  BY <1>2, <2>3 DEF IsPass
<1> HIDE DEF h
<1>4. PICK g : Through(g, F, [want |-> seen, fresh |-> {}, clash |-> FALSE], fakture, n) /\ g[n] = h[1 .. n]
  BY <1>3, PassStates
<1> QED  BY <1>1, <1>2, <1>4 DEF Through, InvoiceStates

------------------------------------------------------------------------------
(* Rows.                                                                     *)

\* Columns and tags by table.
LEMMA Schema ==
  /\ Columns["legal_entity"] = {"id", "key", "name"}
  /\ Columns["customer"] = {"id", "key", "name", "segment", "entity"}
  /\ Columns["customer_rep"] = {"id", "customer", "rep"}
  /\ Columns["article"] = {"id", "key", "name", "active"}
  /\ Columns["invoice"] = {"id", "key", "customer", "total"}
  /\ Columns["invoice_line"] = {"id", "invoice", "by", "article", "amount"}
  /\ Tags["legal_entity"] = {"jib", "own"} /\ Tags["customer"] = {"customer"}
  /\ Tags["customer_rep"] = {"rep"} /\ Tags["article"] = {"article"}
  /\ Tags["invoice"] = {"invoice"} /\ Tags["invoice_line"] = {"line"}
  /\ Tables = {"legal_entity", "customer", "customer_rep", "article", "invoice", "invoice_line"}
  /\ Keyed = {"customer", "article", "invoice"}
BY DEF Columns, Tags, Tables, Keyed

\* A row with another value in a column is a row.
LEMMA RowChanged ==
  ASSUME NEW t \in Tables, NEW r, IsRow(t, r), NEW q, DOMAIN q = DOMAIN r,
         q = [f \in DOMAIN r |-> q[f]], q.id = r.id
  PROVE  IsRow(t, q)
BY DEF IsRow

\* A row of the customers adds a legal entity or none, and changes only what is not its own.
LEMMA EntityStep ==
  ASSUME NEW i, NEW want, NEW row, DOMAIN want = Tables, AreRows("legal_entity", want["legal_entity"])
  PROVE  LET next == UpsertEntity(i, want, row)
         IN  /\ DOMAIN next = Tables
             /\ \A t \in Tables \ {"legal_entity"} : next[t] = want[t]
             /\ AreRows("legal_entity", next["legal_entity"])
<1> DEFINE known == Find(want["legal_entity"], row.jib)
           name == OrKeep(row.naziv_pravnog_lica, row.naziv)
           new == [id |-> <<i, "jib", row.jib, 0>>, key |-> row.jib, name |-> name]
           renamed == [The(known) EXCEPT !.name = OrKeep(row.naziv_pravnog_lica, @)]
           rows == IF known = {} THEN want["legal_entity"] \cup {new}
                   ELSE Replaced(want["legal_entity"], renamed)
<1>1. UpsertEntity(i, want, row) =
         IF row.jib = Blank THEN want ELSE [want EXCEPT !["legal_entity"] = rows]
  BY DEF UpsertEntity
<1>2. IsRow("legal_entity", new)  BY Schema DEF IsRow
<1>3. known # {} => IsRow("legal_entity", renamed)
  <2> SUFFICES ASSUME known # {} PROVE IsRow("legal_entity", renamed)
    OBVIOUS
  <2>1. The(known) \in known  BY DEF The
  <2>2. IsRow("legal_entity", The(known))  BY <2>1 DEF AreRows, Find
  <2> HIDE DEF known
  <2>3. DOMAIN renamed = DOMAIN The(known) /\ renamed.id = The(known).id
    BY <2>2, Schema DEF IsRow
  <2>4. renamed = [f \in DOMAIN The(known) |-> renamed[f]]  OBVIOUS
  <2> HIDE DEF renamed
  <2> QED  BY <2>2, <2>3, <2>4, RowChanged, Schema
<1>4. AreRows("legal_entity", rows)
  <2> HIDE DEF new, renamed, known
  <2> QED  BY <1>2, <1>3 DEF AreRows, Replaced
<1> HIDE DEF rows
<1> QED  BY <1>1, <1>4, Schema

------------------------------------------------------------------------------
(* What a pass makes of a table with a natural key.                          *)

\* Rows that were read keep their ids and keys; a new row has a key that none had.
Extends(i, t, old, rows) ==
    /\ AreRows(t, rows) /\ UniqueIds(rows) /\ UniqueKeys(rows)
    /\ \A r \in rows : \/ \E s \in old : s.id = r.id /\ s.key = r.key
                       \/ r.id = <<i, t, r.key, 0>> /\ r.key # Blank
    /\ \A s \in old : \E r \in rows : r.id = s.id
Others(i, rows) == \A r \in rows : r.id[1] # i

\* What was read extends itself.
LEMMA ExtendsSelf ==
  ASSUME NEW i, NEW t, NEW old, AreRows(t, old), UniqueIds(old), UniqueKeys(old)
  PROVE  Extends(i, t, old, old)
BY DEF Extends

\* A row that is known is updated.
LEMMA ExtendsUpdated ==
  ASSUME NEW i, NEW t, NEW old, NEW rows, Extends(i, t, old, rows),
         NEW known \in rows, NEW row, IsRow(t, row), row.id = known.id, row.key = known.key
  PROVE  Extends(i, t, old, Replaced(rows, row))
<1>1. AreRows(t, Replaced(rows, row))  BY DEF Extends, AreRows, Replaced
<1>2. UniqueIds(Replaced(rows, row))  BY DEF Extends, UniqueIds, Replaced
<1>3. UniqueKeys(Replaced(rows, row))
  <2>1. \A r \in rows : r.key = row.key => r.id = row.id  BY DEF Extends, UniqueKeys
  <2> QED  BY <2>1 DEF Extends, UniqueKeys, Replaced
<1>4. \A r \in Replaced(rows, row) :
         \/ \E s \in old : s.id = r.id /\ s.key = r.key
         \/ r.id = <<i, t, r.key, 0>> /\ r.key # Blank
  <2>1. \/ \E s \in old : s.id = row.id /\ s.key = row.key
        \/ row.id = <<i, t, row.key, 0>> /\ row.key # Blank
    BY DEF Extends
  <2> QED  BY <2>1 DEF Extends, Replaced
<1>5. \A s \in old : \E r \in Replaced(rows, row) : r.id = s.id
  BY DEF Extends, Replaced
<1> QED  BY <1>1, <1>2, <1>3, <1>4, <1>5 DEF Extends

\* A row that is not known is inserted.
LEMMA ExtendsInserted ==
  ASSUME NEW i, NEW t, NEW old, Others(i, old), NEW rows, Extends(i, t, old, rows),
         NEW row, IsRow(t, row), row.id = <<i, t, row.key, 0>>, row.key # Blank,
         \A r \in rows : r.key # row.key
  PROVE  /\ Extends(i, t, old, Replaced(rows, row))
         /\ Replaced(rows, row) = rows \cup {row}
         /\ \A r \in rows : r.id # row.id
<1>1. \A r \in rows : r.id # row.id
  <2> SUFFICES ASSUME NEW r \in rows, r.id = row.id PROVE FALSE
    OBVIOUS
  <2>1. r.id[1] = i /\ r.id[3] = row.key  OBVIOUS
  <2>2. \A s \in old : s.id # r.id  BY <2>1 DEF Others
  <2>3. r.id = <<i, t, r.key, 0>>  BY <2>2 DEF Extends
  <2>4. r.id[3] = r.key  BY <2>3
  <2> QED  BY <2>1, <2>4
<1>2. Replaced(rows, row) = rows \cup {row}  BY <1>1 DEF Replaced
<1>3. AreRows(t, rows \cup {row}) /\ UniqueIds(rows \cup {row}) /\ UniqueKeys(rows \cup {row})
  BY <1>1 DEF Extends, AreRows, UniqueIds, UniqueKeys
<1>4. Extends(i, t, old, rows \cup {row})  BY <1>3 DEF Extends
<1> QED  BY <1>1, <1>2, <1>4

\* What was read is still there, with its key.
LEMMA ExtendsKeeps ==
  ASSUME NEW i, NEW t, NEW old, Others(i, old), UniqueIds(old), NEW rows, Extends(i, t, old, rows),
         NEW s \in old
  PROVE  \E r \in rows : r.id = s.id /\ r.key = s.key
<1>1. PICK r \in rows : r.id = s.id  BY DEF Extends
<1>2. r.id # <<i, t, r.key, 0>>  BY <1>1 DEF Others
<1>3. PICK o \in old : o.id = r.id /\ o.key = r.key  BY <1>2 DEF Extends
<1> QED  BY <1>1, <1>3 DEF UniqueIds

\* A key that none had is the key of new rows.
LEMMA NewKeys ==
  ASSUME NEW i, NEW t, NEW old, Others(i, old), UniqueIds(old), NEW rows, Extends(i, t, old, rows)
  PROVE  \A r \in rows : ~Has(old, r.id) =>
            r.id = <<i, t, r.key, 0>> /\ r.key # Blank /\ \A s \in old : s.key # r.key
<1> SUFFICES ASSUME NEW r \in rows, ~Has(old, r.id)
             PROVE  r.id = <<i, t, r.key, 0>> /\ r.key # Blank /\ \A s \in old : s.key # r.key
  OBVIOUS
<1>0. \A s \in old : s.id # r.id  BY DEF Has
<1>1. r.id = <<i, t, r.key, 0>> /\ r.key # Blank  BY <1>0 DEF Extends
<1>2. ASSUME NEW s \in old, s.key = r.key PROVE FALSE
  <2>1. PICK q \in rows : q.id = s.id /\ q.key = s.key  BY ExtendsKeeps
  <2>2. q = r  BY <1>2, <2>1 DEF Extends, UniqueKeys
  <2> QED  BY <1>0, <2>1, <2>2
<1> QED  BY <1>1, <1>2

------------------------------------------------------------------------------
(* The customers.                                                            *)

\* A customer has the segment that was read or one that a row of the file gives it.
SegmentsFrom(kupci, old, rows) ==
    \A r \in rows, s \in old : r.id = s.id =>
        \/ r.segment = s.segment
        \/ \E k \in DOMAIN kupci : kupci[k].sifra = r.key /\ kupci[k].segment = r.segment
CustomersPass(i, now, kupci, want) ==
    /\ DOMAIN want = Tables
    /\ \A t \in Tables \ {"legal_entity", "customer", "customer_rep"} : want[t] = now[t]
    /\ AreRows("legal_entity", want["legal_entity"])
    /\ AreRows("customer_rep", want["customer_rep"])
    /\ Extends(i, "customer", now["customer"], want["customer"])
    /\ SegmentsFrom(kupci, now["customer"], want["customer"])

\* The next row of the file leaves CustomersPass true.
LEMMA CustomerStep ==
  ASSUME NEW i, NEW now, NEW kupci, NEW want, CustomersPass(i, now, kupci, want),
         Others(i, now["customer"]), UniqueIds(now["customer"]), NEW k \in DOMAIN kupci
  PROVE  CustomersPass(i, now, kupci, UpsertCustomer(i, want, kupci[k]))
<1> DEFINE row == kupci[k]
           rows == want["customer"]
           entity == IF row.jib = Blank THEN {} ELSE Find(want["legal_entity"], row.jib)
           known == Find(rows, row.sifra)
           own == [id |-> <<i, "own", row.sifra, 0>>, key |-> Blank, name |-> OrKeep(row.naziv, row.sifra)]
           new == [id |-> <<i, "customer", row.sifra, 0>>, key |-> row.sifra,
                   name |-> OrKeep(row.naziv, row.sifra), segment |-> row.segment,
                   entity |-> IF entity = {} THEN own.id ELSE The(entity).id]
           changed == [The(known) EXCEPT !.name = OrKeep(row.naziv, @), !.segment = row.segment,
                                         !.entity = IF entity = {} THEN @ ELSE The(entity).id]
           customer == IF known = {} THEN new ELSE changed
           rep == [id |-> <<i, "rep", row.sifra, 0>>, customer |-> customer.id,
                   rep |-> row.komercijalista]
           entities == IF known = {} /\ entity = {} THEN want["legal_entity"] \cup {own}
                       ELSE want["legal_entity"]
           reps == IF row.komercijalista = Blank \/ Assigned(want, customer.id)
                   THEN want["customer_rep"] ELSE want["customer_rep"] \cup {rep}
           next == UpsertCustomer(i, want, row)
<1>1. CASE row.sifra = Blank
  <2>1. next = want  BY <1>1 DEF UpsertCustomer
  <2> QED  BY <2>1
<1>2. CASE row.sifra # Blank
  <2>1. next = [want EXCEPT !["customer"] = Replaced(rows, customer),
                            !["legal_entity"] = entities, !["customer_rep"] = reps]
    BY <1>2 DEF UpsertCustomer
  <2>2. IsRow("legal_entity", own)  BY Schema DEF IsRow
  <2>3. IsRow("customer_rep", rep)  BY Schema DEF IsRow
  <2>4. AreRows("legal_entity", entities) /\ AreRows("customer_rep", reps)
    <3> HIDE DEF own, rep
    <3> QED  BY <2>2, <2>3 DEF CustomersPass, AreRows
  <2>5. Extends(i, "customer", now["customer"], rows)  BY DEF CustomersPass
  <2>6. known # {} => /\ The(known) \in rows /\ The(known).key = row.sifra
                      /\ IsRow("customer", changed) /\ changed.id = The(known).id
                      /\ changed.key = row.sifra /\ changed.segment = row.segment
    <3> SUFFICES ASSUME known # {}
                 PROVE  /\ The(known) \in rows /\ The(known).key = row.sifra
                        /\ IsRow("customer", changed) /\ changed.id = The(known).id
                        /\ changed.key = row.sifra /\ changed.segment = row.segment
      OBVIOUS
    <3>1. The(known) \in rows /\ The(known).key = row.sifra  BY DEF The, Find
    <3>2. IsRow("customer", The(known))  BY <2>5, <3>1 DEF Extends, AreRows
    <3> HIDE DEF known, entity
    <3>3. DOMAIN changed = DOMAIN The(known) /\ changed.id = The(known).id
          /\ changed.key = row.sifra /\ changed.segment = row.segment
      BY <3>1, <3>2, Schema DEF IsRow
    <3>4. changed = [f \in DOMAIN The(known) |-> changed[f]]  OBVIOUS
    <3> HIDE DEF changed
    <3>5. IsRow("customer", changed)  BY <3>2, <3>3, <3>4, RowChanged, Schema
    <3> QED  BY <3>1, <3>3, <3>5
  <2>7. IsRow("customer", new) /\ new.id = <<i, "customer", new.key, 0>> /\ new.key = row.sifra
    BY Schema DEF IsRow
  <2>8. known = {} => \A r \in rows : r.key # row.sifra  BY DEF Find
  <2> HIDE DEF known, entity, own, new, changed, rep, entities, reps, next
  <2>9. /\ Extends(i, "customer", now["customer"], Replaced(rows, customer))
        /\ SegmentsFrom(kupci, now["customer"], Replaced(rows, customer))
    <3>1. CASE known = {}
      <4>1. customer = new  BY <3>1
      <4>2. /\ Extends(i, "customer", now["customer"], Replaced(rows, new))
            /\ Replaced(rows, new) = rows \cup {new}
        <5> HIDE DEF rows, row
        <5> QED  BY <1>2, <2>5, <2>7, <2>8, <3>1, ExtendsInserted
      <4>3. \A s \in now["customer"] : s.id # new.id
        <5>1. new.id[1] = i  BY <2>7
        <5> QED  BY <5>1 DEF Others
      <4> QED  BY <4>1, <4>2, <4>3 DEF CustomersPass, SegmentsFrom
    <3>2. CASE known # {}
      <4>1. customer = changed  BY <3>2
      <4>2. Extends(i, "customer", now["customer"], Replaced(rows, changed))
        <5> HIDE DEF rows, row
        <5> QED  BY <2>5, <2>6, <3>2, ExtendsUpdated
      <4>3. kupci[k].sifra = changed.key /\ kupci[k].segment = changed.segment
        BY <2>6, <3>2
      <4> QED  BY <4>1, <4>2, <4>3 DEF CustomersPass, SegmentsFrom, Replaced
    <3> QED  BY <3>1, <3>2
  <2> HIDE DEF rows, customer, row
  <2>10. /\ DOMAIN next = Tables
         /\ next["customer"] = Replaced(rows, customer)
         /\ next["legal_entity"] = entities /\ next["customer_rep"] = reps
         /\ \A t \in Tables \ {"legal_entity", "customer", "customer_rep"} : next[t] = want[t]
    BY <2>1, Schema DEF CustomersPass
  <2>11. CustomersPass(i, now, kupci, next)  BY <2>4, <2>9, <2>10 DEF CustomersPass
  <2> QED  BY <2>11 DEF next, row
<1> QED  BY <1>1, <1>2

\* What the first of the two passes over the customers makes of the legal entities.
EntitiesPass(now, want) ==
    /\ DOMAIN want = Tables
    /\ \A t \in Tables \ {"legal_entity"} : want[t] = now[t]
    /\ AreRows("legal_entity", want["legal_entity"])

\* So each pass ends with what is true after each row: the legal entities,
LEMMA EntitiesAfter ==
  ASSUME NEW i, NEW now, DOMAIN now = Tables, \A t \in Tables : AreRows(t, now[t]),
         NEW kupci, NEW n \in Nat, DOMAIN kupci = 1 .. n
  PROVE  EntitiesPass(now, UpsertEntities(i, now, kupci))
<1>1. PICK e : EntityStates(e, i, now, kupci, n)
  BY EntitiesStates
<1> DEFINE E == {k \in 0 .. n : EntitiesPass(now, e[k])}
<1>2. 0 \in E  BY <1>1, Schema DEF EntitiesPass, EntityStates
<1>3. ASSUME NEW k \in 1 .. n, k - 1 \in E PROVE k \in E
  <2>1. k \in 0 .. n  OBVIOUS
  <2>2. EntitiesPass(now, e[k - 1])  BY <1>3
  <2>3. e[k] = UpsertEntity(i, e[k - 1], kupci[k])  BY <1>1 DEF EntityStates
  <2>4. /\ DOMAIN e[k] = Tables /\ AreRows("legal_entity", e[k]["legal_entity"])
        /\ \A t \in Tables \ {"legal_entity"} : e[k][t] = e[k - 1][t]
    <3> HIDE DEF E
    <3> QED  BY <2>2, <2>3, EntityStep DEF EntitiesPass
  <2>5. EntitiesPass(now, e[k])  BY <2>2, <2>4 DEF EntitiesPass
  <2> QED  BY <2>1, <2>5
<1> HIDE DEF E
<1>4. \A k \in 0 .. n : k \in E  BY <1>2, <1>3, CountingUp
<1>5. n \in E  BY <1>4
<1> QED  BY <1>1, <1>5 DEF E, EntityStates

\* the customers,
LEMMA CustomersAfter ==
  ASSUME NEW i, NEW now, DOMAIN now = Tables, \A t \in Tables : AreRows(t, now[t]),
         UniqueIds(now["customer"]), UniqueKeys(now["customer"]), Others(i, now["customer"]),
         NEW kupci, NEW n \in Nat, DOMAIN kupci = 1 .. n
  PROVE  CustomersPass(i, now, kupci, UpsertCustomers(i, now, kupci))
<1>1. PICK g : CustomerStates(g, i, now, kupci, n)
  BY CustomersStates
<1> DEFINE G == {k \in 0 .. n : CustomersPass(i, now, kupci, g[k])}
<1>2. 0 \in G
  <2>1. EntitiesPass(now, g[0])  BY <1>1, EntitiesAfter DEF CustomerStates
  <2>2. Extends(i, "customer", now["customer"], now["customer"])  BY ExtendsSelf, Schema
  <2>3. SegmentsFrom(kupci, now["customer"], now["customer"])  BY DEF SegmentsFrom, UniqueIds
  <2>4. CustomersPass(i, now, kupci, g[0])
    BY <2>1, <2>2, <2>3, Schema DEF CustomersPass, EntitiesPass
  <2> QED  BY <2>4
<1>3. ASSUME NEW k \in 1 .. n, k - 1 \in G PROVE k \in G
  <2>1. k \in 0 .. n /\ k \in DOMAIN kupci  OBVIOUS
  <2>2. CustomersPass(i, now, kupci, g[k - 1])  BY <1>3
  <2>3. g[k] = UpsertCustomer(i, g[k - 1], kupci[k])  BY <1>1 DEF CustomerStates
  <2>4. CustomersPass(i, now, kupci, g[k])
    <3> HIDE DEF G
    <3> QED  BY <2>1, <2>2, <2>3, CustomerStep
  <2> QED  BY <2>1, <2>4
<1> HIDE DEF G
<1>4. \A k \in 0 .. n : k \in G  BY <1>2, <1>3, CountingUp
<1>5. n \in G  BY <1>4
<1> QED  BY <1>1, <1>5 DEF G, CustomerStates

------------------------------------------------------------------------------
(* The articles.                                                             *)

\* An article has the name that was read or one that a row of the file gives it.
NamesFrom(artikli, old, rows) ==
    \A r \in rows, s \in old : r.id = s.id =>
        \/ r.name = s.name
        \/ \E k \in DOMAIN artikli :
              artikli[k].sifra = r.key /\ artikli[k].naziv = r.name /\ r.name # Blank
\* Each code of the file that has been seen has an article, with the name of one of its rows
\* unless that row has none.
NamedFor(artikli, rows, code) ==
    \E r \in rows, k \in DOMAIN artikli :
        /\ r.key = code /\ artikli[k].sifra = code
        /\ artikli[k].naziv = Blank \/ r.name = artikli[k].naziv
ArticlesPass(i, now, artikli, n, acc) ==
    /\ DOMAIN acc.want = Tables
    /\ \A t \in Tables \ {"article"} : acc.want[t] = now[t]
    /\ Extends(i, "article", now["article"], acc.want["article"])
    /\ NamesFrom(artikli, now["article"], acc.want["article"])
    /\ \A code \in acc.codes : NamedFor(artikli, acc.want["article"], code)
    /\ \A k \in 1 .. n : artikli[k].sifra # Blank => artikli[k].sifra \in acc.codes

\* The next row of the file leaves ArticlesPass true.
LEMMA ArticleStep ==
  ASSUME NEW i, NEW now, NEW artikli, NEW k \in Nat \ {0}, k \in DOMAIN artikli, NEW acc,
         ArticlesPass(i, now, artikli, k - 1, acc),
         Others(i, now["article"]), UniqueIds(now["article"])
  PROVE  ArticlesPass(i, now, artikli, k, UpsertArticle(i, acc, artikli[k]))
<1> DEFINE row == artikli[k]
           rows == acc.want["article"]
           known == Find(rows, row.sifra)
           new == [id |-> <<i, "article", row.sifra, 0>>, key |-> row.sifra,
                   name |-> OrKeep(row.naziv, row.sifra), active |-> row.aktivan]
           changed == [The(known) EXCEPT !.name = OrKeep(row.naziv, @), !.active = row.aktivan]
           article == IF known = {} THEN new ELSE changed
           next == UpsertArticle(i, acc, row)
<1>1. \A l \in 1 .. k : l \in 1 .. k - 1 \/ l = k  OBVIOUS
<1>2. CASE row.sifra = Blank \/ row.sifra \in acc.codes
  <2>1. next = acc  BY <1>2 DEF UpsertArticle
  <2>2. \A l \in 1 .. k : artikli[l].sifra # Blank => artikli[l].sifra \in acc.codes
    BY <1>1, <1>2 DEF ArticlesPass
  <2> HIDE DEF next
  <2>3. ArticlesPass(i, now, artikli, k, next)  BY <2>1, <2>2 DEF ArticlesPass
  <2> QED  BY <2>3 DEF next
<1>3. CASE row.sifra # Blank /\ row.sifra \notin acc.codes
  <2>1. next = [want |-> [acc.want EXCEPT !["article"] = Replaced(rows, article)],
                codes |-> acc.codes \cup {row.sifra}]
    BY <1>3 DEF UpsertArticle
  <2>2. Extends(i, "article", now["article"], rows)  BY DEF ArticlesPass
  <2>3. known # {} => /\ The(known) \in rows /\ The(known).key = row.sifra
                      /\ IsRow("article", changed) /\ changed.id = The(known).id
                      /\ changed.key = row.sifra
                      /\ changed.name = OrKeep(row.naziv, The(known).name)
    <3> SUFFICES ASSUME known # {}
                 PROVE  /\ The(known) \in rows /\ The(known).key = row.sifra
                        /\ IsRow("article", changed) /\ changed.id = The(known).id
                        /\ changed.key = row.sifra
                        /\ changed.name = OrKeep(row.naziv, The(known).name)
      OBVIOUS
    <3>1. The(known) \in rows /\ The(known).key = row.sifra  BY DEF The, Find
    <3>2. IsRow("article", The(known))  BY <2>2, <3>1 DEF Extends, AreRows
    <3> HIDE DEF known
    <3>3. DOMAIN changed = DOMAIN The(known) /\ changed.id = The(known).id
          /\ changed.key = row.sifra /\ changed.name = OrKeep(row.naziv, The(known).name)
      BY <3>1, <3>2, Schema DEF IsRow
    <3>4. changed = [f \in DOMAIN The(known) |-> changed[f]]  OBVIOUS
    <3> HIDE DEF changed
    <3>5. IsRow("article", changed)  BY <3>2, <3>3, <3>4, RowChanged, Schema
    <3> QED  BY <3>1, <3>3, <3>5
  <2>4. /\ IsRow("article", new) /\ new.id = <<i, "article", new.key, 0>> /\ new.key = row.sifra
        /\ new.name = OrKeep(row.naziv, row.sifra)
    BY Schema DEF IsRow
  <2>5. known = {} => \A r \in rows : r.key # row.sifra  BY DEF Find
  <2> HIDE DEF known, new, changed, next
  <2>6. /\ Extends(i, "article", now["article"], Replaced(rows, article))
        /\ NamesFrom(artikli, now["article"], Replaced(rows, article))
        /\ \A r \in rows : r.key # row.sifra => r \in Replaced(rows, article)
        /\ article.key = row.sifra /\ (row.naziv = Blank \/ article.name = row.naziv)
    <3>1. CASE known = {}
      <4>1. article = new  BY <3>1
      <4>2. /\ Extends(i, "article", now["article"], Replaced(rows, new))
            /\ Replaced(rows, new) = rows \cup {new}
        <5>1. new.key # Blank /\ (\A r \in rows : r.key # new.key)  BY <1>3, <2>4, <2>5, <3>1
        <5> HIDE DEF rows, row
        <5> QED  BY <2>2, <2>4, <5>1, ExtendsInserted
      <4>3. \A s \in now["article"] : s.id # new.id
        <5>1. new.id[1] = i  BY <2>4
        <5> QED  BY <5>1 DEF Others
      <4> QED  BY <2>4, <4>1, <4>2, <4>3 DEF ArticlesPass, NamesFrom, OrKeep
    <3>2. CASE known # {}
      <4>1. article = changed  BY <3>2
      <4>2. Extends(i, "article", now["article"], Replaced(rows, changed))
        <5> HIDE DEF rows, row
        <5> QED  BY <2>2, <2>3, <3>2, ExtendsUpdated
      <4>3. /\ artikli[k].sifra = changed.key /\ changed.id = The(known).id /\ The(known) \in rows
            /\ \/ changed.name = The(known).name
               \/ artikli[k].naziv = changed.name /\ changed.name # Blank
        BY <2>3, <3>2 DEF OrKeep
      <4>4. NamesFrom(artikli, now["article"], rows)  BY DEF ArticlesPass
      <4>5. NamesFrom(artikli, now["article"], Replaced(rows, changed))
        <5> SUFFICES ASSUME NEW r \in Replaced(rows, changed), NEW s \in now["article"],
                            r.id = s.id
                     PROVE  \/ r.name = s.name
                            \/ \E l \in DOMAIN artikli : artikli[l].sifra = r.key
                                  /\ artikli[l].naziv = r.name /\ r.name # Blank
          BY DEF NamesFrom
        <5>1. CASE r \in rows  BY <4>4, <5>1 DEF NamesFrom
        <5>2. CASE r = changed
          <6>1. CASE changed.name = The(known).name
            <7>1. The(known).key = changed.key  BY <2>3, <3>2
            <7> HIDE DEF rows, row
            <7> QED  BY <4>3, <4>4, <5>2, <6>1, <7>1 DEF NamesFrom
          <6>2. CASE artikli[k].naziv = changed.name /\ changed.name # Blank
            BY <4>3, <5>2, <6>2
          <6> QED  BY <4>3, <6>1, <6>2
        <5> QED  BY <5>1, <5>2 DEF Replaced
      <4>6. \A r \in rows : r.key # row.sifra => r \in Replaced(rows, changed)
        <5>1. \A r \in rows : r.id = changed.id => r = The(known)
          BY <2>2, <2>3, <3>2 DEF Extends, UniqueIds
        <5> QED  BY <2>3, <3>2, <5>1 DEF Replaced
      <4> QED  BY <2>3, <3>2, <4>1, <4>2, <4>5, <4>6 DEF OrKeep
    <3> QED  BY <3>1, <3>2
  <2>7. article \in Replaced(rows, article)  BY DEF Replaced
  <2> DEFINE after == Replaced(rows, article)
  <2>8. /\ DOMAIN next.want = Tables /\ next.want["article"] = after
        /\ \A t \in Tables \ {"article"} : next.want[t] = now[t]
        /\ next.codes = acc.codes \cup {row.sifra}
    <3> HIDE DEF article, row
    <3> QED  BY <2>1, Schema DEF ArticlesPass
  <2> HIDE DEF after, article
  <2>9. \A code \in next.codes : NamedFor(artikli, after, code)
    <3> SUFFICES ASSUME NEW code \in next.codes PROVE NamedFor(artikli, after, code)
      OBVIOUS
    <3>1. CASE code = row.sifra
      BY <2>6, <2>7, <3>1 DEF NamedFor, after
    <3>2. CASE code \in acc.codes
      <4>1. NamedFor(artikli, rows, code)  BY <3>2 DEF ArticlesPass
      <4>2. code # row.sifra  BY <1>3, <3>2
      <4>3. \A r \in rows : r.key = code => r \in after  BY <2>6, <4>2 DEF after
      <4> QED  BY <4>1, <4>3 DEF NamedFor
    <3> QED  BY <2>8, <3>1, <3>2
  <2>10. \A l \in 1 .. k : artikli[l].sifra # Blank => artikli[l].sifra \in next.codes
    BY <1>1, <2>8 DEF ArticlesPass
  <2>11. ArticlesPass(i, now, artikli, k, next)
    BY <2>6, <2>8, <2>9, <2>10 DEF ArticlesPass, after
  <2> QED  BY <2>11 DEF next, row
<1> QED  BY <1>2, <1>3

\* So the pass over the articles ends with it.
LEMMA ArticlesAfter ==
  ASSUME NEW i, NEW now, DOMAIN now = Tables, AreRows("article", now["article"]),
         UniqueIds(now["article"]), UniqueKeys(now["article"]), Others(i, now["article"]),
         NEW artikli, NEW n \in Nat, DOMAIN artikli = 1 .. n
  PROVE  \E acc : /\ ArticlesPass(i, now, artikli, n, acc)
                  /\ UpsertArticles(i, now, artikli) = acc.want
<1>1. PICK g : ArticleStates(g, i, now, artikli, n)
  BY ArticlesStates
<1> DEFINE G == {k \in 0 .. n : ArticlesPass(i, now, artikli, k, g[k])}
<1>2. 0 \in G
  <2>1. g[0].want = now /\ g[0].codes = {}  BY <1>1 DEF ArticleStates
  <2>2. Extends(i, "article", now["article"], now["article"])  BY ExtendsSelf
  <2>3. NamesFrom(artikli, now["article"], now["article"])  BY DEF NamesFrom, UniqueIds
  <2>4. ArticlesPass(i, now, artikli, 0, g[0])  BY <2>1, <2>2, <2>3 DEF ArticlesPass
  <2> QED  BY <2>4
<1>3. ASSUME NEW k \in 1 .. n, k - 1 \in G PROVE k \in G
  <2>1. k \in 0 .. n /\ k \in Nat \ {0} /\ k \in DOMAIN artikli  OBVIOUS
  <2>2. ArticlesPass(i, now, artikli, k - 1, g[k - 1])  BY <1>3
  <2>3. g[k] = UpsertArticle(i, g[k - 1], artikli[k])  BY <1>1 DEF ArticleStates
  <2>4. ArticlesPass(i, now, artikli, k, g[k])
    <3> HIDE DEF G
    <3> QED  BY <2>1, <2>2, <2>3, ArticleStep
  <2> QED  BY <2>1, <2>4
<1> HIDE DEF G
<1>4. \A k \in 0 .. n : k \in G  BY <1>2, <1>3, CountingUp
<1>5. n \in G  BY <1>4
<1>6. ArticlesPass(i, now, artikli, n, g[n])  BY <1>5 DEF G
<1> QED  BY <1>1, <1>6 DEF ArticleStates

------------------------------------------------------------------------------
(* The invoices and their lines.                                             *)

\* The lines that an invoice gets: one for each row of the file that can be read.
LEMMA LinesOf ==
  ASSUME NEW i, NEW header, NEW want, NEW stavke
  PROVE  LET lines == Lines(i, header, want, stavke)
         IN  /\ AreRows("invoice_line", lines) /\ UniqueIds(lines)
             /\ \A l \in lines : /\ l.by = i /\ l.invoice = header.id
                                 /\ l.id[1] = i /\ l.id[3] = header.key
             /\ \A k \in DOMAIN stavke :
                   /\ stavke[k].broj_fakture = header.key /\ stavke[k].iznos # Blank
                   /\ ArticleIds(want, stavke[k].sifra_artikla) # {}
                   => Has(lines, <<i, "line", header.key, k>>)
<1> DEFINE good == {k \in DOMAIN stavke :
                      /\ stavke[k].broj_fakture = header.key /\ stavke[k].iznos # Blank
                      /\ ArticleIds(want, stavke[k].sifra_artikla) # {}}
           line(k) == [id |-> <<i, "line", header.key, k>>, invoice |-> header.id, by |-> i,
                       article |-> The(ArticleIds(want, stavke[k].sifra_artikla)),
                       amount |-> InCents(stavke[k].iznos)]
           lines == Lines(i, header, want, stavke)
<1>1. lines = {line(k) : k \in good}  BY DEF Lines
<1>2. \A k : /\ IsRow("invoice_line", line(k)) /\ line(k).by = i /\ line(k).invoice = header.id
             /\ line(k).id = <<i, "line", header.key, k>>
  BY Schema DEF IsRow
<1> HIDE DEF good, line, lines
<1>3. AreRows("invoice_line", lines)  BY <1>1, <1>2 DEF AreRows
<1>4. UniqueIds(lines)
  <2>1. \A k, l : line(k).id = line(l).id => k = l
    <3>1. \A k : line(k).id[4] = k  BY <1>2
    <3> QED  BY <3>1
  <2> QED  BY <1>1, <2>1 DEF UniqueIds
<1>5. \A l \in lines : l.by = i /\ l.invoice = header.id /\ l.id[1] = i /\ l.id[3] = header.key
  BY <1>1, <1>2
<1>6. \A k \in good : Has(lines, <<i, "line", header.key, k>>)  BY <1>1, <1>2 DEF Has
<1> QED  BY <1>3, <1>4, <1>5, <1>6 DEF good, lines

\* Each line was read or is by this import, for an invoice that there is; the lines of an
\* invoice are either all by this import or none; an invoice that is new or changed has all the
\* lines that can be read and whose article is known.
LinesPass(i, now, stavke, want) ==
    /\ AreRows("invoice_line", want["invoice_line"]) /\ UniqueIds(want["invoice_line"])
    /\ \A l \in want["invoice_line"] :
          \/ l \in now["invoice_line"]
          \/ l.by = i /\ l.id[1] = i /\ \E h \in want["invoice"] : h.id = l.invoice /\ h.key = l.id[3]
    /\ \A l, m \in want["invoice_line"] : l.by = i /\ m.invoice = l.invoice => m.by = i
    /\ \A h \in want["invoice"] \ now["invoice"], k \in DOMAIN stavke :
          /\ stavke[k].broj_fakture = h.key /\ stavke[k].iznos # Blank
          /\ ArticleIds(now, stavke[k].sifra_artikla) # {}
          => \E l \in want["invoice_line"] : l.id = <<i, "line", h.key, k>> /\ l.invoice = h.id
OtherLines(i, lines) == \A l \in lines : l.id[1] # i /\ l.by = l.id[1]

\* Replacing the lines of one invoice leaves LinesPass true.
LEMMA LinesStep ==
  ASSUME NEW i, NEW now, NEW stavke, NEW want, NEW next, NEW header,
         LinesPass(i, now, stavke, want), want["article"] = now["article"],
         OtherLines(i, now["invoice_line"]),
         \A h \in want["invoice"] : h.key = header.key <=> h.id = header.id,
         next["invoice"] = Replaced(want["invoice"], header),
         next["invoice_line"] =
            WithoutLines(want, header.id) \cup Lines(i, header, want, stavke)
  PROVE  LinesPass(i, now, stavke, next)
<1> DEFINE old == want["invoice_line"]
           lines == Lines(i, header, want, stavke)
           after == next["invoice_line"]
<1>1. /\ AreRows("invoice_line", lines) /\ UniqueIds(lines)
      /\ \A l \in lines : l.by = i /\ l.invoice = header.id /\ l.id[1] = i /\ l.id[3] = header.key
      /\ \A k \in DOMAIN stavke :
            /\ stavke[k].broj_fakture = header.key /\ stavke[k].iznos # Blank
            /\ ArticleIds(want, stavke[k].sifra_artikla) # {}
            => Has(lines, <<i, "line", header.key, k>>)
  BY LinesOf
<1> HIDE DEF lines
<1>2. \A l : l \in after <=> l \in lines \/ (l \in old /\ l.invoice # header.id)
  BY DEF WithoutLines, lines
<1> HIDE DEF after
<1>3. AreRows("invoice_line", after)  BY <1>1, <1>2 DEF LinesPass, AreRows
<1>4. ASSUME NEW l \in old, l.invoice # header.id, NEW m \in lines, l.id = m.id PROVE FALSE
  <2>1. l.id[1] = i /\ l.id[3] = header.key  BY <1>1, <1>4
  <2>2. l \notin now["invoice_line"]  BY <2>1 DEF OtherLines
  <2>3. PICK h \in want["invoice"] : h.id = l.invoice /\ h.key = l.id[3]  BY <2>2 DEF LinesPass
  <2> QED  BY <1>4, <2>1, <2>3
<1>5. UniqueIds(after)  BY <1>1, <1>2, <1>4 DEF LinesPass, UniqueIds
<1>6. ASSUME NEW l \in after
      PROVE  \/ l \in now["invoice_line"]
             \/ l.by = i /\ l.id[1] = i /\ \E h \in next["invoice"] : h.id = l.invoice /\ h.key = l.id[3]
  <2>1. CASE l \in lines  BY <1>1, <2>1 DEF Replaced
  <2>2. CASE l \in old /\ l.invoice # header.id
    <3>1. \A h \in want["invoice"] : h.id = l.invoice => h \in next["invoice"]
      BY <2>2 DEF Replaced
    <3> QED  BY <2>2, <3>1 DEF LinesPass
  <2> QED  BY <1>2, <2>1, <2>2
<1>7. \A l, m \in after : l.by = i /\ m.invoice = l.invoice => m.by = i
  BY <1>1, <1>2 DEF LinesPass
<1>8. ASSUME NEW h \in next["invoice"] \ now["invoice"], NEW k \in DOMAIN stavke,
             stavke[k].broj_fakture = h.key, stavke[k].iznos # Blank,
             ArticleIds(now, stavke[k].sifra_artikla) # {}
      PROVE  \E l \in after : l.id = <<i, "line", h.key, k>> /\ l.invoice = h.id
  <2>1. CASE h = header
    <3>1. ArticleIds(want, stavke[k].sifra_artikla) # {}  BY <1>8 DEF ArticleIds
    <3>2. Has(lines, <<i, "line", header.key, k>>)  BY <1>1, <1>8, <2>1, <3>1
    <3> QED  BY <1>1, <1>2, <2>1, <3>2 DEF Has
  <2>2. CASE h \in want["invoice"] /\ h.id # header.id
    <3>1. \E l \in old : l.id = <<i, "line", h.key, k>> /\ l.invoice = h.id
      BY <1>8, <2>2 DEF LinesPass
    <3> QED  BY <1>2, <2>2, <3>1
  <2> QED  BY <2>1, <2>2 DEF Replaced
<1> QED  BY <1>3, <1>5, <1>6, <1>7, <1>8 DEF LinesPass, after

InvoicesPass(i, now, stavke, acc) ==
    /\ DOMAIN acc = {"want", "fresh", "clash"} /\ DOMAIN acc.want = Tables
    /\ \A t \in Tables \ {"invoice", "invoice_line"} : acc.want[t] = now[t]
    /\ Extends(i, "invoice", now["invoice"], acc.want["invoice"])
    /\ LinesPass(i, now, stavke, acc.want)

\* The next row of the file leaves InvoicesPass true.
LEMMA InvoiceStep ==
  ASSUME NEW i, NEW now, NEW stavke, NEW acc, InvoicesPass(i, now, stavke, acc), NEW row,
         Others(i, now["invoice"]), OtherLines(i, now["invoice_line"])
  PROVE  InvoicesPass(i, now, stavke, UpsertInvoice(i, acc, row, stavke))
<1> DEFINE want == acc.want
           rows == want["invoice"]
           known == Find(rows, row.broj_fakture)
           customer == {c.id : c \in Find(want["customer"], row.sifra_kupca)}
           header == [id |-> IF known = {} THEN <<i, "invoice", row.broj_fakture, 0>>
                                           ELSE The(known).id,
                      key |-> row.broj_fakture, customer |-> The(customer), total |-> row.ukupno]
           lines == WithoutLines(want, header.id) \cup Lines(i, header, want, stavke)
           fresh == acc.fresh \cup (IF known = {} THEN {row.broj_fakture} ELSE {})
           next == UpsertInvoice(i, acc, row, stavke)
<1>1. \/ next = acc \/ next = [acc EXCEPT !.clash = TRUE]
      \/ /\ row.broj_fakture # Blank
         /\ next = [acc EXCEPT !.want["invoice"] = Replaced(@, header),
                               !.want["invoice_line"] = lines, !.fresh = fresh]
  BY DEF UpsertInvoice
<1>2. CASE next = acc
  <2> HIDE DEF next
  <2>1. InvoicesPass(i, now, stavke, next)  BY <1>2
  <2> QED  BY <2>1 DEF next
<1>3. CASE next = [acc EXCEPT !.clash = TRUE]
  <2> HIDE DEF next
  <2>1. DOMAIN next = DOMAIN acc /\ next.want = acc.want  BY <1>3 DEF InvoicesPass
  <2>2. InvoicesPass(i, now, stavke, next)  BY <2>1 DEF InvoicesPass
  <2> QED  BY <2>2 DEF next
<1>4. CASE /\ row.broj_fakture # Blank
           /\ next = [acc EXCEPT !.want["invoice"] = Replaced(@, header),
                                 !.want["invoice_line"] = lines, !.fresh = fresh]
  <2>1. Extends(i, "invoice", now["invoice"], rows)  BY DEF InvoicesPass
  <2>2. known # {} => The(known) \in rows /\ The(known).key = row.broj_fakture
    BY DEF The, Find
  <2>3. known = {} => \A r \in rows : r.key # row.broj_fakture  BY DEF Find
  <2>4. /\ header.key = row.broj_fakture
        /\ header.id = IF known = {} THEN <<i, "invoice", row.broj_fakture, 0>> ELSE The(known).id
    OBVIOUS
  <2>5. DOMAIN header = {"id", "key", "customer", "total"}
        /\ header = [f \in {"id", "key", "customer", "total"} |-> header[f]]
    OBVIOUS
  <2> HIDE DEF known, customer, header, lines, fresh, next
  <2>6. IsRow("invoice", header)
    <3>1. header.id[2] = "invoice"
      <4>1. CASE known = {}  BY <2>4, <4>1
      <4>2. CASE known # {}
        <5>1. IsRow("invoice", The(known))  BY <2>1, <2>2, <4>2 DEF Extends, AreRows
        <5> QED  BY <2>4, <4>2, <5>1, Schema DEF IsRow
      <4> QED  BY <4>1, <4>2
    <3> QED  BY <2>5, <3>1, Schema DEF IsRow
  <2>7. /\ Extends(i, "invoice", now["invoice"], Replaced(rows, header))
        /\ \A h \in rows : h.key = header.key <=> h.id = header.id
    <3>1. CASE known = {}
      <4>1. header.id = <<i, "invoice", header.key, 0>> /\ header.key # Blank
            /\ \A r \in rows : r.key # header.key
        BY <1>4, <2>3, <2>4, <3>1
      <4> HIDE DEF rows, want
      <4> QED  BY <2>1, <2>6, <4>1, ExtendsInserted
    <3>2. CASE known # {}
      <4>1. The(known) \in rows /\ The(known).key = header.key /\ The(known).id = header.id
        BY <2>2, <2>4, <3>2
      <4> HIDE DEF rows, want
      <4>2. Extends(i, "invoice", now["invoice"], Replaced(rows, header))
        BY <2>1, <2>6, <4>1, ExtendsUpdated
      <4>3. UniqueIds(rows) /\ UniqueKeys(rows)  BY <2>1 DEF Extends
      <4> QED  BY <4>1, <4>2, <4>3 DEF UniqueIds, UniqueKeys
    <3> QED  BY <3>1, <3>2
  <2>8. /\ DOMAIN next = DOMAIN acc /\ DOMAIN next.want = Tables
        /\ \A t \in Tables \ {"invoice", "invoice_line"} : next.want[t] = want[t]
        /\ next.want["invoice"] = Replaced(rows, header)
        /\ next.want["invoice_line"] = lines
    BY <1>4, Schema DEF InvoicesPass
  <2>9. LinesPass(i, now, stavke, next.want)
    <3>1. LinesPass(i, now, stavke, want) /\ want["article"] = now["article"]
      BY Schema DEF InvoicesPass
    <3>2. next.want["invoice_line"] =
             WithoutLines(want, header.id) \cup Lines(i, header, want, stavke)
      BY <2>8 DEF lines
    <3> HIDE DEF want
    <3> QED  BY <2>7, <2>8, <3>1, <3>2, LinesStep
  <2>10. InvoicesPass(i, now, stavke, next)  BY <2>7, <2>8, <2>9 DEF InvoicesPass
  <2> QED  BY <2>10 DEF next
<1> HIDE DEF next
<1> QED  BY <1>1, <1>2, <1>3, <1>4 DEF next

\* So the pass over the invoices ends with it.
LEMMA InvoicesAfter ==
  ASSUME NEW i, NEW now, DOMAIN now = Tables, AreRows("invoice", now["invoice"]),
         UniqueIds(now["invoice"]), UniqueKeys(now["invoice"]), Others(i, now["invoice"]),
         AreRows("invoice_line", now["invoice_line"]), UniqueIds(now["invoice_line"]),
         OtherLines(i, now["invoice_line"]),
         NEW fakture, NEW stavke, NEW n \in Nat, DOMAIN fakture = 1 .. n
  PROVE  InvoicesPass(i, now, stavke, UpsertInvoices(i, now, fakture, stavke))
<1>1. PICK g : InvoiceStates(g, i, now, fakture, stavke, n)
  BY InvoicesStates
<1> DEFINE G == {k \in 0 .. n : InvoicesPass(i, now, stavke, g[k])}
<1>2. 0 \in G
  <2>1. DOMAIN g[0] = {"want", "fresh", "clash"} /\ g[0].want = now
    BY <1>1 DEF InvoiceStates
  <2>2. Extends(i, "invoice", now["invoice"], now["invoice"])  BY ExtendsSelf
  <2>3. LinesPass(i, now, stavke, now)  BY DEF LinesPass, OtherLines
  <2>4. InvoicesPass(i, now, stavke, g[0])  BY <2>1, <2>2, <2>3 DEF InvoicesPass
  <2> QED  BY <2>4
<1>3. ASSUME NEW k \in 1 .. n, k - 1 \in G PROVE k \in G
  <2>1. k \in 0 .. n  OBVIOUS
  <2>2. InvoicesPass(i, now, stavke, g[k - 1])  BY <1>3
  <2>3. g[k] = UpsertInvoice(i, g[k - 1], fakture[k], stavke)  BY <1>1 DEF InvoiceStates
  <2>4. InvoicesPass(i, now, stavke, g[k])
    <3> HIDE DEF G
    <3> QED  BY <2>2, <2>3, InvoiceStep
  <2> QED  BY <2>1, <2>4
<1> HIDE DEF G
<1>4. \A k \in 0 .. n : k \in G  BY <1>2, <1>3, CountingUp
<1>5. n \in G  BY <1>4
<1>6. InvoicesPass(i, now, stavke, g[n])  BY <1>5 DEF G
<1> QED  BY <1>1, <1>6 DEF InvoiceStates

------------------------------------------------------------------------------
(* Rows with the columns that an import has updated.                         *)

\* Patched changes no row that there is no update of;
LEMMA PatchedNone ==
  ASSUME NEW t \in Tables, NEW row, IsRow(t, row), NEW U, \A u \in U : u.id # row.id
  PROVE  Patched(row, U) = row
<1>1. {u \in U : u.id = row.id} = {}  OBVIOUS
<1>2. Patched(row, U) = [f \in DOMAIN row |-> row[f]]  BY <1>1 DEF Patched
<1> QED  BY <1>2 DEF IsRow

\* gives a row the values of its update, and leaves its id and key;
LEMMA PatchedRow ==
  ASSUME NEW t \in Tables, NEW row, IsRow(t, row), NEW U, \A u \in U : IsUpdate(u)
  PROVE  /\ IsRow(t, Patched(row, U)) /\ Patched(row, U).id = row.id
         /\ t \in Keyed => Patched(row, U).key = row.key
<1> DEFINE mine == {u \in U : u.id = row.id}
           new == Patched(row, U)
           value(f) == IF \E u \in mine : f \in u.columns
                       THEN (CHOOSE u \in mine : f \in u.columns).row[f] ELSE row[f]
<1>1. new = [f \in DOMAIN row |-> value(f)]  BY DEF Patched
<1>2. \A u \in mine : "id" \notin u.columns  BY DEF IsUpdate
<1>3. t \in Keyed => \A u \in mine : "key" \notin u.columns
  BY Schema DEF IsRow, IsUpdate
<1>4. "id" \in DOMAIN row /\ (t \in Keyed => "key" \in DOMAIN row)  BY Schema DEF IsRow
<1>5. value("id") = row.id /\ (t \in Keyed => value("key") = row.key)  BY <1>2, <1>3
<1> HIDE DEF new, value, mine
<1>6. /\ DOMAIN new = DOMAIN row /\ new.id = row.id /\ (t \in Keyed => new.key = row.key)
      /\ new = [f \in DOMAIN row |-> new[f]]
  BY <1>1, <1>4, <1>5
<1>7. IsRow(t, new)  BY <1>6, RowChanged
<1> QED  BY <1>6, <1>7 DEF new

\* leaves rows to updates of other tables;
LEMMA PatchedMore ==
  ASSUME NEW row, NEW U, NEW V, \A u \in V : u.id # row.id
  PROVE  Patched(row, U \cup V) = Patched(row, U)
<1>1. {u \in U \cup V : u.id = row.id} = {u \in U : u.id = row.id}  OBVIOUS
<1> QED  BY <1>1 DEF Patched

\* and gives an updated row the value that its update has.
LEMMA PatchedTo ==
  ASSUME NEW t \in Tables, NEW row, NEW new, IsRow(t, row), IsRow(t, new), NEW U,
         \A u \in U : u.id = row.id => u.row = new,
         \A f \in Columns[t] : row[f] # new[f] => \E u \in U : u.id = row.id /\ f \in u.columns
  PROVE  Patched(row, U) = new
<1> DEFINE mine == {u \in U : u.id = row.id}
           value(f) == IF \E u \in mine : f \in u.columns
                       THEN (CHOOSE u \in mine : f \in u.columns).row[f] ELSE row[f]
<1>1. Patched(row, U) = [f \in Columns[t] |-> value(f)]  BY DEF Patched, IsRow
<1>2. ASSUME NEW f \in Columns[t] PROVE value(f) = new[f]
  <2>1. CASE \E u \in mine : f \in u.columns
    <3>1. (CHOOSE u \in mine : f \in u.columns) \in mine  BY <2>1
    <3>2. (CHOOSE u \in mine : f \in u.columns).row = new  BY <3>1
    <3> QED  BY <2>1, <3>2
  <2>2. CASE ~ \E u \in mine : f \in u.columns
    <3>1. row[f] = new[f]  BY <2>2
    <3> QED  BY <2>2, <3>1
  <2> QED  BY <2>1, <2>2
<1> HIDE DEF value
<1> QED  BY <1>1, <1>2 DEF IsRow

------------------------------------------------------------------------------
(* What a running import has read, and what its pass wants.                  *)

NowRead(i, now) ==
    /\ DOMAIN now = Tables
    /\ \A t \in Tables : AreRows(t, now[t])
    /\ \A t \in Keyed :
          /\ UniqueIds(now[t]) /\ UniqueKeys(now[t])
          /\ \A r \in now[t] : \E s \in core[t] \cup tx[i].ins[t] : s.id = r.id /\ s.key = r.key
          /\ PhaseOf[t] >= tx[i].phase => Others(i, now[t])
    /\ UniqueIds(now["invoice_line"]) /\ OtherLines(i, now["invoice_line"])
    /\ \A m \in core["invoice_line"] : m \in now["invoice_line"] \/ {i, m.by} \in overlaps
Wanted(i, now, want) ==
    /\ DOMAIN want = Tables
    /\ \A t \in Tables : AreRows(t, want[t])
    /\ \A t \in Tables : PhaseOf[t] # tx[i].phase => want[t] = now[t]
    /\ \A t \in Keyed : PhaseOf[t] = tx[i].phase => Extends(i, t, now[t], want[t])
    /\ tx[i].phase = 1 => SegmentsFrom(tx[i].export.kupci, now["customer"], want["customer"])
    /\ tx[i].phase = 2 => \E n, acc : /\ DOMAIN tx[i].export.artikli = 1 .. n /\ acc.want = want
                                      /\ ArticlesPass(i, now, tx[i].export.artikli, n, acc)
    /\ tx[i].phase = 3 => LinesPass(i, now, tx[i].export.stavke, want)

\* The tables of each phase.
LEMMA PhasesOf ==
  /\ PhaseOf["legal_entity"] = 1 /\ PhaseOf["customer"] = 1 /\ PhaseOf["customer_rep"] = 1
  /\ PhaseOf["article"] = 2 /\ PhaseOf["invoice"] = 3 /\ PhaseOf["invoice_line"] = 3
  /\ Phases[1] = "customers" /\ Phases[2] = "articles" /\ Phases[3] = "invoices" /\ Len(Phases) = 3
BY DEF PhaseOf, Phases

\* Before its last pass an import sees the lines that are committed.
LEMMA LinesSeen ==
  ASSUME NEW i \in Imports, Committed, Written(i), tx[i].pc # "written"
  PROVE  Visible(i, "invoice_line") = core["invoice_line"]
<1>1. tx[i].ins["invoice_line"] = {} /\ tx[i].del = {}
  BY PhasesOf, Schema DEF Written
<1>2. ASSUME NEW row \in core["invoice_line"] PROVE Patched(row, tx[i].upd) = row
  <2>1. IsRow("invoice_line", row)  BY Schema DEF Committed, AreRows
  <2>2. row.id[2] = "line"  BY <2>1, Schema DEF IsRow
  <2>3. \A u \in tx[i].upd : u.id # row.id  BY <2>2 DEF Written, IsUpdate
  <2> QED  BY <2>1, <2>3, PatchedNone, Schema
<1> QED  BY <1>1, <1>2 DEF Visible

\* What an import has read, with what it can see, is what a pass may start from.
LEMMA NowIsRead ==
  ASSUME IInv, NEW i \in Imports, tx[i].pc \in {"writing", "waiting"}
  PROVE  NowRead(i, Now(i))
<1>1. Committed /\ Running(i) /\ tx[i].pc # "written"  BY DEF IInv, Running
<1>2. Written(i) /\ Snapshot(i) /\ (tx[i].pc = "waiting" => Doomed(i))
  BY <1>1 DEF IInv, Good
<1> DEFINE now == Now(i)
<1>3. /\ DOMAIN now = Tables
      /\ \A t \in Tables \ {"invoice_line"} : now[t] = tx[i].seen[t]
      /\ now["invoice_line"] = IF tx[i].pc = "waiting" THEN tx[i].doomed ELSE core["invoice_line"]
  <2>1. Visible(i, "invoice_line") = core["invoice_line"]  BY <1>1, <1>2, LinesSeen
  <2>2. DOMAIN tx[i].seen = Tables  BY <1>2 DEF Snapshot
  <2> QED  BY <2>1, <2>2, Schema DEF Now
<1> HIDE DEF now
<1>4. \A r \in core["invoice_line"] : r.id[1] # i /\ r.by = r.id[1]
  <2>1. \A r \in core["invoice_line"] : \/ r.id[1] = None
                                        \/ r.id[1] \in Imports /\ tx[r.id[1]].pc = "completed"
    BY <1>1 DEF Committed, Identified
  <2> QED  BY <1>1, <2>1, IngestAssumption DEF Committed
<1>5. UniqueIds(core["invoice_line"]) /\ AreRows("invoice_line", core["invoice_line"])
  BY <1>1, Schema DEF Committed, Identified
<1>6. /\ AreRows("invoice_line", now["invoice_line"]) /\ UniqueIds(now["invoice_line"])
      /\ OtherLines(i, now["invoice_line"])
      /\ \A m \in core["invoice_line"] : m \in now["invoice_line"] \/ {i, m.by} \in overlaps
  <2>1. CASE tx[i].pc = "waiting"
    BY <1>2, <1>3, <2>1 DEF Doomed, OtherLines
  <2>2. CASE tx[i].pc # "waiting"
    BY <1>3, <1>4, <1>5, <2>2 DEF OtherLines
  <2> QED  BY <2>1, <2>2
<1>7. \A t \in Tables : AreRows(t, now[t])
  BY <1>2, <1>3, <1>6 DEF Snapshot
<1>8. ASSUME NEW t \in Keyed
      PROVE  /\ UniqueIds(now[t]) /\ UniqueKeys(now[t])
             /\ \A r \in now[t] : \E s \in core[t] \cup tx[i].ins[t] : s.id = r.id /\ s.key = r.key
             /\ PhaseOf[t] >= tx[i].phase => Others(i, now[t])
  <2>1. now[t] = tx[i].seen[t] /\ t \in Tables  BY <1>3, Schema
  <2>2. /\ UniqueIds(now[t]) /\ UniqueKeys(now[t])
        /\ \A r \in now[t] : \E s \in core[t] \cup tx[i].ins[t] : s.id = r.id /\ s.key = r.key
    BY <1>2, <2>1 DEF Snapshot
  <2>3. ASSUME PhaseOf[t] >= tx[i].phase, NEW r \in now[t] PROVE r.id[1] # i
    <3>1. tx[i].ins[t] = {}  BY <1>1, <1>2, <2>1, <2>3 DEF Written
    <3>2. PICK s \in core[t] : s.id = r.id  BY <2>2, <3>1
    <3>3. s.id[1] = None \/ (s.id[1] \in Imports /\ tx[s.id[1]].pc = "completed")
      BY <1>1 DEF Committed, Identified
    <3> QED  BY <1>1, <3>2, <3>3, IngestAssumption
  <2> QED  BY <2>2, <2>3 DEF Others
<1>9. NowRead(i, now)  BY <1>3, <1>6, <1>7, <1>8 DEF NowRead
<1> QED  BY <1>9 DEF now

\* What it wants of the tables is what the pass makes of that.
LEMMA WantIsWanted ==
  ASSUME NEW i \in Imports, Written(i), NowRead(i, Now(i))
  PROVE  Wanted(i, Now(i), Want(i))
<1> DEFINE now == Now(i)
           want == Want(i)
           e == tx[i].export
<1>1. e \in Exports /\ tx[i].phase \in 1 .. 3  BY DEF Written
<1>2. DOMAIN e = Files /\ \A f \in Files : Len(e[f]) \in Nat /\ DOMAIN e[f] = 1 .. Len(e[f])
  BY <1>1, IngestAssumption
<1>3. /\ DOMAIN now = Tables /\ \A t \in Tables : AreRows(t, now[t])
      /\ \A t \in Keyed : /\ UniqueIds(now[t]) /\ UniqueKeys(now[t])
                          /\ PhaseOf[t] >= tx[i].phase => Others(i, now[t])
      /\ UniqueIds(now["invoice_line"]) /\ OtherLines(i, now["invoice_line"])
  BY DEF NowRead
<1>4. /\ tx[i].phase = 1 => want = UpsertCustomers(i, now, e.kupci)
      /\ tx[i].phase = 2 => want = UpsertArticles(i, now, e.artikli)
      /\ tx[i].phase = 3 => want = UpsertInvoices(i, now, e.fakture, e.stavke).want
  BY PhasesOf DEF Want, After
<1> HIDE DEF now, want, e
<1>5. CASE tx[i].phase = 1
  <2>1. Len(e.kupci) \in Nat /\ DOMAIN e.kupci = 1 .. Len(e.kupci)  BY <1>2 DEF Files
  <2>2. UniqueIds(now["customer"]) /\ UniqueKeys(now["customer"]) /\ Others(i, now["customer"])
    BY <1>3, <1>5, PhasesOf, Schema
  <2>3. CustomersPass(i, now, e.kupci, UpsertCustomers(i, now, e.kupci))
    BY <1>3, <2>1, <2>2, CustomersAfter
  <2>4. CustomersPass(i, now, e.kupci, want)  BY <1>4, <1>5, <2>3
  <2>5. \A t \in Tables : AreRows(t, want[t])
    BY <1>3, <2>4 DEF CustomersPass, Extends
  <2>6. \A t \in Tables : PhaseOf[t] # 1 => want[t] = now[t]
    BY <2>4, PhasesOf, Schema DEF CustomersPass
  <2>7. \A t \in Keyed : PhaseOf[t] = 1 => Extends(i, t, now[t], want[t])
    BY <2>4, PhasesOf, Schema DEF CustomersPass
  <2>8. Wanted(i, now, want)
    BY <1>5, <2>4, <2>5, <2>6, <2>7 DEF Wanted, CustomersPass, e
  <2> QED  BY <2>8 DEF now, want
<1>6. CASE tx[i].phase = 2
  <2>1. Len(e.artikli) \in Nat /\ DOMAIN e.artikli = 1 .. Len(e.artikli)  BY <1>2 DEF Files
  <2>2. /\ UniqueIds(now["article"]) /\ UniqueKeys(now["article"]) /\ Others(i, now["article"])
        /\ AreRows("article", now["article"])
    BY <1>3, <1>6, PhasesOf, Schema
  <2>3. PICK acc : /\ ArticlesPass(i, now, e.artikli, Len(e.artikli), acc)
                   /\ UpsertArticles(i, now, e.artikli) = acc.want
    BY <1>3, <2>1, <2>2, ArticlesAfter
  <2>4. acc.want = want  BY <1>4, <1>6, <2>3
  <2>5. \A t \in Tables : AreRows(t, want[t])
    BY <1>3, <2>3, <2>4 DEF ArticlesPass, Extends
  <2>6. \A t \in Tables : PhaseOf[t] # 2 => want[t] = now[t]
    BY <2>3, <2>4, PhasesOf, Schema DEF ArticlesPass
  <2>7. \A t \in Keyed : PhaseOf[t] = 2 => Extends(i, t, now[t], want[t])
    BY <2>3, <2>4, PhasesOf, Schema DEF ArticlesPass
  <2>8. DOMAIN want = Tables  BY <2>3, <2>4 DEF ArticlesPass
  <2>9. Wanted(i, now, want)
    BY <1>6, <2>1, <2>3, <2>4, <2>5, <2>6, <2>7, <2>8 DEF Wanted, e
  <2> QED  BY <2>9 DEF now, want
<1>7. CASE tx[i].phase = 3
  <2>1. Len(e.fakture) \in Nat /\ DOMAIN e.fakture = 1 .. Len(e.fakture)  BY <1>2 DEF Files
  <2>2. /\ UniqueIds(now["invoice"]) /\ UniqueKeys(now["invoice"]) /\ Others(i, now["invoice"])
        /\ AreRows("invoice", now["invoice"]) /\ AreRows("invoice_line", now["invoice_line"])
    BY <1>3, <1>7, PhasesOf, Schema
  <2>3. InvoicesPass(i, now, e.stavke, UpsertInvoices(i, now, e.fakture, e.stavke))
    BY <1>3, <2>1, <2>2, InvoicesAfter
  <2>4. /\ DOMAIN want = Tables /\ LinesPass(i, now, e.stavke, want)
        /\ \A t \in Tables \ {"invoice", "invoice_line"} : want[t] = now[t]
        /\ Extends(i, "invoice", now["invoice"], want["invoice"])
    BY <1>4, <1>7, <2>3 DEF InvoicesPass
  <2>5. \A t \in Tables : AreRows(t, want[t])
    BY <1>3, <2>4 DEF LinesPass, Extends
  <2>6. \A t \in Tables : PhaseOf[t] # 3 => want[t] = now[t]
    BY <2>4, PhasesOf, Schema
  <2>7. \A t \in Keyed : PhaseOf[t] = 3 => Extends(i, t, now[t], want[t])
    BY <2>4, PhasesOf, Schema
  <2>8. Wanted(i, now, want)
    BY <1>7, <2>4, <2>5, <2>6, <2>7 DEF Wanted, e
  <2> QED  BY <2>8 DEF now, want
<1> QED  BY <1>1, <1>5, <1>6, <1>7

------------------------------------------------------------------------------
(* What it writes.                                                           *)

\* The bundle of what a pass may take for granted.
Passing(i) ==
    /\ i \in Imports /\ Written(i) /\ tx[i].pc # "written"
    /\ NowRead(i, Now(i)) /\ Wanted(i, Now(i), Want(i))

\* An import that is writing may take it for granted.
LEMMA PassReady ==
  ASSUME IInv, NEW i \in Imports, tx[i].pc \in {"writing", "waiting"}
  PROVE  Passing(i)
<1>1. Running(i) /\ tx[i].pc # "written"  BY DEF Running
<1>2. Written(i)  BY <1>1 DEF IInv, Good
<1> QED  BY <1>1, <1>2, NowIsRead, WantIsWanted DEF Passing

\* Only an invoice is stored otherwise than it is wanted, and only its total.
LEMMA StoredRow ==
  ASSUME NEW t \in Tables, NEW row, IsRow(t, row)
  PROVE  /\ IsRow(t, Stored(row)) /\ Stored(row).id = row.id
         /\ t \in Keyed => Stored(row).key = row.key
         /\ t # "invoice" => Stored(row) = row
         /\ t = "invoice" => Stored(row).total = InCents(row.total)
         /\ t = "invoice" /\ row.total \notin DOMAIN Rounded => Stored(row) = row
<1>1. CASE t # "invoice"
  <2>1. "total" \notin DOMAIN row  BY <1>1, Schema DEF IsRow
  <2>2. Stored(row) = row  BY <2>1 DEF Stored
  <2> QED  BY <1>1, <2>2
<1>2. CASE t = "invoice"
  <2>1. /\ DOMAIN row = {"id", "key", "customer", "total"} /\ row = [f \in DOMAIN row |-> row[f]]
        /\ row.id[2] \in Tags["invoice"] /\ Columns["invoice"] = DOMAIN row
    BY <1>2, Schema DEF IsRow
  <2>2. Stored(row) = [row EXCEPT !.total = InCents(row.total)]  BY <2>1 DEF Stored
  <2>3. Stored(row) = [f \in DOMAIN row |-> IF f = "total" THEN InCents(row.total) ELSE row[f]]
    BY <2>1, <2>2
  <2> DEFINE stored == Stored(row)
  <2>4. /\ DOMAIN stored = DOMAIN row /\ stored = [f \in DOMAIN stored |-> stored[f]]
        /\ stored.id = row.id /\ stored.key = row.key /\ stored.total = InCents(row.total)
    BY <2>1, <2>3
  <2>5. IsRow("invoice", stored)
    <3> HIDE DEF stored
    <3> QED  BY <1>2, <2>1, <2>4 DEF IsRow
  <2>6. row.total \notin DOMAIN Rounded => stored = row
    <3> SUFFICES ASSUME row.total \notin DOMAIN Rounded PROVE stored = row
      OBVIOUS
    <3>1. InCents(row.total) = row.total  BY DEF InCents
    <3>2. stored = [f \in DOMAIN row |-> row[f]]  BY <2>3, <3>1
    <3> QED  BY <2>1, <3>2
  <2> QED  BY <1>2, <2>4, <2>5, <2>6
<1> QED  BY <1>1, <1>2

\* In every other table it inserts the rows that it wants.
LEMMA InsertedAsWanted ==
  ASSUME NEW i, Passing(i), NEW t \in Tables \ {"invoice"}
  PROVE  Inserted(i, t) = {row \in Want(i)[t] : ~Has(Now(i)[t], row.id)}
<1>1. AreRows(t, Want(i)[t])  BY DEF Passing, Wanted
<1>2. \A row \in Want(i)[t] : Stored(row) = row  BY <1>1, StoredRow DEF AreRows
<1> QED  BY <1>2 DEF Inserted

\* The rows it inserts are its own and new.
LEMMA InsertedRows ==
  ASSUME NEW i, Passing(i)
  PROVE  /\ \A t \in Tables : AreRows(t, Inserted(i, t))
         /\ \A t \in Tables : PhaseOf[t] # tx[i].phase => Inserted(i, t) = {}
         /\ \A t \in Keyed : /\ UniqueIds(Inserted(i, t)) /\ UniqueKeys(Inserted(i, t))
                             /\ \A r \in Inserted(i, t) : r.id[1] = i /\ r.key # Blank
                             /\ \A r \in Inserted(i, t), s \in Now(i)[t] : r.key # s.key
         /\ UniqueIds(Inserted(i, "invoice_line"))
         /\ \A l \in Inserted(i, "invoice_line") : l.id[1] = i /\ l.by = i
<1> DEFINE now == Now(i)
           want == Want(i)
<1>0. \A t : Inserted(i, t) = {Stored(row) : row \in {r \in want[t] : ~Has(now[t], r.id)}}
  BY DEF Inserted
<1>2. Wanted(i, now, want) /\ NowRead(i, now) /\ Written(i)  BY DEF Passing
<1>7. \A t \in Tables \ {"invoice"} :
        Inserted(i, t) = {row \in want[t] : \A r \in now[t] : r.id # row.id}
  BY InsertedAsWanted DEF Has
<1> HIDE DEF now, want
<1>1. ASSUME NEW t \in Tables, NEW r \in Inserted(i, t)
      PROVE  /\ IsRow(t, r)
             /\ \E row \in want[t] : /\ r = Stored(row) /\ r.id = row.id
                                     /\ t \in Keyed => r.key = row.key
                                     /\ \A s \in now[t] : s.id # row.id
  <2>1. PICK row \in want[t] : ~Has(now[t], row.id) /\ r = Stored(row)  BY <1>0, <1>1
  <2>2. IsRow(t, row)  BY <1>2, <2>1 DEF Wanted, AreRows
  <2>3. /\ IsRow(t, r) /\ r.id = row.id /\ (t \in Keyed => r.key = row.key)
    BY <2>1, <2>2, StoredRow
  <2> QED  BY <2>1, <2>3 DEF Has
<1>3. \A t \in Tables : AreRows(t, Inserted(i, t))  BY <1>1 DEF AreRows
<1>4. ASSUME NEW t \in Tables, PhaseOf[t] # tx[i].phase PROVE Inserted(i, t) = {}
  <2>1. want[t] = now[t]  BY <1>2, <1>4 DEF Wanted
  <2>2. \A row \in want[t] : Has(now[t], row.id)  BY <2>1 DEF Has
  <2> QED  BY <1>0, <2>2
<1>5. ASSUME NEW t \in Keyed
      PROVE  /\ UniqueIds(Inserted(i, t)) /\ UniqueKeys(Inserted(i, t))
             /\ \A r \in Inserted(i, t) : r.id[1] = i /\ r.key # Blank
             /\ \A r \in Inserted(i, t), s \in now[t] : r.key # s.key
  <2>1. t \in Tables  BY Schema
  <2>2. CASE PhaseOf[t] # tx[i].phase
    BY <1>4, <2>1, <2>2 DEF UniqueIds, UniqueKeys
  <2>3. CASE PhaseOf[t] = tx[i].phase
    <3>1. Extends(i, t, now[t], want[t])  BY <1>2, <2>3 DEF Wanted
    <3>2. tx[i].phase >= tx[i].phase  BY <1>2 DEF Written
    <3>3. Others(i, now[t]) /\ UniqueIds(now[t])  BY <1>2, <2>3, <3>2 DEF NowRead
    <3>6. \A r \in want[t] : ~Has(now[t], r.id) =>
             r.id = <<i, t, r.key, 0>> /\ r.key # Blank /\ \A s \in now[t] : s.key # r.key
      BY <3>1, <3>3, NewKeys, Z3
    <3>4. ASSUME NEW r \in Inserted(i, t)
          PROVE  r.id[1] = i /\ r.key # Blank /\ \A s \in now[t] : s.key # r.key
      <4>1. PICK row \in want[t] : r.id = row.id /\ r.key = row.key
                                   /\ \A s \in now[t] : s.id # row.id
        BY <1>1, <2>1
      <4> QED  BY <3>6, <4>1 DEF Has
    <3>5. UniqueIds(Inserted(i, t)) /\ UniqueKeys(Inserted(i, t))
      <4>1. ASSUME NEW r \in Inserted(i, t), NEW s \in Inserted(i, t),
                   r.id = s.id \/ r.key = s.key
            PROVE  r = s
        <5>1. PICK row \in want[t] : r = Stored(row) /\ r.id = row.id /\ r.key = row.key
          BY <1>1, <2>1
        <5>2. PICK other \in want[t] : s = Stored(other) /\ s.id = other.id /\ s.key = other.key
          BY <1>1, <2>1
        <5>3. row = other
          BY <3>1, <4>1, <5>1, <5>2 DEF Extends, UniqueIds, UniqueKeys
        <5> QED  BY <5>1, <5>2, <5>3
      <4> QED  BY <4>1 DEF UniqueIds, UniqueKeys
    <3> QED  BY <3>4, <3>5
  <2> QED  BY <2>2, <2>3
<1>6. /\ UniqueIds(Inserted(i, "invoice_line"))
      /\ \A l \in Inserted(i, "invoice_line") : l.id[1] = i /\ l.by = i
  <2>1. CASE tx[i].phase # 3  BY <1>4, <2>1, PhasesOf, Schema DEF UniqueIds
  <2>2. CASE tx[i].phase = 3
    <3>1. LinesPass(i, now, tx[i].export.stavke, want)  BY <1>2, <2>2 DEF Wanted
    <3>2. \A l \in Inserted(i, "invoice_line") :
             l \in want["invoice_line"] /\ l \notin now["invoice_line"]
      BY <1>7, Schema
    <3> QED  BY <3>1, <3>2 DEF LinesPass, UniqueIds
  <2> QED  BY <2>1, <2>2
<1> QED  BY <1>3, <1>4, <1>5, <1>6 DEF now

\* An id has one row.
LEMMA RowOfId ==
  ASSUME NEW rows, UniqueIds(rows), NEW s \in rows
  PROVE  RowById(rows, s.id) = s
<1>1. RowById(rows, s.id) \in rows /\ RowById(rows, s.id).id = s.id  BY DEF RowById
<1> QED  BY <1>1 DEF UniqueIds

\* An update is of a row that has changed, and of a table of this pass if the table has a key.
LEMMA UpdatedRows ==
  ASSUME NEW i, Passing(i), NEW u \in Updated(i)
  PROVE  /\ IsUpdate(u)
         /\ \A t \in Keyed : u.id[2] \in Tags[t] =>
               /\ PhaseOf[t] = tx[i].phase
               /\ \E old \in Now(i)[t], row \in Want(i)[t] :
                     /\ old.id = u.id /\ row.id = u.id /\ old.key = row.key
                     /\ u.row = Stored(row) /\ u.row.key = row.key
                     /\ u.columns = {f \in Columns[t] : old[f] # row[f]}
                     /\ row \notin Now(i)[t]
<1> DEFINE now == Now(i)
           want == Want(i)
<1>1. Wanted(i, now, want) /\ NowRead(i, now) /\ Written(i)  BY DEF Passing
<1>0. PICK t \in Tables : \E row \in want[t] :
         /\ Has(now[t], row.id) /\ u = Update(RowById(now[t], row.id), row) /\ u.columns # {}
  BY DEF Updated
<1>2. PICK row \in want[t] :
         /\ Has(now[t], row.id) /\ u = Update(RowById(now[t], row.id), row) /\ u.columns # {}
  BY <1>0
<1> DEFINE old == RowById(now[t], row.id)
<1>3. old \in now[t] /\ old.id = row.id  BY <1>2 DEF Has, RowById
<1> HIDE DEF now, want, old
<1>4. IsRow(t, old) /\ IsRow(t, row)  BY <1>1, <1>2, <1>3 DEF Wanted, NowRead, AreRows
<1>5. /\ u.id = old.id /\ u.row = Stored(row)
      /\ u.columns = {f \in DOMAIN old : old[f] # row[f]}
  BY <1>2 DEF Update, old
<1>14. u.row.id = row.id /\ (t \in Keyed => u.row.key = row.key)  BY <1>4, <1>5, StoredRow
<1>6. DOMAIN old = Columns[t] /\ old = [f \in Columns[t] |-> old[f]]
      /\ row = [f \in Columns[t] |-> row[f]]
  BY <1>4 DEF IsRow
<1>7. old # row  BY <1>2, <1>5, <1>6
<1>8. UniqueIds(now[t]) => row \notin now[t]  BY <1>3, <1>7 DEF UniqueIds
<1>9. t # "invoice_line"
  <2> SUFFICES ASSUME t = "invoice_line" PROVE FALSE
    OBVIOUS
  <2>1. row \notin now[t]  BY <1>1, <1>8 DEF NowRead
  <2>2. CASE tx[i].phase # 3
    BY <1>1, <1>2, <2>1, <2>2, PhasesOf, Schema DEF Wanted
  <2>3. CASE tx[i].phase = 3
    <3>1. LinesPass(i, now, tx[i].export.stavke, want)  BY <1>1, <2>3 DEF Wanted
    <3>2. row.id[1] = i  BY <1>2, <2>1, <3>1 DEF LinesPass
    <3>3. old.id[1] # i  BY <1>1, <1>3 DEF NowRead, OtherLines
    <3> QED  BY <1>3, <3>2, <3>3
  <2> QED  BY <2>2, <2>3
<1>10. u.id[2] \in Tags[t]  BY <1>4, <1>5 DEF IsRow
<1>11. t \in Keyed => /\ PhaseOf[t] = tx[i].phase /\ old.key = row.key /\ row \notin now[t]
  <2> SUFFICES ASSUME t \in Keyed
               PROVE  PhaseOf[t] = tx[i].phase /\ old.key = row.key /\ row \notin now[t]
    OBVIOUS
  <2>1. row \notin now[t] /\ UniqueIds(now[t])  BY <1>1, <1>8 DEF NowRead
  <2>2. PhaseOf[t] = tx[i].phase  BY <1>1, <1>2, <2>1 DEF Wanted
  <2>3. Extends(i, t, now[t], want[t])  BY <1>1, <2>2 DEF Wanted
  <2>4. tx[i].phase >= tx[i].phase  BY <1>1 DEF Written
  <2>5. Others(i, now[t])  BY <1>1, <2>2, <2>4 DEF NowRead
  <2>6. PICK r \in want[t] : r.id = old.id /\ r.key = old.key
    BY <1>3, <2>1, <2>3, <2>5, ExtendsKeeps
  <2>7. r = row  BY <1>2, <1>3, <2>3, <2>6 DEF Extends, UniqueIds
  <2> QED  BY <2>1, <2>2, <2>6, <2>7
<1>12. IsUpdate(u)
  <2>1. u.row.id = u.id /\ "id" \notin u.columns  BY <1>3, <1>5, <1>14
  <2>2. u.id[2] # "line"  BY <1>9, <1>10, Schema
  <2>3. u.id[2] \in Keyed => t \in Keyed  BY <1>10, Schema
  <2>4. u.id[2] \in Keyed => "key" \notin u.columns  BY <1>5, <1>11, <2>3
  <2> QED  BY <2>1, <2>2, <2>4 DEF IsUpdate
<1>13. \A q \in Keyed : u.id[2] \in Tags[q] => q = t  BY <1>10, Schema
<1> QED  BY <1>2, <1>3, <1>5, <1>6, <1>11, <1>12, <1>13, <1>14 DEF now, want

\* What is deleted are lines that were read.
LEMMA DeletedLines ==
  ASSUME NEW i, Passing(i)
  PROVE  /\ \A d \in Deleted(i) : d[2] = "line"
         /\ tx[i].phase # 3 => Deleted(i) = {}
         /\ \A l \in Now(i)["invoice_line"] : l \in Want(i)["invoice_line"] \/ l.id \in Deleted(i)
<1>1. Wanted(i, Now(i), Want(i)) /\ NowRead(i, Now(i))  BY DEF Passing
<1>2. \A d \in Deleted(i) : d[2] = "line"
  <2>1. \A l \in Now(i)["invoice_line"] : IsRow("invoice_line", l)
    BY <1>1, Schema DEF NowRead, AreRows
  <2> QED  BY <2>1, Schema DEF Deleted, IsRow
<1>3. tx[i].phase # 3 => Want(i)["invoice_line"] = Now(i)["invoice_line"]
  BY <1>1, PhasesOf, Schema DEF Wanted
<1> QED  BY <1>2, <1>3 DEF Deleted

------------------------------------------------------------------------------
(* What a step of one import leaves to another.                              *)

\* The step is not of import j, and the two ran at the same time if it changes what is committed.
Beside(j) ==
    /\ tx'[j] = tx[j] /\ overlaps \subseteq overlaps'
    /\ (core' = core /\ overlaps' = overlaps) \/ ~Alone(j)'
    /\ \A t \in Keyed : \A s \in core[t] : \E q \in core'[t] : q.id = s.id /\ q.key = s.key
    /\ \A s \in core'["customer"] :
          {j, s.id[1]} \in overlaps' \/ \E q \in core["customer"] : q.id = s.id /\ q.key = s.key
    /\ \A l \in core'["invoice_line"] : l \in core["invoice_line"] \/ {j, l.by} \in overlaps'
    /\ \A t \in {"article", "invoice"} : \A r \in tx[j].ins[t] :
          /\ \A s \in core'[t] : s.key # r.key
          /\ \A k \in Imports \ {j} : Running(k)' => \A s \in tx'[k].ins[t] : r.key # s.key

\* What another import leaves of a report: the renamed articles of it,
LEMMA RenamedKept ==
  ASSUME core' = core, NEW e
  PROVE  RenamedArticles(e)' = RenamedArticles(e)
BY DEF RenamedArticles
\* what it can see,
LEMMA VisibleKept ==
  ASSUME core' = core, NEW j, tx'[j] = tx[j], NEW t
  PROVE  Visible(j, t)' = Visible(j, t)
BY DEF Visible
\* the names it overwrites,
LEMMA NamesKept ==
  ASSUME core' = core, NEW j, tx'[j] = tx[j], NamesAreFlagged(j)
  PROVE  NamesAreFlagged(j)'
BY VisibleKept DEF NamesAreFlagged
\* the articles it knows,
LEMMA KnownGrows ==
  ASSUME \A a \in core["article"] : \E b \in core'["article"] : b.key = a.key, NEW e
  PROVE  KnownArticles(e) \subseteq KnownArticles(e)'
BY DEF KnownArticles

\* and so all that it has reported.
LEMMA ReportedKept ==
  ASSUME NEW j, Reported(j), Beside(j)
  PROVE  Reported(j)'
<1>1. /\ tx'[j] = tx[j]
      /\ \A a \in core["article"] : \E b \in core'["article"] : b.key = a.key
  BY Schema DEF Beside
<1>2. Alone(j)' => core' = core /\ Alone(j)  BY DEF Beside, Alone
<1>3. /\ (tx[j].report.duplicates = DuplicateCodes(tx[j].export.artikli))'
      /\ (tx[j].report.unsegmented = MissingSegments(tx[j].export))'
  BY <1>1 DEF Reported
<1>4. Alone(j)' => (tx[j].report.renamed = RenamedArticles(tx[j].export))'
  BY <1>1, <1>2, RenamedKept DEF Reported
<1>5. (\A k \in DOMAIN tx[j].export.stavke \ tx[j].report.orphans :
          /\ tx[j].export.stavke[k].broj_fakture \in Invoices(tx[j].export)
          /\ tx[j].export.stavke[k].sifra_artikla \in KnownArticles(tx[j].export))'
  BY <1>1, KnownGrows DEF Reported
<1>6. SegmentsAreFlagged(j)'  BY <1>1 DEF Reported, SegmentsAreFlagged
<1>7. (tx[j].phase = 3 => \A row \in ToSet(tx[j].export.artikli) :
                             row.sifra # Blank => Known(j, row.sifra))'
  BY <1>1 DEF Reported, Known
<1>8. (tx[j].phase = 3 /\ Alone(j) => NamesAreFlagged(j))'
  BY <1>1, <1>2, NamesKept DEF Reported
<1>9. (tx[j].pc = "written" => LinesAreFlagged(j))'
  BY <1>1 DEF Reported, LinesAreFlagged
<1> QED  BY <1>3, <1>4, <1>5, <1>6, <1>7, <1>8, <1>9 DEF Reported

\* A running import stays good beside a step of another.
LEMMA GoodBeside ==
  ASSUME NEW j \in Imports, Good(j), Running(j) => Beside(j), tx'[j] = tx[j]
  PROVE  Good(j)'
<1> SUFFICES ASSUME Running(j)
             PROVE  /\ Written(j)' /\ KeysApart(j)' /\ ReplacesLines(j)' /\ Reported(j)'
                    /\ tx[j].pc \in {"writing", "waiting"} => Snapshot(j)' /\ ReadReported(j)'
                    /\ tx[j].pc = "waiting" => Doomed(j)'
  BY DEF Good, Running
<1>1. Beside(j) /\ Written(j) /\ KeysApart(j) /\ ReplacesLines(j) /\ Reported(j)  BY DEF Good
<1>2. Written(j)'  BY DEF Good, Written
<1>3. KeysApart(j)'
  <2>1. (\A t \in Keyed : UniqueKeys(tx[j].ins[t]))'  BY <1>1 DEF KeysApart
  <2>2. (\A t \in {"article", "invoice"} : \A r \in tx[j].ins[t] :
          r.key # Blank /\ \A s \in core[t] : s.key # r.key)'
    BY <1>1 DEF KeysApart, Beside
  <2>3. (\A r \in tx[j].ins["customer"], s \in core["customer"] :
          r.key = s.key => {j, s.id[1]} \in overlaps)'
    BY <1>1 DEF KeysApart, Beside
  <2>4. (\A k \in Imports \ {j}, t \in {"article", "invoice"} :
          Running(k) => \A r \in tx[j].ins[t], s \in tx[k].ins[t] : r.key # s.key)'
    BY <1>1 DEF Beside
  <2> QED  BY <2>1, <2>2, <2>3, <2>4 DEF KeysApart
<1>4. ReplacesLines(j)'  BY <1>1 DEF ReplacesLines, Beside
<1>5. Reported(j)'  BY <1>1, ReportedKept
<1>6. ASSUME tx[j].pc \in {"writing", "waiting"} PROVE Snapshot(j)' /\ ReadReported(j)'
  <2>1. Snapshot(j) /\ ReadReported(j)  BY <1>6 DEF Good
  <2>2. (DOMAIN tx[j].seen = Tables /\ \A t \in Tables : AreRows(t, tx[j].seen[t]))'
    BY <2>1 DEF Snapshot
  <2>3. ASSUME NEW t \in Keyed
        PROVE  (/\ UniqueIds(tx[j].seen[t]) /\ UniqueKeys(tx[j].seen[t])
                /\ \A r \in tx[j].seen[t] :
                      \E s \in core[t] \cup tx[j].ins[t] : s.id = r.id /\ s.key = r.key)'
    <3>1. /\ UniqueIds(tx[j].seen[t]) /\ UniqueKeys(tx[j].seen[t])
          /\ \A r \in tx[j].seen[t] :
                \E s \in core[t] \cup tx[j].ins[t] : s.id = r.id /\ s.key = r.key
      BY <2>1 DEF Snapshot
    <3>2. \A s \in core[t] : \E q \in core'[t] : q.id = s.id /\ q.key = s.key
      BY <1>1 DEF Beside
    <3> QED  BY <3>1, <3>2
  <2>4. (tx[j].phase = 1 => \A s \in core["customer"] :
          (\E r \in tx[j].seen["customer"] : r.key = s.key) \/ {j, s.id[1]} \in overlaps)'
    BY <1>1, <2>1 DEF Snapshot, Beside
  <2>5. Snapshot(j)'  BY <2>2, <2>3, <2>4 DEF Snapshot
  <2>6. Alone(j)' => core' = core /\ Alone(j)  BY <1>1 DEF Beside, Alone
  <2>7. ReadReported(j)'  BY <2>1, <2>6 DEF ReadReported
  <2> QED  BY <2>5, <2>7
<1>7. ASSUME tx[j].pc = "waiting" PROVE Doomed(j)'
  BY <1>1, <1>7 DEF Good, Doomed, Beside
<1> QED  BY <1>2, <1>3, <1>4, <1>5, <1>6, <1>7

\* A step that commits nothing leaves what is committed.
LEMMA CommittedKept ==
  ASSUME Committed, core' = core, overlaps \subseteq overlaps',
         \A k \in Imports : tx[k].pc = "completed" => tx'[k].pc = "completed"
  PROVE  Committed'
<1>1. OneRowPerKey'  BY DEF Committed, OneRowPerKey
<1>2. LinesOfOneImport'  BY DEF Committed, LinesOfOneImport
<1>3. (/\ \A t \in Tables : AreRows(t, core[t])
       /\ \A l \in core["invoice_line"] : l.by = l.id[1]
       /\ \A c \in DOMAIN Aliases : \E a \in core["article"] : a.key = Aliases[c])'
  BY DEF Committed
<1>4. (\A t \in Identified :
          /\ UniqueIds(core[t])
          /\ \A r \in core[t] : \/ r.id[1] = None
                                \/ r.id[1] \in Imports /\ tx[r.id[1]].pc = "completed")'
  BY DEF Committed
<1> QED  BY <1>1, <1>2, <1>3, <1>4 DEF Committed

\* A step of import i that commits nothing.
LEMMA BesideUncommitted ==
  ASSUME IInv, NEW i \in Imports, NEW j \in Imports \ {i}, Running(j), core' = core,
         \A k \in Imports \ {i} : tx'[k] = tx[k],
         overlaps' = overlaps \/ (overlaps \subseteq overlaps' /\ {i, j} \in overlaps'),
         \A t \in {"article", "invoice"} : \A r \in tx[j].ins[t], s \in tx'[i].ins[t] :
            Running(i)' => r.key # s.key
  PROVE  Beside(j)
<1>1. KeysApart(j)  BY DEF IInv, Good
<1>2. (core' = core /\ overlaps' = overlaps) \/ ~Alone(j)'  BY DEF Alone
<1>3. \A t \in {"article", "invoice"} : \A r \in tx[j].ins[t] :
         /\ \A s \in core'[t] : s.key # r.key
         /\ \A k \in Imports \ {j} : Running(k)' => \A s \in tx'[k].ins[t] : r.key # s.key
  <2> SUFFICES ASSUME NEW t \in {"article", "invoice"}, NEW r \in tx[j].ins[t]
               PROVE  /\ \A s \in core'[t] : s.key # r.key
                      /\ \A k \in Imports \ {j} :
                            Running(k)' => \A s \in tx'[k].ins[t] : r.key # s.key
    OBVIOUS
  <2>1. \A s \in core'[t] : s.key # r.key  BY <1>1 DEF KeysApart
  <2>2. ASSUME NEW k \in Imports \ {j}, Running(k)', NEW s \in tx'[k].ins[t], k # i
        PROVE  r.key # s.key
    BY <1>1, <2>2 DEF KeysApart, Running
  <2>3. ASSUME Running(i)', NEW s \in tx'[i].ins[t] PROVE r.key # s.key
    BY <2>3
  <2> QED  BY <2>1, <2>2, <2>3
<1> QED  BY <1>2, <1>3 DEF Beside

------------------------------------------------------------------------------
(* The invariant.                                                            *)

\* Initially nothing is committed and nothing runs.
LEMMA InitIInv == Init => IInv
<1> SUFFICES ASSUME Init PROVE IInv
  OBVIOUS
<1> DEFINE seed(c) == [id |-> <<None, "article", Aliases[c], 0>>, key |-> Aliases[c],
                       name |-> Aliases[c], active |-> "da"]
           rows == {seed(c) : c \in DOMAIN Aliases}
<1>1. /\ core["article"] = rows
      /\ \A t \in Tables \ {"article"} : core[t] = {}
      /\ core = [t \in Tables |-> core[t]]
  BY Schema DEF Init, NoRows
<1>2. /\ tx = [i \in Imports |-> tx[i]]
      /\ \A i \in Imports : tx[i] = Idle /\ tx[i].pc = "idle" /\ DOMAIN tx[i] = TxFields
  BY DEF Init, Idle, TxFields
<1>3. \A c : IsRow("article", seed(c)) /\ seed(c).id[1] = None /\ seed(c).key = Aliases[c]
             /\ seed(c).id[3] = seed(c).key
  BY Schema DEF IsRow
<1>4. \A c, d : seed(c).key = seed(d).key => seed(c) = seed(d)  OBVIOUS
<1> HIDE DEF seed, rows
<1>5. /\ AreRows("article", rows) /\ UniqueIds(rows) /\ UniqueKeys(rows)
      /\ \A r \in rows : r.id[1] = None
  BY <1>3, <1>4 DEF rows, AreRows, UniqueIds, UniqueKeys
<1>6. \A t \in Tables : AreRows(t, core[t])  BY <1>1, <1>5 DEF AreRows
<1>7. \A t \in Identified : UniqueIds(core[t]) /\ \A r \in core[t] : r.id[1] = None
  BY <1>1, <1>5, Schema DEF UniqueIds, Identified
<1>8. OneRowPerKey
  BY <1>1, <1>5, Schema DEF OneRowPerKey, UniqueKeys
<1>9. core["invoice_line"] = {}  BY <1>1, Schema
<1>10. \A c \in DOMAIN Aliases : \E a \in core["article"] : a.key = Aliases[c]
  BY <1>1, <1>3 DEF rows
<1>11. Committed  BY <1>6, <1>7, <1>8, <1>9, <1>10 DEF Committed, LinesOfOneImport
<1>12. \A i \in Imports : ~Running(i)  BY <1>2 DEF Running
<1> QED  BY <1>1, <1>2, <1>11, <1>12 DEF IInv, Shape, Overlapping, Good

\* A step changes the transaction of one import only.
LEMMA OneTx ==
  ASSUME Shape, NEW i \in Imports, NEW x, DOMAIN x = TxFields, tx' = [tx EXCEPT ![i] = x]
  PROVE  /\ tx'[i] = x /\ \A k \in Imports \ {i} : tx'[k] = tx[k]
         /\ tx' = [k \in Imports |-> tx'[k]] /\ \A k \in Imports : DOMAIN tx'[k] = TxFields
BY DEF Shape

\* A start makes the import overlap with those that run.
LEMMA StartKeepsIInv ==
  ASSUME IInv, NEW i \in Imports, NEW e \in Exports, Start(i, e)
  PROVE  IInv'
<1> DEFINE x == [Idle EXCEPT !.pc = "reading", !.export = e, !.phase = 1, !.report = Report(e)]
<1>1. /\ tx[i].pc = "idle" /\ tx' = [tx EXCEPT ![i] = x] /\ core' = core
      /\ overlaps' = overlaps \cup {{i, j} : j \in {k \in Imports \ {i} : Running(k)}}
  BY DEF Start
<1>2. /\ DOMAIN x = TxFields /\ x.pc = "reading" /\ x.export = e /\ x.phase = 1
      /\ x.ins = NoRows /\ x.upd = {} /\ x.del = {} /\ x.report = Report(e)
  BY DEF Idle, TxFields
<1> HIDE DEF x
<1>3. Shape /\ Committed /\ Overlapping  BY DEF IInv
<1>4. /\ tx'[i] = x /\ \A k \in Imports \ {i} : tx'[k] = tx[k]
      /\ tx' = [k \in Imports |-> tx'[k]] /\ \A k \in Imports : DOMAIN tx'[k] = TxFields
  BY <1>1, <1>2, <1>3, OneTx
<1>5. Shape'  BY <1>1, <1>3, <1>4 DEF Shape
<1>6. Committed'
  <2>1. \A k \in Imports : tx[k].pc = "completed" => tx'[k].pc = "completed"  BY <1>1, <1>4
  <2> QED  BY <1>1, <1>3, <2>1, CommittedKept
<1>7. Overlapping'
  BY <1>1, <1>3, <1>4 DEF Overlapping, Running
<1>8. \A t \in Tables : tx'[i].ins[t] = {}  BY <1>2, <1>4 DEF NoRows
<1>9. ASSUME NEW j \in Imports \ {i} PROVE Good(j)'
  <2>1. ASSUME Running(j) PROVE Beside(j)
    <3>1. {i, j} \in overlaps'  BY <1>1, <2>1
    <3>2. \A t \in {"article", "invoice"} : tx'[i].ins[t] = {}  BY <1>8, Schema
    <3> QED  BY <1>1, <1>4, <2>1, <3>1, <3>2, BesideUncommitted
  <2> QED  BY <1>4, <2>1, GoodBeside DEF IInv
<1>10. Good(i)'
  <2>1. Written(i)'
    <3>1. DOMAIN NoRows = Tables  BY DEF NoRows
    <3> QED  BY <1>2, <1>4, <1>8, <3>1, Schema DEF Written, AreRows, UniqueIds, Identified
  <2>2. KeysApart(i)'  BY <1>4, <1>8, Schema DEF KeysApart, UniqueKeys
  <2>3. ReplacesLines(i)'  BY <1>8, Schema DEF ReplacesLines
  <2>4. Reported(i)'
    <3>1. /\ Report(e).orphans = OrphanLines(e) /\ Report(e).renamed = RenamedArticles(e)
          /\ Report(e).duplicates = DuplicateCodes(e.artikli)
          /\ Report(e).unsegmented = MissingSegments(e)
      BY DEF Report
    <3>2. RenamedArticles(e)' = RenamedArticles(e)  BY <1>1, RenamedKept
    <3>3. KnownArticles(e) \subseteq KnownArticles(e)'  BY <1>1, KnownGrows
    <3>4. \A k \in DOMAIN e.stavke \ Report(e).orphans :
             /\ e.stavke[k].broj_fakture \in Invoices(e)
             /\ e.stavke[k].sifra_artikla \in KnownArticles(e)'
      BY <3>1, <3>3 DEF OrphanLines
    <3>5. SegmentsAreFlagged(i)'  BY <1>2, <1>4 DEF SegmentsAreFlagged
    <3>6. tx'[i].report = Report(e) /\ tx'[i].export = e /\ tx'[i].phase = 1 /\ tx'[i].pc = "reading"
      BY <1>2, <1>4
    <3> QED  BY <3>1, <3>2, <3>4, <3>5, <3>6 DEF Reported
  <2> QED  BY <1>2, <1>4, <2>1, <2>2, <2>3, <2>4 DEF Good
<1> QED  BY <1>5, <1>6, <1>7, <1>9, <1>10 DEF IInv

\* An abort leaves no trace.
LEMMA AbortKeepsIInv ==
  ASSUME IInv, NEW i \in Imports, Abort(i)
  PROVE  IInv'
<1> DEFINE x == [Idle EXCEPT !.pc = "failed"]
<1>1. /\ Running(i) /\ tx' = [tx EXCEPT ![i] = x] /\ core' = core /\ overlaps' = overlaps
  BY DEF Abort
<1>2. DOMAIN x = TxFields /\ x.pc = "failed"  BY DEF Idle, TxFields
<1> HIDE DEF x
<1>3. Shape /\ Committed /\ Overlapping  BY DEF IInv
<1>4. /\ tx'[i] = x /\ \A k \in Imports \ {i} : tx'[k] = tx[k]
      /\ tx' = [k \in Imports |-> tx'[k]] /\ \A k \in Imports : DOMAIN tx'[k] = TxFields
  BY <1>1, <1>2, <1>3, OneTx
<1>5. Shape'  BY <1>1, <1>3, <1>4 DEF Shape
<1>6. Committed'
  <2>1. \A k \in Imports : tx[k].pc = "completed" => tx'[k].pc = "completed"
    BY <1>1, <1>4 DEF Running
  <2> QED  BY <1>1, <1>3, <2>1, CommittedKept
<1>7. ~Running(i)'  BY <1>2, <1>4 DEF Running
<1>8. Overlapping'  BY <1>1, <1>3, <1>4, <1>7 DEF Overlapping, Running
<1>9. ASSUME NEW j \in Imports \ {i} PROVE Good(j)'
  <2>1. Running(j) => Beside(j)  BY <1>1, <1>4, <1>7, BesideUncommitted
  <2> QED  BY <1>4, <2>1, GoodBeside DEF IInv
<1>10. Good(i)'  BY <1>7 DEF Good
<1> QED  BY <1>5, <1>6, <1>8, <1>9, <1>10 DEF IInv

\* A step that leaves what the report is about, and does not finish the writing.
SameReport(i) ==
    /\ core' = core /\ overlaps' = overlaps
    /\ tx'[i].export = tx[i].export /\ tx'[i].report = tx[i].report /\ tx'[i].phase = tx[i].phase
    /\ tx'[i].ins = tx[i].ins /\ tx'[i].upd = tx[i].upd /\ tx'[i].del = tx[i].del

\* It leaves the report true.
LEMMA ReportedStays ==
  ASSUME NEW i, Reported(i), SameReport(i), tx'[i].pc # "written"
  PROVE  Reported(i)'
<1>1. Alone(i)' <=> Alone(i)  BY DEF SameReport, Alone
<1>2. Visible(i, "article")' = Visible(i, "article")  BY DEF SameReport, Visible
<1>3. NamesAreFlagged(i) => NamesAreFlagged(i)'  BY <1>2 DEF SameReport, NamesAreFlagged
<1>4. SegmentsAreFlagged(i)'  BY DEF Reported, SameReport, SegmentsAreFlagged
<1>5. (tx[i].report.renamed = RenamedArticles(tx[i].export))'
      <=> tx[i].report.renamed = RenamedArticles(tx[i].export)
  BY RenamedKept DEF SameReport
<1>6. (\A k \in DOMAIN tx[i].export.stavke \ tx[i].report.orphans :
          /\ tx[i].export.stavke[k].broj_fakture \in Invoices(tx[i].export)
          /\ tx[i].export.stavke[k].sifra_artikla \in KnownArticles(tx[i].export))'
  BY KnownGrows DEF Reported, SameReport
<1>7. (tx[i].phase = 3 => \A row \in ToSet(tx[i].export.artikli) :
                             row.sifra # Blank => Known(i, row.sifra))'
  BY DEF Reported, SameReport, Known
<1>8. (/\ tx[i].report.duplicates = DuplicateCodes(tx[i].export.artikli)
       /\ tx[i].report.unsegmented = MissingSegments(tx[i].export))'
  BY DEF Reported, SameReport
<1>9. (tx[i].phase = 3 /\ Alone(i) => NamesAreFlagged(i))'
  BY <1>1, <1>3 DEF Reported, SameReport
<1> QED  BY <1>1, <1>4, <1>5, <1>6, <1>7, <1>8, <1>9 DEF Reported

\* While waiting it holds the lines that were committed when it began to.
LEMMA WaitKeepsIInv ==
  ASSUME IInv, NEW i \in Imports, Wait(i)
  PROVE  IInv'
<1> DEFINE x == [tx[i] EXCEPT !.pc = "waiting", !.doomed = Visible(i, "invoice_line")]
<1>1. Shape /\ Committed /\ Overlapping  BY DEF IInv
<1>2. /\ tx[i].pc = "writing" /\ core' = core /\ overlaps' = overlaps
      /\ tx' = [tx EXCEPT ![i] = x]
  BY <1>1 DEF Wait, Shape
<1>3. /\ Running(i) /\ Written(i) /\ KeysApart(i) /\ ReplacesLines(i) /\ Reported(i)
      /\ Snapshot(i) /\ ReadReported(i)
  BY <1>2 DEF IInv, Good, Running
<1>4. Visible(i, "invoice_line") = core["invoice_line"]  BY <1>1, <1>2, <1>3, LinesSeen
<1>5. /\ DOMAIN x = TxFields /\ x.pc = "waiting" /\ x.doomed = core["invoice_line"]
      /\ x.export = tx[i].export /\ x.phase = tx[i].phase /\ x.seen = tx[i].seen
      /\ x.ins = tx[i].ins /\ x.upd = tx[i].upd /\ x.del = tx[i].del /\ x.report = tx[i].report
  BY <1>1, <1>4 DEF Shape, TxFields
<1> HIDE DEF x
<1>6. /\ tx'[i] = x /\ \A k \in Imports \ {i} : tx'[k] = tx[k]
      /\ tx' = [k \in Imports |-> tx'[k]] /\ \A k \in Imports : DOMAIN tx'[k] = TxFields
  BY <1>1, <1>2, <1>5, OneTx
<1>7. Shape'  BY <1>1, <1>2, <1>6 DEF Shape
<1>8. Committed'
  <2>1. \A k \in Imports : tx[k].pc = "completed" => tx'[k].pc = "completed"
    BY <1>2, <1>6
  <2> QED  BY <1>1, <1>2, <2>1, CommittedKept
<1>9. \A k \in Imports : Running(k)' <=> Running(k)  BY <1>3, <1>5, <1>6 DEF Running
<1>10. Overlapping'  BY <1>1, <1>2, <1>9 DEF Overlapping
<1>11. ASSUME NEW j \in Imports \ {i} PROVE Good(j)'
  <2>1. ASSUME Running(j) PROVE Beside(j)
    <3>1. \A t \in {"article", "invoice"} : \A r \in tx[j].ins[t], s \in tx'[i].ins[t] : r.key # s.key
      BY <1>3, <1>5, <1>6, <2>1 DEF KeysApart
    <3> QED  BY <1>2, <1>6, <2>1, <3>1, BesideUncommitted
  <2> QED  BY <1>6, <2>1, GoodBeside DEF IInv
<1>12. Good(i)'
  <2>1. Written(i)'
    <3>1. x.pc # "written"  BY <1>5
    <3> QED  BY <1>2, <1>3, <1>5, <1>6, <3>1 DEF Written
  <2>2. KeysApart(i)'  BY <1>2, <1>3, <1>5, <1>6, <1>9 DEF KeysApart
  <2>3. ReplacesLines(i)'  BY <1>2, <1>3, <1>5, <1>6 DEF ReplacesLines
  <2>4. Snapshot(i)'
    <3>1. /\ tx'[i].seen = tx[i].seen /\ tx'[i].ins = tx[i].ins /\ tx'[i].phase = tx[i].phase
          /\ core' = core /\ overlaps' = overlaps
      BY <1>2, <1>5, <1>6
    <3>2. (DOMAIN tx[i].seen = Tables /\ \A t \in Tables : AreRows(t, tx[i].seen[t]))'
      BY <1>3, <3>1 DEF Snapshot
    <3>3. (\A t \in Keyed :
             /\ UniqueIds(tx[i].seen[t]) /\ UniqueKeys(tx[i].seen[t])
             /\ \A r \in tx[i].seen[t] :
                  \E s \in core[t] \cup tx[i].ins[t] : s.id = r.id /\ s.key = r.key)'
      BY <1>3, <3>1, Zenon DEF Snapshot
    <3>4. (tx[i].phase = 1 => \A s \in core["customer"] :
             (\E r \in tx[i].seen["customer"] : r.key = s.key) \/ {i, s.id[1]} \in overlaps)'
      BY <1>3, <3>1 DEF Snapshot
    <3> QED  BY <3>2, <3>3, <3>4, Zenon DEF Snapshot
  <2>5. Doomed(i)'
    <3>1. /\ AreRows("invoice_line", core["invoice_line"]) /\ UniqueIds(core["invoice_line"])
          /\ \A l \in core["invoice_line"] : l.by = l.id[1]
      BY <1>1, Schema DEF Committed, Identified
    <3>2. \A l \in core["invoice_line"] : l.id[1] # i
      <4>1. "invoice_line" \in Identified  BY DEF Identified
      <4>2. \A l \in core["invoice_line"] :
               l.id[1] = None \/ (l.id[1] \in Imports /\ tx[l.id[1]].pc = "completed")
        BY <1>1, <4>1 DEF Committed
      <4> QED  BY <1>2, <4>2, IngestAssumption
    <3> QED  BY <1>2, <1>5, <1>6, <3>1, <3>2 DEF Doomed
  <2>6. SameReport(i)  BY <1>2, <1>5, <1>6 DEF SameReport
  <2>7. Reported(i)'
    <3>1. tx'[i].pc # "written"  BY <1>5, <1>6
    <3> QED  BY <1>3, <2>6, <3>1, ReportedStays
  <2>8. ReadReported(i)'  BY <1>2, <1>3, <1>5, <1>6 DEF ReadReported, Alone
  <2> QED  BY <1>5, <1>6, <2>1, <2>2, <2>3, <2>4, <2>5, <2>7, <2>8 DEF Good
<1> QED  BY <1>7, <1>8, <1>10, <1>11, <1>12 DEF IInv

\* The dictionaries that a pass reads.
LEMMA SeenRows ==
  ASSUME IInv, NEW i \in Imports, tx[i].pc = "reading", NEW seen \in Reads(i)
  PROVE  /\ DOMAIN seen = Tables
         /\ \A t \in Tables : seen[t] \subseteq Visible(i, t) /\ AreRows(t, Visible(i, t))
         /\ \A t \in Tables \ {"customer"} : seen[t] = Visible(i, t)
         /\ {r.key : r \in seen["customer"]} = {r.key : r \in Visible(i, "customer")}
         /\ UniqueKeys(seen["customer"])
         /\ \A t \in Keyed :
               /\ UniqueIds(Visible(i, t))
               /\ \A r \in Visible(i, t) :
                     \E s \in core[t] \cup tx[i].ins[t] : s.id = r.id /\ s.key = r.key
               /\ \A s \in core[t] \cup tx[i].ins[t] :
                     \E r \in Visible(i, t) : s.id = r.id /\ s.key = r.key
         /\ UniqueKeys(Visible(i, "article")) /\ UniqueKeys(Visible(i, "invoice"))
<1>1. Committed /\ Running(i) /\ tx[i].pc # "written"  BY DEF IInv, Running
<1>2. Written(i) /\ KeysApart(i)  BY <1>1 DEF IInv, Good
<1>3. PICK customers \in OnePerKey(Visible(i, "customer")) :
         seen = [t \in Tables |-> IF t = "customer" THEN customers ELSE Visible(i, t)]
  BY DEF Reads
<1>4. /\ customers \subseteq Visible(i, "customer") /\ UniqueKeys(customers)
      /\ {r.key : r \in customers} = {r.key : r \in Visible(i, "customer")}
  BY DEF OnePerKey, UniqueKeys
<1>5. /\ DOMAIN seen = Tables /\ seen["customer"] = customers
      /\ \A t \in Tables \ {"customer"} : seen[t] = Visible(i, t)
  BY <1>3, Schema
<1>6. \A t \in Tables : seen[t] \subseteq Visible(i, t)  BY <1>4, <1>5
<1>7. ASSUME NEW t \in Tables, NEW row \in core[t]
      PROVE  /\ IsRow(t, Patched(row, tx[i].upd)) /\ Patched(row, tx[i].upd).id = row.id
             /\ t \in Keyed => Patched(row, tx[i].upd).key = row.key
  <2>1. IsRow(t, row)  BY <1>1 DEF Committed, AreRows
  <2> QED  BY <1>2, <2>1, PatchedRow DEF Written
<1>8. \A t \in Tables : AreRows(t, Visible(i, t))
  BY <1>2, <1>7 DEF Visible, AreRows, Written
<1>9. ASSUME NEW t \in Keyed
      PROVE  /\ UniqueIds(Visible(i, t))
             /\ \A r \in Visible(i, t) :
                   \E s \in core[t] \cup tx[i].ins[t] : s.id = r.id /\ s.key = r.key
             /\ \A s \in core[t] \cup tx[i].ins[t] :
                   \E r \in Visible(i, t) : s.id = r.id /\ s.key = r.key
  <2>1. t \in Tables /\ t \in Identified  BY Schema DEF Identified
  <2>2. \A r, s \in core[t] : r.id = s.id => r = s  BY <1>1, <2>1 DEF Committed, UniqueIds
  <2>3. \A r, s \in tx[i].ins[t] : r.id = s.id => r = s  BY <1>2, <2>1 DEF Written, UniqueIds
  <2>4. \A r \in core[t], s \in tx[i].ins[t] : r.id # s.id
    <3>1. \A r \in core[t] : r.id[1] = None \/ (r.id[1] \in Imports /\ tx[r.id[1]].pc = "completed")
      BY <1>1, <2>1 DEF Committed
    <3>2. \A s \in tx[i].ins[t] : s.id[1] = i  BY <1>2, <2>1 DEF Written
    <3> QED  BY <3>1, <3>2, IngestAssumption
  <2>5. \A row \in core[t] : row.id \notin tx[i].del
    <3>1. \A row \in core[t] : IsRow(t, row)  BY <1>1, <2>1 DEF Committed, AreRows
    <3>2. \A row \in core[t] : row.id[2] # "line"  BY <3>1, Schema DEF IsRow
    <3> QED  BY <1>2, <3>2 DEF Written
  <2>6. \A r : r \in Visible(i, t) <=>
                 r \in tx[i].ins[t] \/ \E row \in core[t] : r = Patched(row, tx[i].upd)
    BY <2>5 DEF Visible
  <2>7. UniqueIds(Visible(i, t))
    BY <1>7, <2>1, <2>2, <2>3, <2>4, <2>6 DEF UniqueIds
  <2> QED  BY <1>7, <2>1, <2>6, <2>7
<1>10. ASSUME NEW t \in {"article", "invoice"} PROVE UniqueKeys(Visible(i, t))
  <2>1. t \in Keyed  BY Schema
  <2>2. \A r, s \in core[t] \cup tx[i].ins[t] : r.key = s.key => r = s
    <3>1. \A r, s \in core[t] : r.key = s.key => r = s
      BY <1>1, <2>1 DEF Committed, OneRowPerKey
    <3>2. \A r, s \in tx[i].ins[t] : r.key = s.key => r = s
      BY <1>2, <2>1 DEF KeysApart, UniqueKeys
    <3> QED  BY <1>2, <3>1, <3>2 DEF KeysApart
  <2> QED  BY <1>9, <2>1, <2>2 DEF UniqueKeys, UniqueIds
<1> QED  BY <1>4, <1>5, <1>6, <1>8, <1>9, <1>10

\* An import that no other overlaps reads all the articles there are.
LEMMA ArticlesSeen ==
  ASSUME NEW i \in Imports, Committed, Written(i), tx[i].pc # "written", tx[i].phase = 2
  PROVE  Visible(i, "article") = core["article"]
<1>1. /\ tx[i].ins["article"] = {} /\ tx[i].del = {}
      /\ \A u \in tx[i].upd : u.id[2] # "article"
  BY PhasesOf, Schema DEF Written
<1>2. ASSUME NEW row \in core["article"] PROVE Patched(row, tx[i].upd) = row
  <2>1. IsRow("article", row)  BY Schema DEF Committed, AreRows
  <2>2. row.id[2] = "article"  BY <2>1, Schema DEF IsRow
  <2>3. \A u \in tx[i].upd : u.id # row.id  BY <1>1, <2>2
  <2> QED  BY <2>1, <2>3, PatchedNone, Schema
<1> QED  BY <1>1, <1>2 DEF Visible

\* Reading puts what it can see into the dictionaries of the pass.
LEMMA ReadKeepsIInv ==
  ASSUME IInv, NEW i \in Imports, Read(i)
  PROVE  IInv'
<1>1. Shape /\ Committed /\ Overlapping  BY DEF IInv
<1>2. tx[i].pc = "reading" /\ core' = core /\ overlaps' = overlaps  BY DEF Read
<1>3. PICK seen \in Reads(i) : tx' = [tx EXCEPT ![i].pc = "writing", ![i].seen = seen]
  BY DEF Read
<1> DEFINE x == [tx[i] EXCEPT !.pc = "writing", !.seen = seen]
<1>4. tx' = [tx EXCEPT ![i] = x]  BY <1>1, <1>3 DEF Shape
<1>5. Running(i) /\ Written(i) /\ KeysApart(i) /\ ReplacesLines(i) /\ Reported(i)
  BY <1>2 DEF IInv, Good, Running
<1>6. /\ DOMAIN x = TxFields /\ x.pc = "writing" /\ x.seen = seen
      /\ x.export = tx[i].export /\ x.phase = tx[i].phase
      /\ x.ins = tx[i].ins /\ x.upd = tx[i].upd /\ x.del = tx[i].del /\ x.report = tx[i].report
  BY <1>1 DEF Shape, TxFields
<1> HIDE DEF x
<1>7. /\ tx'[i] = x /\ \A k \in Imports \ {i} : tx'[k] = tx[k]
      /\ tx' = [k \in Imports |-> tx'[k]] /\ \A k \in Imports : DOMAIN tx'[k] = TxFields
  BY <1>1, <1>4, <1>6, OneTx
<1>8. Shape'  BY <1>1, <1>2, <1>7 DEF Shape
<1>9. Committed'
  <2>1. \A k \in Imports : tx[k].pc = "completed" => tx'[k].pc = "completed"
    BY <1>2, <1>7
  <2> QED  BY <1>1, <1>2, <2>1, CommittedKept
<1>10. \A k \in Imports : Running(k)' <=> Running(k)  BY <1>5, <1>6, <1>7 DEF Running
<1>11. Overlapping'  BY <1>1, <1>2, <1>10 DEF Overlapping
<1>12. ASSUME NEW j \in Imports \ {i} PROVE Good(j)'
  <2>1. ASSUME Running(j) PROVE Beside(j)
    <3>1. \A t \in {"article", "invoice"} : \A r \in tx[j].ins[t], s \in tx'[i].ins[t] : r.key # s.key
      BY <1>5, <1>6, <1>7, <2>1 DEF KeysApart
    <3> QED  BY <1>2, <1>7, <2>1, <3>1, BesideUncommitted
  <2> QED  BY <1>7, <2>1, GoodBeside DEF IInv
<1>13. /\ DOMAIN seen = Tables
       /\ \A t \in Tables : seen[t] \subseteq Visible(i, t) /\ AreRows(t, Visible(i, t))
       /\ \A t \in Tables \ {"customer"} : seen[t] = Visible(i, t)
       /\ {r.key : r \in seen["customer"]} = {r.key : r \in Visible(i, "customer")}
       /\ UniqueKeys(seen["customer"])
       /\ \A t \in Keyed :
             /\ UniqueIds(Visible(i, t))
             /\ \A r \in Visible(i, t) :
                   \E s \in core[t] \cup tx[i].ins[t] : s.id = r.id /\ s.key = r.key
             /\ \A s \in core[t] \cup tx[i].ins[t] :
                   \E r \in Visible(i, t) : s.id = r.id /\ s.key = r.key
       /\ UniqueKeys(Visible(i, "article")) /\ UniqueKeys(Visible(i, "invoice"))
  BY <1>2, SeenRows
<1>14. Snapshot(i)'
  <2>1. \A t \in Tables : AreRows(t, seen[t])  BY <1>13 DEF AreRows
  <2>2. ASSUME NEW t \in Keyed
        PROVE  /\ UniqueIds(seen[t]) /\ UniqueKeys(seen[t])
               /\ \A r \in seen[t] : \E s \in core[t] \cup tx[i].ins[t] : s.id = r.id /\ s.key = r.key
    <3>1. t \in Tables  BY Schema
    <3>2. seen[t] \subseteq Visible(i, t)  BY <1>13, <3>1
    <3>3. UniqueKeys(seen[t])  BY <1>13, Schema
    <3> QED  BY <1>13, <3>2, <3>3 DEF UniqueIds
  <2>3. \A s \in core["customer"] : \E r \in seen["customer"] : r.key = s.key
    <3>1. \A s \in core["customer"] : s.key \in {r.key : r \in Visible(i, "customer")}
      BY <1>13, Schema
    <3> QED  BY <1>13, <3>1
  <2> QED  BY <1>2, <1>6, <1>7, <1>13, <2>1, <2>2, <2>3 DEF Snapshot
<1>15. ReadReported(i)'
  <2>1. seen["article"] = Visible(i, "article")  BY <1>13, Schema
  <2>2. tx[i].phase = 2 => seen["article"] = core["article"]
    BY <1>1, <1>2, <1>5, <2>1, ArticlesSeen
  <2>3. ASSUME tx[i].phase = 3, NEW k \in DOMAIN tx[i].export.stavke \ tx[i].report.orphans
        PROVE  ArticleIds(seen, tx[i].export.stavke[k].sifra_artikla) # {}
    <3> DEFINE code == tx[i].export.stavke[k].sifra_artikla
    <3>1. code \in KnownArticles(tx[i].export)  BY <1>5 DEF Reported
    <3>2. \A s \in core["article"] \cup tx[i].ins["article"] :
             \E r \in seen["article"] : r.key = s.key
      BY <1>13, <2>1, Schema
    <3>3. \/ \E a \in core["article"] \cup tx[i].ins["article"] : a.key = code
          \/ code \in DOMAIN Aliases
      BY <1>5, <2>3, <3>1 DEF KnownArticles, Reported, Known
    <3>4. code \in DOMAIN Aliases => \E a \in core["article"] : a.key = Aliases[code]
      BY <1>1 DEF Committed
    <3> HIDE DEF code
    <3>5. \/ Find(seen["article"], code) # {}
          \/ code \in DOMAIN Aliases /\ Find(seen["article"], Aliases[code]) # {}
      BY <3>2, <3>3, <3>4 DEF Find
    <3>6. ArticleIds(seen, code) # {}  BY <3>5 DEF ArticleIds
    <3> QED  BY <3>6 DEF code
  <2> QED  BY <1>2, <1>6, <1>7, <2>2, <2>3 DEF ReadReported
<1>16. Good(i)'
  <2>1. tx'[i].pc = "writing"  BY <1>6, <1>7
  <2>2. Written(i)'  BY <1>2, <1>5, <1>6, <1>7 DEF Written
  <2>3. KeysApart(i)'  BY <1>2, <1>5, <1>6, <1>7, <1>10 DEF KeysApart
  <2>4. ReplacesLines(i)'  BY <1>2, <1>5, <1>6, <1>7 DEF ReplacesLines
  <2>5. SameReport(i)  BY <1>2, <1>6, <1>7 DEF SameReport
  <2>6. Reported(i)'  BY <1>5, <2>1, <2>5, ReportedStays
  <2> QED  BY <1>14, <1>15, <2>1, <2>2, <2>3, <2>4, <2>6 DEF Good
<1> QED  BY <1>8, <1>9, <1>11, <1>12, <1>16 DEF IInv

\* What a commit makes of the tables.
LEMMA CommitRows ==
  ASSUME IInv, NEW i \in Imports, Commit(i)
  PROVE  /\ \A t \in Tables : AreRows(t, core'[t])
         /\ \A t \in Tables : \A r \in core'[t] :
               r \in tx[i].ins[t] \/ \E s \in core[t] : r = Patched(s, tx[i].upd)
         /\ \A t \in Keyed : \A s \in core[t] :
               /\ Patched(s, tx[i].upd) \in core'[t] /\ Patched(s, tx[i].upd).id = s.id
               /\ Patched(s, tx[i].upd).key = s.key
         /\ \A l \in core'["invoice_line"] :
               l \in tx[i].ins["invoice_line"] \/ (l \in core["invoice_line"] /\ l.id \notin tx[i].del)
<1>1. tx[i].pc = "written" /\ Running(i) /\ Committed  BY DEF Commit, Running, IInv
<1>2. Written(i)  BY <1>1 DEF IInv, Good
<1>3. \A t \in Tables : core'[t] =
         {Patched(row, tx[i].upd) : row \in {r \in core[t] : r.id \notin tx[i].del}} \cup tx[i].ins[t]
  BY DEF Commit
<1>4. ASSUME NEW t \in Tables, NEW row \in core[t]
      PROVE  /\ IsRow(t, row)
             /\ IsRow(t, Patched(row, tx[i].upd)) /\ Patched(row, tx[i].upd).id = row.id
             /\ t \in Keyed => Patched(row, tx[i].upd).key = row.key
  <2>1. IsRow(t, row)  BY <1>1 DEF Committed, AreRows
  <2> QED  BY <1>2, <2>1, PatchedRow DEF Written
<1>5. \A t \in Tables : AreRows(t, core'[t])  BY <1>2, <1>3, <1>4 DEF AreRows, Written
<1>6. \A t \in Tables : \A r \in core'[t] :
         r \in tx[i].ins[t] \/ \E s \in core[t] : r = Patched(s, tx[i].upd)
  BY <1>3
<1>7. ASSUME NEW t \in Keyed, NEW s \in core[t]
      PROVE  /\ Patched(s, tx[i].upd) \in core'[t] /\ Patched(s, tx[i].upd).id = s.id
             /\ Patched(s, tx[i].upd).key = s.key
  <2>1. t \in Tables  BY Schema
  <2>2. s.id[2] # "line"  BY <1>4, <2>1, Schema DEF IsRow
  <2>3. s.id \notin tx[i].del  BY <1>2, <2>2 DEF Written
  <2> QED  BY <1>3, <1>4, <2>1, <2>3
<1>8. \A l \in core'["invoice_line"] :
         l \in tx[i].ins["invoice_line"] \/ (l \in core["invoice_line"] /\ l.id \notin tx[i].del)
  <2>1. ASSUME NEW l \in core["invoice_line"] PROVE Patched(l, tx[i].upd) = l
    <3>1. IsRow("invoice_line", l)  BY <1>4, Schema
    <3>2. l.id[2] = "line"  BY <3>1, Schema DEF IsRow
    <3>3. \A u \in tx[i].upd : u.id # l.id  BY <1>2, <3>2 DEF Written, IsUpdate
    <3> QED  BY <3>1, <3>3, PatchedNone, Schema
  <2>2. "invoice_line" \in Tables  BY Schema
  <2> QED  BY <1>3, <2>1, <2>2
<1> QED  BY <1>5, <1>6, <1>7, <1>8

\* The commit: rows that were apart in the transaction are apart in the tables.
LEMMA CommitKeepsIInv ==
  ASSUME IInv, NEW i \in Imports, Commit(i)
  PROVE  IInv'
<1> DEFINE x == [Idle EXCEPT !.pc = "completed", !.export = tx[i].export]
<1>1. Shape /\ Committed /\ Overlapping  BY DEF IInv
<1>2. /\ tx[i].pc = "written" /\ tx' = [tx EXCEPT ![i] = x] /\ overlaps' = overlaps
      /\ core' = [t \in Tables |-> core'[t]]
  BY DEF Commit
<1>3. Running(i) /\ Written(i) /\ KeysApart(i) /\ ReplacesLines(i)
  BY <1>2 DEF IInv, Good, Running
<1>4. DOMAIN x = TxFields /\ x.pc = "completed"  BY DEF Idle, TxFields
<1> HIDE DEF x
<1>5. /\ tx'[i] = x /\ \A k \in Imports \ {i} : tx'[k] = tx[k]
      /\ tx' = [k \in Imports |-> tx'[k]] /\ \A k \in Imports : DOMAIN tx'[k] = TxFields
  BY <1>1, <1>2, <1>4, OneTx
<1>6. Shape'  BY <1>2, <1>5 DEF Shape
<1>7. ~Running(i)' /\ \A k \in Imports \ {i} : Running(k)' <=> Running(k)
  BY <1>4, <1>5 DEF Running
<1>8. Overlapping'  BY <1>1, <1>2, <1>7 DEF Overlapping
<1>9. /\ \A t \in Tables : AreRows(t, core'[t])
      /\ \A t \in Tables : \A r \in core'[t] :
            r \in tx[i].ins[t] \/ \E s \in core[t] : r = Patched(s, tx[i].upd)
      /\ \A t \in Keyed : \A s \in core[t] :
            /\ Patched(s, tx[i].upd) \in core'[t] /\ Patched(s, tx[i].upd).id = s.id
            /\ Patched(s, tx[i].upd).key = s.key
      /\ \A l \in core'["invoice_line"] :
            l \in tx[i].ins["invoice_line"] \/ (l \in core["invoice_line"] /\ l.id \notin tx[i].del)
  BY CommitRows
<1> DEFINE P(s) == Patched(s, tx[i].upd)
<1>10. \A t \in Identified :
          /\ UniqueIds(core[t]) /\ UniqueIds(tx[i].ins[t])
          /\ \A r \in core[t] :
                r.id[1] # i /\ (r.id[1] = None \/ (r.id[1] \in Imports /\ tx'[r.id[1]].pc = "completed"))
          /\ \A r \in tx[i].ins[t] : r.id[1] = i
  <2>1. \A t \in Identified : \A r \in core[t] :
           r.id[1] = None \/ (r.id[1] \in Imports /\ tx[r.id[1]].pc = "completed")
    BY <1>1 DEF Committed
  <2>2. \A t \in Identified : \A r \in core[t] :
           r.id[1] # i /\ (r.id[1] = None \/ (r.id[1] \in Imports /\ tx'[r.id[1]].pc = "completed"))
    BY <1>2, <1>5, <2>1, IngestAssumption
  <2> QED  BY <1>1, <1>3, <2>2 DEF Committed, Written
<1>11. \A t \in Identified :
          /\ UniqueIds(core'[t])
          /\ \A r \in core'[t] : r.id[1] = None \/ (r.id[1] \in Imports /\ tx'[r.id[1]].pc = "completed")
  <2> SUFFICES ASSUME NEW t \in Identified
               PROVE  /\ UniqueIds(core'[t])
                      /\ \A r \in core'[t] :
                            r.id[1] = None \/ (r.id[1] \in Imports /\ tx'[r.id[1]].pc = "completed")
    OBVIOUS
  <2>1. tx'[i].pc = "completed"  BY <1>4, <1>5
  <2>2. CASE t = "invoice_line"
    BY <1>9, <1>10, <2>1, <2>2 DEF UniqueIds
  <2>3. CASE t \in Keyed
    <3>1. t \in Tables  BY <2>3, Schema
    <3>2. \A r \in core'[t] : r \in tx[i].ins[t] \/ \E s \in core[t] : r = P(s)
      BY <1>9, <3>1
    <3>3. \A s \in core[t] : P(s).id = s.id  BY <1>9, <2>3
    <3> HIDE DEF P
    <3> QED  BY <1>10, <2>1, <3>2, <3>3 DEF UniqueIds
  <2> QED  BY <2>2, <2>3 DEF Identified
<1>12. OneRowPerKey'
  <2> SUFFICES ASSUME NEW t \in Keyed, NEW r \in core'[t], NEW s \in core'[t],
                      r.key = s.key, r # s
               PROVE  t = "customer" /\ {r.id[1], s.id[1]} \in overlaps
    BY <1>2 DEF OneRowPerKey
  <2>1. t \in Tables  BY Schema
  <2>2. \A q \in core'[t] : q \in tx[i].ins[t] \/ \E o \in core[t] : q = P(o)
    BY <1>9, <2>1
  <2>3. \A o \in core[t] : P(o).id = o.id /\ P(o).key = o.key  BY <1>9
  <2>4. \A q \in tx[i].ins[t] : q.id[1] = i  BY <1>10 DEF Identified
  <2> HIDE DEF P
  <2>5. ASSUME NEW q \in tx[i].ins[t], NEW o \in core[t], q.key = o.key
        PROVE  t = "customer" /\ {i, o.id[1]} \in overlaps
    BY <1>3, <2>5, Schema DEF KeysApart
  <2>6. CASE r \in tx[i].ins[t] /\ s \in tx[i].ins[t]
    BY <1>3, <2>6 DEF KeysApart, UniqueKeys
  <2>7. CASE r \in tx[i].ins[t] /\ \E o \in core[t] : s = P(o)
    BY <2>3, <2>4, <2>5, <2>7
  <2>8. CASE s \in tx[i].ins[t] /\ \E o \in core[t] : r = P(o)
    <3>1. t = "customer" /\ {s.id[1], r.id[1]} \in overlaps  BY <2>3, <2>4, <2>5, <2>8
    <3>2. {s.id[1], r.id[1]} = {r.id[1], s.id[1]}  OBVIOUS
    <3> QED  BY <3>1, <3>2
  <2>9. CASE (\E o \in core[t] : r = P(o)) /\ (\E o \in core[t] : s = P(o))
    BY <1>1, <2>3, <2>9 DEF Committed, OneRowPerKey
  <2> QED  BY <2>2, <2>6, <2>7, <2>8, <2>9
<1>13. LinesOfOneImport'
  <2> SUFFICES ASSUME NEW l \in core'["invoice_line"], NEW m \in core'["invoice_line"],
                      l.invoice = m.invoice, l.by # m.by
               PROVE  {l.by, m.by} \in overlaps
    BY <1>2 DEF LinesOfOneImport
  <2>1. \A q \in tx[i].ins["invoice_line"] : q.by = i  BY <1>3 DEF Written
  <2>2. ASSUME NEW q \in tx[i].ins["invoice_line"], NEW o \in core["invoice_line"],
               o.id \notin tx[i].del, q.invoice = o.invoice
        PROVE  {i, o.by} \in overlaps
    BY <1>3, <2>2 DEF ReplacesLines
  <2>3. {l.by, m.by} = {m.by, l.by}  OBVIOUS
  <2> QED  BY <1>1, <1>9, <2>1, <2>2, <2>3 DEF Committed, LinesOfOneImport
<1>14. Committed'
  <2>1. \A l \in core'["invoice_line"] : l.by = l.id[1]
    <3>1. \A l \in tx[i].ins["invoice_line"] : l.by = i /\ l.id[1] = i
      BY <1>3 DEF Written, Identified
    <3> QED  BY <1>1, <1>9, <3>1 DEF Committed
  <2>2. \A c \in DOMAIN Aliases : \E a \in core'["article"] : a.key = Aliases[c]
    BY <1>1, <1>9, Schema DEF Committed
  <2> QED  BY <1>9, <1>11, <1>12, <1>13, <2>1, <2>2 DEF Committed
<1>15. ASSUME NEW j \in Imports \ {i} PROVE Good(j)'
  <2>1. ASSUME Running(j) PROVE Beside(j)
    <3>1. {j, i} \in overlaps  BY <1>1, <1>3, <2>1 DEF Overlapping
    <3>2. ~Alone(j)'  BY <1>2, <3>1 DEF Alone
    <3>3. KeysApart(j)  BY <2>1 DEF IInv, Good
    <3>4. \A t \in Keyed : \A s \in core[t] : \E q \in core'[t] : q.id = s.id /\ q.key = s.key
      BY <1>9
    <3>5. ASSUME NEW t \in Keyed, NEW s \in core'[t]
          PROVE  s \in tx[i].ins[t] \/ \E q \in core[t] : q.id = s.id /\ q.key = s.key
      <4>1. t \in Tables  BY Schema
      <4> QED  BY <1>9, <4>1
    <3>6. \A s \in core'["customer"] :
             {j, s.id[1]} \in overlaps' \/ \E q \in core["customer"] : q.id = s.id /\ q.key = s.key
      <4>1. "customer" \in Keyed /\ "customer" \in Identified  BY Schema DEF Identified
      <4>2. \A s \in tx[i].ins["customer"] : s.id[1] = i  BY <1>10, <4>1
      <4> QED  BY <1>2, <3>1, <3>5, <4>1, <4>2
    <3>7. \A l \in core'["invoice_line"] : l \in core["invoice_line"] \/ {j, l.by} \in overlaps'
      BY <1>2, <1>3, <1>9, <3>1 DEF Written
    <3>8. ASSUME NEW t \in {"article", "invoice"}, NEW r \in tx[j].ins[t]
          PROVE  /\ \A s \in core'[t] : s.key # r.key
                 /\ \A k \in Imports \ {j} : Running(k)' => \A s \in tx'[k].ins[t] : r.key # s.key
      <4>1. t \in Keyed  BY Schema
      <4>2. \A s \in core'[t] : s.key # r.key  BY <1>3, <3>3, <3>5, <4>1 DEF KeysApart
      <4>3. \A k \in Imports \ {j} : Running(k)' => \A s \in tx'[k].ins[t] : r.key # s.key
        BY <1>5, <1>7, <3>3 DEF KeysApart
      <4> QED  BY <4>2, <4>3
    <3> QED  BY <1>2, <1>5, <3>2, <3>4, <3>6, <3>7, <3>8 DEF Beside
  <2> QED  BY <1>5, <2>1, GoodBeside DEF IInv
<1>16. Good(i)'  BY <1>7 DEF Good
<1> QED  BY <1>6, <1>8, <1>14, <1>15, <1>16 DEF IInv

\* What a write does, and what it may take for granted.
Writes(i) ==
    /\ i \in Imports /\ Committed /\ Running(i) /\ tx[i].pc # "completed"
    /\ Passing(i) /\ KeysApart(i) /\ ReplacesLines(i) /\ Reported(i) /\ Snapshot(i) /\ ReadReported(i)
    /\ ~Locked(i) /\ ~Violates(i)
    /\ core' = core /\ overlaps' = overlaps
    /\ \A k \in Imports \ {i} : tx'[k] = tx[k]
    /\ tx' = [k \in Imports |-> tx'[k]] /\ \A k \in Imports : DOMAIN tx'[k] = TxFields
    /\ DOMAIN tx'[i].ins = Tables
    /\ \A t \in Tables : tx'[i].ins[t] = tx[i].ins[t] \cup Inserted(i, t)
    /\ tx'[i].upd = tx[i].upd \cup Updated(i) /\ tx'[i].del = tx[i].del \cup Deleted(i)
    /\ tx'[i].export = tx[i].export /\ tx'[i].report = tx[i].report
    /\ tx'[i].phase = IF tx[i].phase < 3 THEN tx[i].phase + 1 ELSE tx[i].phase
    /\ tx'[i].pc = IF tx[i].phase < 3 THEN "reading" ELSE "written"

\* The write as one step on a good import.
LEMMA WriteStep ==
  ASSUME IInv, NEW i \in Imports, Write(i)
  PROVE  Writes(i)
<1> DEFINE x == [tx[i] EXCEPT !.ins = [t \in Tables |-> tx[i].ins[t] \cup Inserted(i, t)],
                              !.upd = tx[i].upd \cup Updated(i), !.del = tx[i].del \cup Deleted(i),
                              !.seen = NoRows, !.doomed = {},
                              !.phase = IF tx[i].phase < Len(Phases) THEN tx[i].phase + 1 ELSE tx[i].phase,
                              !.pc = IF tx[i].phase < Len(Phases) THEN "reading" ELSE "written"]
<1>1. Shape /\ Committed  BY DEF IInv
<1>2. /\ tx[i].pc \in {"writing", "waiting"} /\ ~Locked(i) /\ ~Violates(i)
      /\ core' = core /\ overlaps' = overlaps
  BY DEF Write
<1>3. tx' = [tx EXCEPT ![i] = x]  BY <1>1 DEF Write, Shape
<1>4. /\ DOMAIN x = TxFields /\ x.ins = [t \in Tables |-> tx[i].ins[t] \cup Inserted(i, t)]
      /\ x.upd = tx[i].upd \cup Updated(i) /\ x.del = tx[i].del \cup Deleted(i)
      /\ x.export = tx[i].export /\ x.report = tx[i].report
      /\ x.phase = IF tx[i].phase < 3 THEN tx[i].phase + 1 ELSE tx[i].phase
      /\ x.pc = IF tx[i].phase < 3 THEN "reading" ELSE "written"
  BY <1>1, PhasesOf DEF Shape, TxFields
<1> HIDE DEF x
<1>5. /\ tx'[i] = x /\ \A k \in Imports \ {i} : tx'[k] = tx[k]
      /\ tx' = [k \in Imports |-> tx'[k]] /\ \A k \in Imports : DOMAIN tx'[k] = TxFields
  BY <1>1, <1>3, <1>4, OneTx
<1>6. Passing(i)  BY <1>2, PassReady
<1>7. /\ Running(i) /\ tx[i].pc # "completed" /\ KeysApart(i) /\ ReplacesLines(i) /\ Reported(i)
      /\ Snapshot(i) /\ ReadReported(i)
  BY <1>2 DEF IInv, Good, Running
<1>8. DOMAIN tx'[i].ins = Tables /\ \A t \in Tables : tx'[i].ins[t] = tx[i].ins[t] \cup Inserted(i, t)
  BY <1>4, <1>5
<1> QED  BY <1>1, <1>2, <1>4, <1>5, <1>6, <1>7, <1>8 DEF Writes

\* Each table gets its new rows from one pass.
LEMMA WrittenRows ==
  ASSUME NEW i, Writes(i), NEW t \in Tables
  PROVE  \/ PhaseOf[t] # tx[i].phase /\ Inserted(i, t) = {} /\ tx'[i].ins[t] = tx[i].ins[t]
         \/ PhaseOf[t] = tx[i].phase /\ tx[i].ins[t] = {} /\ tx'[i].ins[t] = Inserted(i, t)
<1>1. Passing(i) /\ tx'[i].ins[t] = tx[i].ins[t] \cup Inserted(i, t)  BY DEF Writes
<1>2. PhaseOf[t] # tx[i].phase => Inserted(i, t) = {}  BY <1>1, InsertedRows
<1>3. PhaseOf[t] = tx[i].phase => tx[i].ins[t] = {}
  BY <1>1, PhasesOf, Schema DEF Passing, Written
<1> QED  BY <1>1, <1>2, <1>3

\* Part by part, the write leaves the import good: what it has written,
LEMMA WriteWritten ==
  ASSUME NEW i, Writes(i)
  PROVE  Written(i)'
<1>1. Passing(i) /\ Written(i) /\ tx[i].pc # "written"  BY DEF Writes, Passing
<1>2. /\ tx[i].export \in Exports /\ tx[i].phase \in 1 .. 3 /\ tx[i].del = {}
      /\ \A u \in tx[i].upd : IsUpdate(u)
      /\ \A t \in Tables : PhaseOf[t] >= tx[i].phase =>
            tx[i].ins[t] = {} /\ \A u \in tx[i].upd : u.id[2] \notin Tags[t]
  BY <1>1 DEF Written
<1>3. /\ tx'[i].export = tx[i].export /\ DOMAIN tx'[i].ins = Tables
      /\ tx'[i].upd = tx[i].upd \cup Updated(i) /\ tx'[i].del = Deleted(i)
      /\ tx'[i].phase = IF tx[i].phase < 3 THEN tx[i].phase + 1 ELSE tx[i].phase
      /\ tx'[i].pc = IF tx[i].phase < 3 THEN "reading" ELSE "written"
  BY <1>2 DEF Writes
<1>4. \A t \in Tables : \/ PhaseOf[t] # tx[i].phase /\ tx'[i].ins[t] = tx[i].ins[t]
                        \/ PhaseOf[t] = tx[i].phase /\ tx'[i].ins[t] = Inserted(i, t)
  BY WrittenRows
<1>5. \A t \in Tables : AreRows(t, tx'[i].ins[t])  BY <1>1, <1>4, InsertedRows DEF Written
<1>6. \A t \in Identified : UniqueIds(tx'[i].ins[t]) /\ \A r \in tx'[i].ins[t] : r.id[1] = i
  <2>1. \A t \in Identified : t \in Tables  BY Schema DEF Identified
  <2>2. \A t \in Identified : UniqueIds(Inserted(i, t)) /\ \A r \in Inserted(i, t) : r.id[1] = i
    BY <1>1, InsertedRows DEF Identified
  <2> QED  BY <1>1, <1>4, <2>1, <2>2 DEF Written
<1>7. \A l \in tx'[i].ins["invoice_line"] : l.by = i
  BY <1>1, <1>4, InsertedRows, Schema DEF Written
<1>8. \A u \in tx'[i].upd : IsUpdate(u)  BY <1>1, <1>2, <1>3, UpdatedRows
<1>9. \A d \in tx'[i].del : d[2] = "line"  BY <1>1, <1>3, DeletedLines
<1>10. ASSUME tx'[i].pc # "written"
       PROVE  /\ tx'[i].del = {}
              /\ \A t \in Tables : PhaseOf[t] >= tx'[i].phase =>
                    tx'[i].ins[t] = {} /\ \A u \in tx'[i].upd : u.id[2] \notin Tags[t]
  <2>1. tx[i].phase < 3 /\ tx'[i].phase = tx[i].phase + 1  BY <1>3, <1>10
  <2>2. tx'[i].del = {}  BY <1>1, <1>2, <1>3, <2>1, DeletedLines
  <2>3. ASSUME NEW t \in Tables, PhaseOf[t] >= tx'[i].phase
        PROVE  tx'[i].ins[t] = {} /\ \A u \in tx'[i].upd : u.id[2] \notin Tags[t]
    <3>1. PhaseOf[t] \in 1 .. 3  BY PhasesOf, Schema
    <3>2. PhaseOf[t] >= tx[i].phase /\ PhaseOf[t] # tx[i].phase  BY <1>2, <2>1, <2>3, <3>1
    <3>3. tx'[i].ins[t] = {}  BY <1>2, <1>4, <3>2
    <3>4. PhaseOf[t] # 1  BY <1>2, <2>1, <2>3
    <3>5. t \in Keyed \/ t = "invoice_line"  BY <3>4, PhasesOf, Schema
    <3>6. ASSUME NEW u \in Updated(i) PROVE u.id[2] \notin Tags[t]
      <4>1. IsUpdate(u) /\ (t \in Keyed /\ u.id[2] \in Tags[t] => PhaseOf[t] = tx[i].phase)
        BY <1>1, UpdatedRows
      <4> QED  BY <3>2, <3>5, <4>1, Schema DEF IsUpdate
    <3> QED  BY <1>2, <1>3, <3>2, <3>3, <3>6
  <2> QED  BY <2>2, <2>3
<1>11. tx'[i].phase \in 1 .. 3 /\ (tx'[i].pc = "written" => tx'[i].phase = 3)
  BY <1>2, <1>3
<1> QED  BY <1>2, <1>3, <1>5, <1>6, <1>7, <1>8, <1>9, <1>10, <1>11 DEF Written

\* the keys,
LEMMA WriteKeys ==
  ASSUME NEW i, Writes(i)
  PROVE  /\ KeysApart(i)'
         /\ \A j \in Imports \ {i}, t \in {"article", "invoice"} : Running(j) =>
               \A r \in tx[j].ins[t], s \in tx'[i].ins[t] : r.key # s.key
<1>1. /\ Passing(i) /\ KeysApart(i) /\ core' = core /\ overlaps' = overlaps
      /\ \A k \in Imports \ {i} : tx'[k] = tx[k]
  BY DEF Writes
<1>2. \A t \in Tables : \/ tx'[i].ins[t] = tx[i].ins[t]
                        \/ PhaseOf[t] = tx[i].phase /\ tx'[i].ins[t] = Inserted(i, t)
  BY WrittenRows
<1>3. \A t \in Keyed : /\ UniqueKeys(Inserted(i, t)) /\ \A r \in Inserted(i, t) : r.key # Blank
                       /\ \A r \in Inserted(i, t), s \in Now(i)[t] : r.key # s.key
  BY <1>1, InsertedRows
<1>4. \A t \in Keyed : t \in Tables  BY Schema
<1>5. \A t \in Keyed : UniqueKeys(tx'[i].ins[t])  BY <1>1, <1>2, <1>3, <1>4 DEF KeysApart
<1>6. ASSUME NEW t \in {"article", "invoice"}, NEW r \in Inserted(i, t)
      PROVE  /\ r.key \in Taken(i, t) /\ t \in UniquelyIndexed
             /\ \A s \in core[t] : s.key # r.key
             /\ \A j \in Imports \ {i} : Running(j) => \A s \in tx[j].ins[t] : r.key # s.key
  <2>1. r.key \in Taken(i, t)  BY <1>3, Schema DEF Taken
  <2>2. t \in UniquelyIndexed  BY DEF UniquelyIndexed
  <2>3. \A s \in core[t] : s.key # r.key
    <3>1. ~Violates(i)  BY DEF Writes
    <3> QED  BY <2>1, <2>2, <3>1 DEF Violates
  <2>4. ASSUME NEW j \in Imports \ {i}, Running(j), NEW s \in tx[j].ins[t] PROVE r.key # s.key
    <3>1. ~LockedBy(i, j)  BY DEF Writes, Locked
    <3>2. Taken(i, t) \cap {row.key : row \in tx[j].ins[t]} = {}
      BY <2>2, <2>4, <3>1 DEF LockedBy
    <3> QED  BY <2>1, <3>2
  <2> QED  BY <2>1, <2>2, <2>3, <2>4
<1>7. ASSUME NEW t \in {"article", "invoice"}, NEW r \in tx'[i].ins[t]
      PROVE  /\ r.key # Blank /\ \A s \in core[t] : s.key # r.key
             /\ \A j \in Imports \ {i} : Running(j) => \A s \in tx[j].ins[t] : r.key # s.key
  <2>1. t \in Keyed /\ t \in Tables  BY Schema
  <2>2. CASE r \in tx[i].ins[t]  BY <1>1, <2>2 DEF KeysApart
  <2>3. CASE r \in Inserted(i, t)  BY <1>3, <1>6, <2>1, <2>3
  <2> QED  BY <1>2, <2>1, <2>2, <2>3
<1>8. ASSUME NEW r \in tx'[i].ins["customer"], NEW s \in core["customer"], r.key = s.key
      PROVE  {i, s.id[1]} \in overlaps
  <2>1. "customer" \in Keyed /\ "customer" \in Tables  BY Schema
  <2>2. CASE r \in tx[i].ins["customer"]  BY <1>1, <1>8, <2>2 DEF KeysApart
  <2>3. CASE r \in Inserted(i, "customer") /\ tx[i].phase = 1
    <3>1. \A q \in Now(i)["customer"] : q.key # r.key  BY <1>3, <2>1, <2>3
    <3>2. Now(i)["customer"] = tx[i].seen["customer"]
      <4>1. DOMAIN tx[i].seen = Tables  BY DEF Writes, Snapshot
      <4> QED  BY <2>1, <4>1 DEF Now
    <3>3. (\E q \in tx[i].seen["customer"] : q.key = s.key) \/ {i, s.id[1]} \in overlaps
      BY <2>3 DEF Writes, Snapshot
    <3> QED  BY <1>8, <3>1, <3>2, <3>3
  <2> QED  BY <1>2, <2>1, <2>2, <2>3, PhasesOf
<1>9. \A j \in Imports \ {i} : Running(j)' <=> Running(j)  BY <1>1 DEF Running
<1>10. KeysApart(i)'  BY <1>1, <1>5, <1>7, <1>8, <1>9 DEF KeysApart
<1> QED  BY <1>7, <1>10

\* the lines it replaces,
LEMMA WriteReplacesLines ==
  ASSUME NEW i, Writes(i)
  PROVE  ReplacesLines(i)'
<1>1. Passing(i) /\ Written(i) /\ NowRead(i, Now(i)) /\ Wanted(i, Now(i), Want(i))
  BY DEF Writes, Passing
<1>2. core' = core /\ overlaps' = overlaps /\ tx'[i].del = tx[i].del \cup Deleted(i)
  BY DEF Writes
<1> SUFFICES ASSUME NEW l \in tx'[i].ins["invoice_line"], NEW m \in core["invoice_line"],
                    l.invoice = m.invoice
             PROVE  m.id \in Deleted(i) \/ {i, m.by} \in overlaps
  BY <1>2 DEF ReplacesLines
<1>3. tx[i].phase = 3 /\ l \in Inserted(i, "invoice_line")
  <2>1. tx[i].ins["invoice_line"] = {}
    BY <1>1, PhasesOf, Schema DEF Passing, Written
  <2>2. "invoice_line" \in Tables  BY Schema
  <2> QED  BY <2>1, <2>2, WrittenRows, PhasesOf
<1>4. LinesPass(i, Now(i), tx[i].export.stavke, Want(i))  BY <1>1, <1>3 DEF Wanted
<1>5. l \in Want(i)["invoice_line"] /\ l.by = i
  BY <1>1, <1>3, InsertedRows, InsertedAsWanted, Schema
<1>6. m \in Now(i)["invoice_line"] \/ {i, m.by} \in overlaps  BY <1>1 DEF NowRead
<1>7. ASSUME m \in Now(i)["invoice_line"] PROVE m.id \in Deleted(i)
  <2>1. m.by # i  BY <1>1, <1>7 DEF NowRead, OtherLines
  <2>2. m \notin Want(i)["invoice_line"]  BY <1>4, <1>5, <2>1 DEF LinesPass
  <2> QED  BY <1>1, <1>7, <2>2, DeletedLines
<1> QED  BY <1>6, <1>7

\* After the pass over the articles each article looks as the pass wanted it.
LEMMA ArticlesWritten ==
  ASSUME NEW i, Writes(i), tx[i].phase = 2, tx[i].seen["article"] = core["article"],
         NEW r \in Want(i)["article"]
  PROVE  r \in Visible(i, "article")'
<1>1. Passing(i) /\ Written(i) /\ NowRead(i, Now(i)) /\ Wanted(i, Now(i), Want(i))
  BY DEF Writes, Passing
<1>2. Now(i)["article"] = core["article"]
  <2>1. DOMAIN tx[i].seen = Tables  BY DEF Writes, Snapshot
  <2> QED  BY <2>1, Schema DEF Now
<1>3. /\ core' = core /\ tx'[i].upd = tx[i].upd \cup Updated(i)
      /\ tx'[i].del = tx[i].del \cup Deleted(i)
      /\ tx'[i].ins["article"] = tx[i].ins["article"] \cup Inserted(i, "article")
  BY Schema DEF Writes
<1>4. \A u \in tx[i].upd : u.id[2] # "article"
  BY <1>1, PhasesOf, Schema DEF Passing, Written
<1>5. \A d \in tx'[i].del : d[2] = "line"  BY <1>1, <1>3, DeletedLines DEF Written
<1>6. Extends(i, "article", Now(i)["article"], Want(i)["article"])
  BY <1>1, PhasesOf, Schema DEF Wanted
<1>7. IsRow("article", r) /\ UniqueIds(Want(i)["article"])  BY <1>6 DEF Extends, AreRows
<1>8. CASE ~Has(Now(i)["article"], r.id)
  <2>1. r \in Inserted(i, "article")  BY <1>1, <1>8, InsertedAsWanted, Schema
  <2> QED  BY <1>3, <2>1 DEF Visible
<1>9. CASE Has(Now(i)["article"], r.id)
  <2>1. PICK s \in core["article"] : s.id = r.id  BY <1>2, <1>9 DEF Has
  <2>2. /\ UniqueIds(Now(i)["article"]) /\ IsRow("article", s)
    BY <1>1, <1>2, <2>1, Schema DEF NowRead, AreRows
  <2>3. s.id[2] = "article"  BY <2>2, Schema DEF IsRow
  <2>4. RowById(Now(i)["article"], r.id) = s  BY <1>2, <2>1, <2>2, RowOfId
  <2>5. s.id \notin tx'[i].del  BY <1>5, <2>3
  <2>6. ASSUME NEW u \in tx'[i].upd, u.id = s.id PROVE u.row = r
    <3>1. u \in Updated(i)  BY <1>3, <1>4, <2>3, <2>6
    <3>2. "article" \in Keyed /\ u.id[2] \in Tags["article"]  BY <2>3, <2>6, Schema
    <3>3. PICK row \in Want(i)["article"] : row.id = u.id /\ u.row = Stored(row)
      BY <1>1, <3>1, <3>2, UpdatedRows
    <3>4. row = r /\ Stored(r) = r  BY <1>7, <2>1, <2>6, <3>3, StoredRow, Schema DEF UniqueIds
    <3> QED  BY <3>3, <3>4
  <2>7. ASSUME NEW f \in Columns["article"], s[f] # r[f]
        PROVE  \E u \in tx'[i].upd : u.id = s.id /\ f \in u.columns
    <3> DEFINE u == Update(s, r)
    <3>1. u.id = s.id /\ u.columns = {g \in DOMAIN s : s[g] # r[g]}  BY DEF Update
    <3>2. f \in u.columns  BY <2>2, <2>7, <3>1 DEF IsRow
    <3>3. u = Update(RowById(Now(i)["article"], r.id), r)  BY <2>4
    <3> HIDE DEF u
    <3>4. u \in Updated(i)  BY <1>9, <3>2, <3>3, Schema DEF Updated
    <3> QED  BY <1>3, <3>1, <3>2, <3>4
  <2>8. Patched(s, tx'[i].upd) = r  BY <1>7, <2>2, <2>6, <2>7, PatchedTo, Schema
  <2> QED  BY <1>3, <2>1, <2>5, <2>8 DEF Visible
<1> QED  BY <1>8, <1>9

\* the names it gives articles,
LEMMA WriteNames ==
  ASSUME NEW i, Writes(i), tx[i].phase = 2, tx[i].seen["article"] = core["article"],
         tx[i].report.renamed = RenamedArticles(tx[i].export)
  PROVE  NamesAreFlagged(i)'
<1> DEFINE artikli == tx[i].export.artikli
           old == core["article"]
           rows == Want(i)["article"]
<1>1. Passing(i) /\ Written(i) /\ NowRead(i, Now(i)) /\ Wanted(i, Now(i), Want(i))
  BY DEF Writes, Passing
<1>2. Now(i)["article"] = old
  <2>1. DOMAIN tx[i].seen = Tables  BY DEF Writes, Snapshot
  <2> QED  BY <2>1, Schema DEF Now
<1>3. /\ tx'[i].export = tx[i].export /\ tx'[i].report = tx[i].report
      /\ tx'[i].upd = tx[i].upd \cup Updated(i)
  BY DEF Writes
<1>4. PICK n, acc : DOMAIN artikli = 1 .. n /\ acc.want = Want(i)
                    /\ ArticlesPass(i, Now(i), artikli, n, acc)
  BY <1>1 DEF Wanted
<1>5. /\ NamesFrom(artikli, old, rows)
      /\ \A k \in DOMAIN artikli : artikli[k].sifra # Blank => NamedFor(artikli, rows, artikli[k].sifra)
  BY <1>2, <1>4 DEF ArticlesPass
<1>6. ASSUME NEW u \in tx'[i].upd, u.id[2] = "article", "name" \in u.columns
      PROVE  u.row.key \in tx[i].report.renamed
  <2>1. u \in Updated(i)
    <3>1. \A v \in tx[i].upd : v.id[2] # "article"
      BY <1>1, PhasesOf, Schema DEF Passing, Written
    <3> QED  BY <1>3, <1>6, <3>1
  <2>2. "article" \in Keyed /\ u.id[2] \in Tags["article"]  BY <1>6, Schema
  <2>3. PICK s \in old, r \in rows :
           /\ s.id = u.id /\ r.id = u.id /\ s.key = r.key /\ u.row.key = r.key
           /\ u.columns = {f \in Columns["article"] : s[f] # r[f]}
    BY <1>1, <1>2, <2>1, <2>2, UpdatedRows
  <2>4. s.name # r.name  BY <1>6, <2>3
  <2>5. PICK k \in DOMAIN artikli :
           artikli[k].sifra = r.key /\ artikli[k].naziv = r.name /\ r.name # Blank
    BY <1>5, <2>3, <2>4 DEF NamesFrom
  <2>6. artikli[k] \in ToSet(artikli)  BY DEF ToSet
  <2>7. s.key \in RenamedArticles(tx[i].export)
    BY <2>3, <2>4, <2>5, <2>6 DEF RenamedArticles
  <2> QED  BY <2>3, <2>7
<1>7. ASSUME NEW row \in ToSet(artikli), Blank \notin {row.sifra, row.naziv}
      PROVE  \/ row.sifra \in tx[i].report.duplicates
             \/ \E a \in Visible(i, "article")' : a.key = row.sifra /\ a.name = row.naziv
             \/ \E first \in ToSet(artikli) : first.sifra = row.sifra /\ first.naziv = Blank
  <2>1. PICK k \in DOMAIN artikli : row = artikli[k]  BY DEF ToSet
  <2>2. NamedFor(artikli, rows, row.sifra)  BY <1>5, <1>7, <2>1
  <2>3. PICK r \in rows, l \in DOMAIN artikli :
           /\ r.key = row.sifra /\ artikli[l].sifra = row.sifra
           /\ artikli[l].naziv = Blank \/ r.name = artikli[l].naziv
    BY <2>2 DEF NamedFor
  <2>4. artikli[l] \in ToSet(artikli)  BY DEF ToSet
  <2>5. r \in Visible(i, "article")'  BY ArticlesWritten
  <2>6. CASE artikli[l].naziv = Blank  BY <2>3, <2>4, <2>6
  <2>7. CASE r.name = row.naziv  BY <2>3, <2>5, <2>7
  <2>8. CASE artikli[l].naziv # Blank /\ r.name # row.naziv
    <3>1. artikli[l].naziv \notin {Blank, row.naziv}  BY <2>3, <2>8
    <3>2. row.sifra \in DuplicateCodes(artikli)
      BY <1>7, <2>3, <2>4, <3>1 DEF DuplicateCodes
    <3>3. tx[i].report.duplicates = DuplicateCodes(artikli)  BY DEF Writes, Reported
    <3> QED  BY <3>2, <3>3
  <2> QED  BY <2>6, <2>7, <2>8
<1>8. /\ \A u \in tx'[i].upd : u.id[2] = "article" /\ "name" \in u.columns =>
            u.row.key \in tx'[i].report.renamed
      /\ \A row \in ToSet(tx'[i].export.artikli) : Blank \notin {row.sifra, row.naziv} =>
            \/ row.sifra \in tx'[i].report.duplicates
            \/ \E a \in Visible(i, "article")' : a.key = row.sifra /\ a.name = row.naziv
            \/ \E first \in ToSet(tx'[i].export.artikli) :
                  first.sifra = row.sifra /\ first.naziv = Blank
  BY <1>3, <1>6, <1>7
<1> QED  BY <1>8 DEF NamesAreFlagged

\* The pass over the invoices leaves the articles alone.
LEMMA WriteKeepsNames ==
  ASSUME NEW i, Writes(i), tx[i].phase = 3, NamesAreFlagged(i)
  PROVE  NamesAreFlagged(i)'
<1>1. Passing(i) /\ Committed /\ "article" \in Tables /\ "article" \in Keyed  BY Schema DEF Writes
<1>2. /\ core' = core /\ tx'[i].upd = tx[i].upd \cup Updated(i)
      /\ tx'[i].del = tx[i].del \cup Deleted(i)
      /\ tx'[i].export = tx[i].export /\ tx'[i].report = tx[i].report
  BY DEF Writes
<1>3. tx'[i].ins["article"] = tx[i].ins["article"]
  BY <1>1, WrittenRows, PhasesOf
<1>4. \A u \in Updated(i) : u.id[2] # "article"
  BY <1>1, UpdatedRows, PhasesOf, Schema
<1>5. ASSUME NEW row \in core["article"]
      PROVE  /\ Patched(row, tx'[i].upd) = Patched(row, tx[i].upd)
             /\ row.id \notin tx'[i].del /\ row.id \notin tx[i].del
  <2>1. IsRow("article", row)  BY <1>1 DEF Committed, AreRows
  <2>2. row.id[2] = "article"  BY <2>1, Schema DEF IsRow
  <2>3. \A u \in Updated(i) : u.id # row.id  BY <1>4, <2>2
  <2>4. Patched(row, tx'[i].upd) = Patched(row, tx[i].upd)
    <3>1. Patched(row, tx[i].upd \cup Updated(i)) = Patched(row, tx[i].upd)
      BY <2>3, PatchedMore
    <3> QED  BY <1>2, <3>1
  <2>5. \A d \in tx'[i].del : d[2] = "line"
    BY <1>1, <1>2, DeletedLines DEF Passing, Written
  <2> QED  BY <1>2, <2>2, <2>4, <2>5
<1>6. Visible(i, "article")' = Visible(i, "article")  BY <1>2, <1>3, <1>5 DEF Visible
<1> QED  BY <1>2, <1>4, <1>6 DEF NamesAreFlagged

\* The segments it takes are in the report,
LEMMA WriteSegments ==
  ASSUME NEW i, Writes(i)
  PROVE  SegmentsAreFlagged(i)'
<1>1. Passing(i) /\ SegmentsAreFlagged(i) /\ Wanted(i, Now(i), Want(i))
      /\ tx[i].report.unsegmented = MissingSegments(tx[i].export)
  BY DEF Writes, Reported, Passing
<1>2. tx'[i].upd = tx[i].upd \cup Updated(i) /\ tx'[i].report = tx[i].report  BY DEF Writes
<1>3. ASSUME NEW u \in Updated(i), u.id[2] = "customer", "segment" \in u.columns
      PROVE  u.row.segment # Blank \/ u.row.key \in tx[i].report.unsegmented
  <2> DEFINE kupci == tx[i].export.kupci
  <2>1. "customer" \in Keyed /\ u.id[2] \in Tags["customer"]  BY <1>3, Schema
  <2>2. tx[i].phase = 1  BY <1>1, <2>1, UpdatedRows, PhasesOf
  <2>3. PICK s \in Now(i)["customer"], r \in Want(i)["customer"] :
           /\ s.id = u.id /\ r.id = u.id /\ u.row = Stored(r)
           /\ u.columns = {f \in Columns["customer"] : s[f] # r[f]}
    BY <1>1, <2>1, UpdatedRows
  <2>9. u.row = r
    <3>1. IsRow("customer", r)  BY <1>1, Schema DEF Wanted, AreRows
    <3> QED  BY <2>3, <3>1, StoredRow, Schema
  <2>4. SegmentsFrom(kupci, Now(i)["customer"], Want(i)["customer"])  BY <1>1, <2>2 DEF Wanted
  <2>5. s.segment # r.segment  BY <1>3, <2>3
  <2>6. PICK k \in DOMAIN kupci : kupci[k].sifra = r.key /\ kupci[k].segment = r.segment
    BY <2>3, <2>4, <2>5 DEF SegmentsFrom
  <2>7. kupci[k] \in ToSet(kupci)  BY DEF ToSet
  <2>8. r.segment = Blank => r.key \in MissingSegments(tx[i].export)
    BY <2>6, <2>7 DEF MissingSegments
  <2> QED  BY <1>1, <2>8, <2>9
<1> QED  BY <1>1, <1>2, <1>3 DEF SegmentsAreFlagged

\* and so are the lines it leaves out.
LEMMA WriteLines ==
  ASSUME NEW i, Writes(i), tx[i].phase = 3
  PROVE  LinesAreFlagged(i)'
<1> DEFINE export == tx[i].export
           done == {row.key : row \in tx'[i].ins["invoice"]}
                      \cup {u.row.key : u \in {v \in tx'[i].upd : v.id[2] = "invoice"}}
<1>1. Passing(i) /\ Reported(i) /\ ReadReported(i) /\ Written(i)
      /\ NowRead(i, Now(i)) /\ Wanted(i, Now(i), Want(i))
  BY DEF Writes, Passing
<1>2. /\ tx'[i].upd = tx[i].upd \cup Updated(i)
      /\ tx'[i].export = tx[i].export /\ tx'[i].report = tx[i].report
  BY DEF Writes
<1>3. /\ tx'[i].ins["invoice"] = Inserted(i, "invoice")
      /\ tx'[i].ins["invoice_line"] = Inserted(i, "invoice_line")
  BY WrittenRows, PhasesOf, Schema
<1>4. LinesPass(i, Now(i), export.stavke, Want(i))  BY <1>1 DEF Wanted
<1>5. \A no \in done : \E h \in Want(i)["invoice"] \ Now(i)["invoice"] : h.key = no
  <2>1. ASSUME NEW h \in Inserted(i, "invoice")
        PROVE  \E row \in Want(i)["invoice"] \ Now(i)["invoice"] : row.key = h.key
    <3>1. PICK row \in Want(i)["invoice"] : ~Has(Now(i)["invoice"], row.id) /\ h = Stored(row)
      BY <2>1 DEF Inserted
    <3>2. IsRow("invoice", row)  BY <1>1, Schema DEF Wanted, AreRows
    <3> QED  BY <3>1, <3>2, StoredRow, Schema DEF Has
  <2>2. ASSUME NEW u \in tx'[i].upd, u.id[2] = "invoice"
        PROVE  \E row \in Want(i)["invoice"] \ Now(i)["invoice"] : row.key = u.row.key
    <3>1. \A v \in tx[i].upd : v.id[2] # "invoice"
      BY <1>1, PhasesOf, Schema DEF Passing, Written
    <3>2. u \in Updated(i)  BY <1>2, <2>2, <3>1
    <3>3. "invoice" \in Keyed /\ u.id[2] \in Tags["invoice"]  BY <2>2, Schema
    <3> QED  BY <1>1, <3>2, <3>3, UpdatedRows
  <2> QED  BY <1>3, <2>1, <2>2
<1> SUFFICES ASSUME NEW k \in DOMAIN export.stavke, export.stavke[k].iznos # Blank,
                    \/ export.stavke[k].broj_fakture \in done
                    \/ export.stavke[k].broj_fakture \notin Invoices(export),
                    k \notin tx[i].report.orphans
             PROVE  Has(Inserted(i, "invoice_line"),
                        <<i, "line", export.stavke[k].broj_fakture, k>>)
  BY <1>2, <1>3 DEF LinesAreFlagged
<1>6. export.stavke[k].broj_fakture \in Invoices(export)  BY <1>1 DEF Reported
<1>7. PICK h \in Want(i)["invoice"] \ Now(i)["invoice"] : h.key = export.stavke[k].broj_fakture
  BY <1>5, <1>6
<1>8. ArticleIds(Now(i), export.stavke[k].sifra_artikla) # {}
  <2>1. Now(i)["article"] = tx[i].seen["article"]
    <3>1. DOMAIN tx[i].seen = Tables  BY DEF Writes, Snapshot
    <3> QED  BY <3>1, Schema DEF Now
  <2>2. ArticleIds(tx[i].seen, export.stavke[k].sifra_artikla) # {}
    BY <1>1 DEF ReadReported
  <2> QED  BY <2>1, <2>2 DEF ArticleIds
<1>9. PICK l \in Want(i)["invoice_line"] : l.id = <<i, "line", h.key, k>>
  BY <1>4, <1>7, <1>8 DEF LinesPass
<1>10. l.id[1] = i
  <2>1. <<i, "line", h.key, k>>[1] = i  OBVIOUS
  <2> QED  BY <1>9, <2>1
<1>11. \A m \in Now(i)["invoice_line"] : m.id # l.id  BY <1>1, <1>10 DEF NowRead, OtherLines
<1>12. l \in Inserted(i, "invoice_line")
  <2>1. ~Has(Now(i)["invoice_line"], l.id)  BY <1>11 DEF Has
  <2>2. Inserted(i, "invoice_line") =
           {row \in Want(i)["invoice_line"] : ~Has(Now(i)["invoice_line"], row.id)}
    <3>1. "invoice_line" \in Tables \ {"invoice"}  BY Schema
    <3> QED  BY <1>1, <3>1, InsertedAsWanted
  <2> QED  BY <2>1, <2>2
<1> QED  BY <1>7, <1>9, <1>12 DEF Has

\* Together: the report covers what the write has lost.
LEMMA WriteReported ==
  ASSUME NEW i, Writes(i)
  PROVE  Reported(i)'
<1>1. /\ Passing(i) /\ Reported(i) /\ ReadReported(i) /\ Snapshot(i) /\ tx[i].phase \in 1 .. 3
      /\ NowRead(i, Now(i)) /\ Wanted(i, Now(i), Want(i)) /\ Written(i)
  BY DEF Writes, Passing, Written
<1>2. /\ core' = core /\ overlaps' = overlaps
      /\ tx'[i].export = tx[i].export /\ tx'[i].report = tx[i].report
      /\ tx'[i].phase = IF tx[i].phase < 3 THEN tx[i].phase + 1 ELSE tx[i].phase
      /\ tx'[i].pc = IF tx[i].phase < 3 THEN "reading" ELSE "written"
      /\ tx'[i].ins["article"] = tx[i].ins["article"] \cup Inserted(i, "article")
  BY Schema DEF Writes
<1>3. Alone(i)' <=> Alone(i)  BY <1>2 DEF Alone
<1>4. (/\ tx[i].report.duplicates = DuplicateCodes(tx[i].export.artikli)
       /\ tx[i].report.unsegmented = MissingSegments(tx[i].export))'
  BY <1>1, <1>2 DEF Reported
<1>5. (Alone(i) => tx[i].report.renamed = RenamedArticles(tx[i].export))'
  BY <1>1, <1>2, <1>3, RenamedKept DEF Reported
<1>6. (\A k \in DOMAIN tx[i].export.stavke \ tx[i].report.orphans :
          /\ tx[i].export.stavke[k].broj_fakture \in Invoices(tx[i].export)
          /\ tx[i].export.stavke[k].sifra_artikla \in KnownArticles(tx[i].export))'
  BY <1>1, <1>2, KnownGrows DEF Reported
<1>7. SegmentsAreFlagged(i)'  BY WriteSegments
<1>8. ASSUME tx'[i].phase = 3
      PROVE  \A row \in ToSet(tx'[i].export.artikli) : row.sifra # Blank => Known(i, row.sifra)'
  <2> SUFFICES ASSUME NEW row \in ToSet(tx[i].export.artikli), row.sifra # Blank
               PROVE  \E a \in core["article"] \cup tx'[i].ins["article"] : a.key = row.sifra
    BY <1>2 DEF Known
  <2>1. CASE tx[i].phase = 3  BY <1>1, <1>2, <2>1 DEF Reported, Known
  <2>2. CASE tx[i].phase = 2
    <3> DEFINE artikli == tx[i].export.artikli
    <3>1. PICK n, acc : DOMAIN artikli = 1 .. n /\ acc.want = Want(i)
                        /\ ArticlesPass(i, Now(i), artikli, n, acc)
      BY <1>1, <2>2 DEF Wanted
    <3>2. PICK k \in DOMAIN artikli : row = artikli[k]  BY DEF ToSet
    <3>3. NamedFor(artikli, Want(i)["article"], row.sifra)  BY <3>1, <3>2 DEF ArticlesPass
    <3>4. PICK r \in Want(i)["article"] : r.key = row.sifra  BY <3>3 DEF NamedFor
    <3>5. CASE ~Has(Now(i)["article"], r.id)
      <4>1. r \in Inserted(i, "article")  BY <1>1, <3>4, <3>5, InsertedAsWanted, Schema
      <4> QED  BY <1>2, <3>4, <4>1
    <3>6. CASE Has(Now(i)["article"], r.id)
      <4>1. PICK s \in Now(i)["article"] : s.id = r.id  BY <3>6 DEF Has
      <4>2. /\ UniqueIds(Now(i)["article"]) /\ Others(i, Now(i)["article"])
            /\ \A q \in Now(i)["article"] :
                  \E o \in core["article"] \cup tx[i].ins["article"] : o.id = q.id /\ o.key = q.key
        BY <1>1, <2>2, PhasesOf, Schema DEF NowRead
      <4>3. Extends(i, "article", Now(i)["article"], Want(i)["article"])
        BY <1>1, <2>2, PhasesOf, Schema DEF Wanted
      <4>4. PICK q \in Want(i)["article"] : q.id = s.id /\ q.key = s.key
        BY <4>1, <4>2, <4>3, ExtendsKeeps
      <4>5. q = r  BY <3>4, <4>1, <4>3, <4>4 DEF Extends, UniqueIds
      <4> QED  BY <1>2, <3>4, <4>1, <4>2, <4>4, <4>5
    <3> QED  BY <3>5, <3>6
  <2> QED  BY <1>1, <1>2, <1>8, <2>1, <2>2
<1>9. ASSUME tx'[i].phase = 3, Alone(i)' PROVE NamesAreFlagged(i)'
  <2>1. CASE tx[i].phase = 3
    <3>1. NamesAreFlagged(i)  BY <1>1, <1>3, <1>9, <2>1 DEF Reported
    <3> QED  BY <2>1, <3>1, WriteKeepsNames
  <2>2. CASE tx[i].phase = 2
    <3>1. /\ tx[i].seen["article"] = core["article"]
          /\ tx[i].report.renamed = RenamedArticles(tx[i].export)
      BY <1>1, <1>3, <1>9, <2>2 DEF Reported, ReadReported
    <3> QED  BY <2>2, <3>1, WriteNames
  <2> QED  BY <1>1, <1>2, <1>9, <2>1, <2>2
<1>10. ASSUME tx'[i].pc = "written" PROVE LinesAreFlagged(i)'
  <2>1. tx[i].phase = 3  BY <1>1, <1>2, <1>10
  <2> QED  BY <2>1, WriteLines
<1> QED  BY <1>4, <1>5, <1>6, <1>7, <1>8, <1>9, <1>10 DEF Reported

\* So the write keeps the invariant,
LEMMA WriteKeepsIInv ==
  ASSUME IInv, NEW i \in Imports, Write(i)
  PROVE  IInv'
<1>1. Shape /\ Committed /\ Overlapping  BY DEF IInv
<1>2. Writes(i)  BY WriteStep
<1>3. /\ core' = core /\ overlaps' = overlaps /\ \A k \in Imports \ {i} : tx'[k] = tx[k]
      /\ tx' = [k \in Imports |-> tx'[k]] /\ \A k \in Imports : DOMAIN tx'[k] = TxFields
      /\ Running(i) /\ tx'[i].pc \in {"reading", "written"} /\ tx[i].pc # "completed"
  BY <1>2 DEF Writes
<1>4. Shape'  BY <1>1, <1>3 DEF Shape
<1>5. Committed'
  <2>1. \A k \in Imports : tx[k].pc = "completed" => tx'[k].pc = "completed"  BY <1>3
  <2> QED  BY <1>1, <1>3, <2>1, CommittedKept
<1>6. \A k \in Imports : Running(k)' <=> Running(k)  BY <1>3 DEF Running
<1>7. Overlapping'  BY <1>1, <1>3, <1>6 DEF Overlapping
<1>8. ASSUME NEW j \in Imports \ {i} PROVE Good(j)'
  <2>1. ASSUME Running(j) PROVE Beside(j)
    <3>1. \A t \in {"article", "invoice"} : \A r \in tx[j].ins[t], s \in tx'[i].ins[t] : r.key # s.key
      BY <1>2, <2>1, WriteKeys
    <3> QED  BY <1>3, <2>1, <3>1, BesideUncommitted
  <2> QED  BY <1>3, <2>1, GoodBeside DEF IInv
<1>9. Good(i)'
  <2>1. Written(i)' /\ KeysApart(i)' /\ ReplacesLines(i)' /\ Reported(i)'
    BY <1>2, WriteWritten, WriteKeys, WriteReplacesLines, WriteReported
  <2> QED  BY <1>3, <2>1 DEF Good
<1> QED  BY <1>4, <1>5, <1>7, <1>8, <1>9 DEF IInv

\* and so does every step.
LEMMA NextKeepsIInv == IInv /\ [Next]_vars => IInv'
<1> SUFFICES ASSUME IInv, [Next]_vars PROVE IInv'
  OBVIOUS
<1>1. ASSUME NEW i \in Imports, NEW e \in Exports, Start(i, e) PROVE IInv'
  BY <1>1, StartKeepsIInv
<1>2. ASSUME NEW i \in Imports, Read(i) PROVE IInv'  BY <1>2, ReadKeepsIInv
<1>3. ASSUME NEW i \in Imports, Wait(i) PROVE IInv'  BY <1>3, WaitKeepsIInv
<1>4. ASSUME NEW i \in Imports, Write(i) PROVE IInv'  BY <1>4, WriteKeepsIInv
<1>5. ASSUME NEW i \in Imports, Commit(i) PROVE IInv'  BY <1>5, CommitKeepsIInv
<1>6. ASSUME NEW i \in Imports, Abort(i) PROVE IInv'  BY <1>6, AbortKeepsIInv
<1>7. CASE UNCHANGED vars
  <2>1. core' = core /\ tx' = tx /\ overlaps' = overlaps  BY <1>7 DEF vars
  <2>2. Shape' /\ Committed' /\ Overlapping'
    <3>1. \A k \in Imports : tx[k].pc = "completed" => tx'[k].pc = "completed"  BY <2>1
    <3>2. Committed'  BY <2>1, <3>1, CommittedKept DEF IInv
    <3> QED  BY <2>1, <3>2 DEF IInv, Shape, Overlapping, Running
  <2>3. ASSUME NEW j \in Imports PROVE Good(j)'
    <3>1. ASSUME Running(j) PROVE Beside(j)
      <4>1. KeysApart(j)  BY <3>1 DEF IInv, Good
      <4> QED  BY <2>1, <4>1 DEF Beside, KeysApart, Running
    <3> QED  BY <2>1, <3>1, GoodBeside DEF IInv
  <2> QED  BY <2>2, <2>3 DEF IInv
<1> QED  BY <1>1, <1>2, <1>3, <1>4, <1>5, <1>6, <1>7 DEF Next

\* Every reachable state satisfies the inductive invariant.
LEMMA InvariantHolds == Spec => []IInv
<1> QED  BY InitIInv, NextKeepsIInv, PTL DEF Spec

\* A natural key has one row: no pass inserts a key that it has read, an article or an invoice
\* whose key another import commits meanwhile fails on the unique index, and customers, which
\* have no such index, are twice only after imports that overlapped.
THEOREM OneRow == Spec => []OneRowPerKey
<1>1. IInv => OneRowPerKey  BY DEF IInv, Committed
<1> QED  BY <1>1, InvariantHolds, PTL

\* The lines of an invoice come from one import: each import that writes lines for it deletes
\* all it can see, and only an import that overlapped can have committed others since.
THEOREM LinesTogether == Spec => []LinesOfOneImport
<1>1. IInv => LinesOfOneImport  BY DEF IInv, Committed
<1> QED  BY <1>1, InvariantHolds, PTL

\* What an import drops or overwrites is in its report: each line that can be read is inserted
\* or an orphan, each customer that loses its segment is listed, and so is each article that
\* gets another name, if no other import ran at the same time.
THEOREM LossesShown == Spec => []ReportShowsWhatIsLost
<1>1. IInv => ReportShowsWhatIsLost
  <2> SUFFICES ASSUME IInv, NEW i \in Imports, tx[i].pc = "written"
               PROVE  /\ LinesAreFlagged(i) /\ SegmentsAreFlagged(i)
                      /\ Alone(i) => NamesAreFlagged(i)
    BY DEF ReportShowsWhatIsLost
  <2>1. Reported(i) /\ Written(i)  BY DEF IInv, Good, Running
  <2> QED  BY <2>1 DEF Reported, Written
<1> QED  BY <1>1, InvariantHolds, PTL

------------------------------------------------------------------------------
(* The same export again.                                                    *)

\* The states of a pass: what lasts from each to the next lasts to the end.
LEMMA ToTheEnd ==
  ASSUME NEW n \in Nat, NEW R, \A k \in 0 .. n : <<k, k>> \in R,
         \A k \in 0 .. n, l \in 1 .. n : k < l /\ <<k, l - 1>> \in R => <<k, l>> \in R
  PROVE  \A k \in 0 .. n : <<k, n>> \in R
<1> SUFFICES ASSUME NEW k \in 0 .. n PROVE <<k, n>> \in R
  OBVIOUS
<1> DEFINE G == {l \in 0 .. n : k <= l => <<k, l>> \in R}
<1>1. 0 \in G
  <2>1. k <= 0 => k = 0  OBVIOUS
  <2> QED  BY <2>1
<1>2. ASSUME NEW l \in 1 .. n, l - 1 \in G PROVE l \in G
  <2>1. l \in 0 .. n  OBVIOUS
  <2>2. CASE k = l  BY <2>1, <2>2
  <2>3. CASE k < l
    <3>1. k <= l - 1  BY <2>1, <2>3
    <3> QED  BY <1>2, <2>1, <2>3, <3>1
  <2>4. CASE k > l  BY <2>1, <2>4
  <2> QED  BY <2>1, <2>2, <2>3, <2>4
<1> HIDE DEF G
<1>3. \A l \in 0 .. n : l \in G  BY <1>1, <1>2, CountingUp
<1>4. n \in G  BY <1>3
<1> QED  BY <1>4 DEF G

\* Rows h of a second pass over a file whose first pass, which is at the rows g, ended with the
\* rows F: they have the ids and keys of F, and what is not as in F is as in g.
Toward(t, F, g, h) ==
    /\ AreRows(t, h) /\ UniqueIds(h)
    /\ \A s \in F : \E r \in h : r.id = s.id
    /\ \A r \in h : \E s \in F :
          /\ r.id = s.id /\ r.key = s.key
          /\ \A f \in Columns[t] : r[f] = s[f] \/ \E q \in g : q.id = r.id /\ q[f] = r[f]

\* The second pass begins with F,
LEMMA TowardBegins ==
  ASSUME NEW t, NEW F, AreRows(t, F), UniqueIds(F), NEW g
  PROVE  Toward(t, F, g, F)
BY DEF Toward

\* writes into the row that the first pass wrote what that wrote, or leaves what that left,
LEMMA TowardGoesOn ==
  ASSUME NEW t \in Tables, NEW F, NEW g, NEW h, Toward(t, F, g, h),
         NEW old \in h, NEW first, NEW second, IsRow(t, second),
         first.id = old.id, second.id = old.id, second.key = old.key,
         \A f \in Columns[t] : \/ second[f] = first[f]
                               \/ /\ second[f] = old[f]
                                  /\ \A q \in g : q.id = old.id => q[f] = first[f]
  PROVE  Toward(t, F, Replaced(g, first), Replaced(h, second))
<1> DEFINE g2 == Replaced(g, first)
           h2 == Replaced(h, second)
<1>1. \A r : r \in h2 <=> (r \in h /\ r.id # old.id) \/ r = second  BY DEF Replaced
<1>2. \A q : q \in g2 <=> (q \in g /\ q.id # old.id) \/ q = first  BY DEF Replaced
<1> HIDE DEF g2, h2
<1>3. AreRows(t, h2) /\ UniqueIds(h2)  BY <1>1 DEF Toward, AreRows, UniqueIds
<1>4. \A s \in F : \E r \in h2 : r.id = s.id  BY <1>1 DEF Toward
<1>5. ASSUME NEW r \in h2
      PROVE  \E s \in F :
               /\ r.id = s.id /\ r.key = s.key
               /\ \A f \in Columns[t] : r[f] = s[f] \/ \E q \in g2 : q.id = r.id /\ q[f] = r[f]
  <2>1. CASE r \in h /\ r.id # old.id
    <3>1. PICK s \in F : /\ r.id = s.id /\ r.key = s.key
                         /\ \A f \in Columns[t] : r[f] = s[f] \/ \E q \in g : q.id = r.id /\ q[f] = r[f]
      BY <2>1 DEF Toward
    <3>2. \A q \in g : q.id = r.id => q \in g2  BY <1>2, <2>1
    <3> QED  BY <3>1, <3>2
  <2>2. CASE r = second
    <3>1. PICK s \in F :
             /\ old.id = s.id /\ old.key = s.key
             /\ \A f \in Columns[t] : old[f] = s[f] \/ \E q \in g : q.id = old.id /\ q[f] = old[f]
      BY DEF Toward
    <3>2. first \in g2 /\ first.id = r.id  BY <1>2, <2>2
    <3>3. ASSUME NEW f \in Columns[t] PROVE r[f] = s[f] \/ r[f] = first[f]
      <4>1. CASE second[f] = first[f]  BY <2>2, <4>1
      <4>2. CASE second[f] = old[f] /\ \A q \in g : q.id = old.id => q[f] = first[f]
        BY <2>2, <3>1, <4>2
      <4> QED  BY <4>1, <4>2
    <3> QED  BY <2>2, <3>1, <3>2, <3>3
  <2> QED  BY <1>1, <2>1, <2>2
<1>6. Toward(t, F, g2, h2)  BY <1>3, <1>4, <1>5 DEF Toward
<1> QED  BY <1>6 DEF g2, h2

\* finds by its key the row that the first pass wrote,
LEMMA TowardFinds ==
  ASSUME NEW t, NEW F, UniqueIds(F), NEW g, NEW h, Toward(t, F, g, h), NEW s, s \in F,
         \A r \in F : r.key = s.key => r = s
  PROVE  \E old \in h : old.id = s.id /\ old.key = s.key /\ \A r \in h : r.key = s.key => r = old
<1>1. PICK old \in h : old.id = s.id  BY DEF Toward
<1>2. \A r \in h : r.id = s.id => r.key = s.key /\ r = old  BY <1>1 DEF Toward, UniqueIds
<1>3. \A r \in h : r.key = s.key => r.id = s.id  BY DEF Toward
<1> QED  BY <1>1, <1>2, <1>3

\* and ends with F when the first pass is over.
LEMMA TowardEnds ==
  ASSUME NEW t, NEW F, AreRows(t, F), UniqueIds(F), NEW g, g \subseteq F, NEW h, Toward(t, F, g, h)
  PROVE  h = F
<1>1. ASSUME NEW r \in h PROVE r \in F
  <2>1. PICK s \in F : /\ r.id = s.id
                       /\ \A f \in Columns[t] : r[f] = s[f] \/ \E q \in g : q.id = r.id /\ q[f] = r[f]
    BY DEF Toward
  <2>2. \A q \in g : q.id = r.id => q = s  BY <2>1 DEF UniqueIds
  <2>3. \A f \in Columns[t] : r[f] = s[f]  BY <2>1, <2>2
  <2>4. IsRow(t, r) /\ IsRow(t, s)  BY DEF Toward, AreRows
  <2>5. r = [f \in Columns[t] |-> r[f]] /\ s = [f \in Columns[t] |-> s[f]]  BY <2>4 DEF IsRow
  <2>6. r = s  BY <2>3, <2>5
  <2> QED  BY <2>6
<1>2. ASSUME NEW s \in F PROVE s \in h
  <2>1. PICK r \in h : r.id = s.id  BY DEF Toward
  <2>2. r = s  BY <1>1, <2>1 DEF UniqueIds
  <2> QED  BY <2>2
<1> QED  BY <1>1, <1>2

\* The tables as a record.
AreTables(F) == F = [t \in Tables |-> F[t]]

\* The rows of the legal entities: a tax id has one; what an import makes is for the tax id or for
\* a customer of its own.
TaxIdsUnique(rows) == \A r, s \in rows : r.key = s.key /\ r.key # Blank => r = s
Firms(i, want) ==
    /\ AreRows("legal_entity", want["legal_entity"]) /\ UniqueIds(want["legal_entity"])
    /\ TaxIdsUnique(want["legal_entity"])
    /\ \A r \in want["legal_entity"] : r.id[1] = i =>
          \/ r.key # Blank /\ r.id = <<i, "jib", r.key, 0>>
          \/ r.key = Blank /\ \E c \in want["customer"] : r.id = <<i, "own", c.key, 0>>

\* What a row of the customers makes of them: a new one for a tax id that none has, or a name.
EntityMade(i, want, row, new) ==
    /\ IsRow("legal_entity", new) /\ new.key = row.jib
    /\ UpsertEntity(i, want, row) = [want EXCEPT !["legal_entity"] = Replaced(@, new)]
    /\ row.naziv_pravnog_lica # Blank => new.name = row.naziv_pravnog_lica
    /\ \/ /\ new.id = <<i, "jib", row.jib, 0>>
          /\ \A r \in want["legal_entity"] : r.key # row.jib /\ r.id # new.id
       \/ \E old \in want["legal_entity"] :
             /\ old.key = row.jib /\ new.id = old.id
             /\ row.naziv_pravnog_lica = Blank => new.name = old.name

\* A row with a tax id makes such a legal entity.
LEMMA MakesEntity ==
  ASSUME NEW i, NEW want, NEW row, row.jib # Blank, AreRows("legal_entity", want["legal_entity"]),
         Find(want["legal_entity"], row.jib) = {} =>
            \A r \in want["legal_entity"] : r.id # <<i, "jib", row.jib, 0>>
  PROVE  \E new : EntityMade(i, want, row, new)
<1> DEFINE rows == want["legal_entity"]
           known == Find(rows, row.jib)
           name == OrKeep(row.naziv_pravnog_lica, row.naziv)
           new == [id |-> <<i, "jib", row.jib, 0>>, key |-> row.jib, name |-> name]
           renamed == [The(known) EXCEPT !.name = OrKeep(row.naziv_pravnog_lica, @)]
<1>1. UpsertEntity(i, want, row) =
         [want EXCEPT !["legal_entity"] = IF known = {} THEN @ \cup {new} ELSE Replaced(@, renamed)]
  BY DEF UpsertEntity
<1>2. CASE known = {}
  <2>1. IsRow("legal_entity", new)  BY Schema DEF IsRow
  <2>2. /\ new.id = <<i, "jib", row.jib, 0>> /\ new.key = row.jib
        /\ row.naziv_pravnog_lica # Blank => new.name = row.naziv_pravnog_lica
    BY DEF OrKeep
  <2>3. \A r \in rows : r.key # row.jib  BY <1>2 DEF Find
  <2> HIDE DEF new
  <2>4. \A r \in rows : r.id # new.id  BY <1>2, <2>2
  <2>5. Replaced(rows, new) = rows \cup {new}  BY <2>4 DEF Replaced
  <2>6. UpsertEntity(i, want, row) = [want EXCEPT !["legal_entity"] = Replaced(@, new)]
    BY <1>1, <1>2, <2>5
  <2>7. EntityMade(i, want, row, new)  BY <2>1, <2>2, <2>3, <2>4, <2>6 DEF EntityMade
  <2> QED  BY <2>7
<1>3. CASE known # {}
  <2>1. The(known) \in rows /\ The(known).key = row.jib  BY <1>3 DEF The, Find
  <2>2. IsRow("legal_entity", The(known))  BY <2>1 DEF AreRows
  <2>3. UpsertEntity(i, want, row) = [want EXCEPT !["legal_entity"] = Replaced(@, renamed)]
    BY <1>1, <1>3
  <2> HIDE DEF known
  <2>4. /\ DOMAIN renamed = DOMAIN The(known) /\ renamed.id = The(known).id
        /\ renamed.key = The(known).key
        /\ renamed.name = OrKeep(row.naziv_pravnog_lica, The(known).name)
    BY <2>2, Schema DEF IsRow
  <2>5. renamed = [f \in DOMAIN The(known) |-> renamed[f]]  OBVIOUS
  <2> HIDE DEF renamed
  <2>6. IsRow("legal_entity", renamed)  BY <2>2, <2>4, <2>5, RowChanged, Schema
  <2>7. EntityMade(i, want, row, renamed)
    BY <2>1, <2>3, <2>4, <2>6 DEF EntityMade, OrKeep
  <2> QED  BY <2>7
<1> QED  BY <1>2, <1>3

\* What a row of the customers leaves of the legal entities: all that there are, with their keys.
EntitiesLast(want, next) ==
    /\ \A t \in Tables \ {"legal_entity"} : next[t] = want[t]
    /\ \A r \in want["legal_entity"] : \E s \in next["legal_entity"] : s.id = r.id /\ s.key = r.key

\* Each row of the customers does that to the legal entities.
LEMMA FirmsStay ==
  ASSUME NEW i, NEW want, AreTables(want), Firms(i, want), NEW row
  PROVE  LET next == UpsertEntity(i, want, row)
         IN  /\ AreTables(next) /\ Firms(i, next) /\ EntitiesLast(want, next)
             /\ row.jib # Blank =>
                   \E new \in next["legal_entity"] : EntityMade(i, want, row, new)
<1> DEFINE next == UpsertEntity(i, want, row)
           rows == want["legal_entity"]
<1>1. CASE row.jib = Blank
  <2>1. next = want  BY <1>1 DEF UpsertEntity
  <2> QED  BY <1>1, <2>1 DEF EntitiesLast
<1>2. CASE row.jib # Blank
  <2>1. Find(rows, row.jib) = {} => \A r \in rows : r.id # <<i, "jib", row.jib, 0>>
    <3> SUFFICES ASSUME NEW r \in rows, r.id = <<i, "jib", row.jib, 0>> PROVE r \in Find(rows, row.jib)
      OBVIOUS
    <3>1. r.id[1] = i /\ r.id[2] = "jib" /\ r.id[3] = row.jib  OBVIOUS
    <3>2. r.id = <<i, "jib", r.key, 0>> \/ \E c : r.id = <<i, "own", c, 0>>
      BY <3>1 DEF Firms
    <3>3. r.key = row.jib  BY <3>1, <3>2
    <3> QED  BY <3>3 DEF Find
  <2>2. PICK new : EntityMade(i, want, row, new)  BY <1>2, <2>1, MakesEntity DEF Firms
  <2>3. next = [want EXCEPT !["legal_entity"] = Replaced(@, new)]  BY <2>2 DEF EntityMade
  <2> HIDE DEF next
  <2>4. /\ AreTables(next) /\ next["legal_entity"] = Replaced(rows, new)
        /\ \A t \in Tables \ {"legal_entity"} : next[t] = want[t]
    BY <2>3, Schema DEF AreTables
  <2> DEFINE after == next["legal_entity"]
  <2>5. \A r : r \in after <=> (r \in rows /\ r.id # new.id) \/ r = new  BY <2>4 DEF Replaced
  <2>6. IsRow("legal_entity", new) /\ new.key = row.jib  BY <2>2 DEF EntityMade
  <2>7. \A r \in rows : r.id = new.id <=> r.key = row.jib
    <3>1. CASE \A r \in rows : r.key # row.jib /\ r.id # new.id  BY <3>1
    <3>2. CASE \E old \in rows : old.key = row.jib /\ new.id = old.id
      BY <1>2, <3>2 DEF Firms, UniqueIds, TaxIdsUnique
    <3> QED  BY <2>2, <3>1, <3>2 DEF EntityMade
  <2>8. new.id[1] = i => new.id = <<i, "jib", new.key, 0>>
    <3>1. CASE new.id = <<i, "jib", row.jib, 0>>  BY <2>6, <3>1
    <3>2. CASE \E old \in rows : old.key = row.jib /\ new.id = old.id
      BY <1>2, <2>6, <3>2 DEF Firms
    <3> QED  BY <2>2, <3>1, <3>2 DEF EntityMade
  <2>9. next["customer"] = want["customer"]  BY <2>4, Schema
  <2> HIDE DEF after
  <2>10. AreRows("legal_entity", after) /\ UniqueIds(after) /\ TaxIdsUnique(after)
    BY <2>5, <2>6, <2>7 DEF Firms, AreRows, UniqueIds, TaxIdsUnique
  <2>11. \A r \in after : r.id[1] = i =>
            \/ r.key # Blank /\ r.id = <<i, "jib", r.key, 0>>
            \/ r.key = Blank /\ \E c \in next["customer"] : r.id = <<i, "own", c.key, 0>>
    BY <1>2, <2>5, <2>6, <2>8, <2>9 DEF Firms
  <2>12. Firms(i, next)  BY <2>10, <2>11 DEF Firms, after
  <2>13. \A r \in rows : \E s \in after : s.id = r.id /\ s.key = r.key
    BY <2>5, <2>6, <2>7
  <2> QED  BY <2>2, <2>4, <2>5, <2>12, <2>13 DEF EntitiesLast, after, next
<1> QED  BY <1>1, <1>2

\* the second does not leave what the first made.
LEMMA EntityAgain ==
  ASSUME NEW F, AreRows("legal_entity", F), UniqueIds(F), TaxIdsUnique(F),
         NEW i, NEW want, AreTables(want), Firms(i, want), NEW row,
         \A r \in UpsertEntity(i, want, row)["legal_entity"] : \E s \in F : s.id = r.id /\ s.key = r.key,
         NEW j, NEW again, AreTables(again),
         Toward("legal_entity", F, want["legal_entity"], again["legal_entity"])
  PROVE  LET next == UpsertEntity(j, again, row)
         IN  /\ AreTables(next)
             /\ \A t \in Tables \ {"legal_entity"} : next[t] = again[t]
             /\ Toward("legal_entity", F, UpsertEntity(i, want, row)["legal_entity"],
                       next["legal_entity"])
<1> DEFINE next == UpsertEntity(j, again, row)
           rows == want["legal_entity"]
           towards == again["legal_entity"]
<1>1. CASE row.jib = Blank
  <2>1. next = again /\ UpsertEntity(i, want, row) = want  BY <1>1 DEF UpsertEntity
  <2> QED  BY <2>1
<1>2. CASE row.jib # Blank
  <2>1. PICK first \in UpsertEntity(i, want, row)["legal_entity"] : EntityMade(i, want, row, first)
    BY <1>2, FirmsStay
  <2>2. first.key = row.jib  BY <2>1 DEF EntityMade
  <2>3. PICK s \in F : s.id = first.id /\ s.key = row.jib  BY <2>1, <2>2
  <2>4. \A r \in F : r.key = s.key => r = s  BY <1>2, <2>3 DEF TaxIdsUnique
  <2>5. PICK old \in towards :
           old.id = s.id /\ old.key = s.key /\ \A r \in towards : r.key = s.key => r = old
    <3>1. Toward("legal_entity", F, rows, towards)  OBVIOUS
    <3> HIDE DEF rows, towards
    <3> QED  BY <2>4, <3>1, TowardFinds
  <2>6. Find(towards, row.jib) = {old}  BY <2>3, <2>5 DEF Find
  <2>7. PICK second : EntityMade(j, again, row, second)
    <3>1. AreRows("legal_entity", towards)  BY DEF Toward
    <3> QED  BY <1>2, <2>6, <3>1, MakesEntity
  <2>8. \A r \in towards : r.key = row.jib => r = old  BY <2>6 DEF Find
  <2>9. /\ IsRow("legal_entity", second) /\ second.key = row.jib /\ second.id = old.id
        /\ next = [again EXCEPT !["legal_entity"] = Replaced(@, second)]
        /\ \/ row.naziv_pravnog_lica # Blank /\ second.name = row.naziv_pravnog_lica
           \/ row.naziv_pravnog_lica = Blank /\ second.name = old.name
    BY <2>3, <2>5, <2>7, <2>8 DEF EntityMade
  <2>10. /\ first.id = old.id
         /\ \/ row.naziv_pravnog_lica # Blank /\ first.name = row.naziv_pravnog_lica
            \/ row.naziv_pravnog_lica = Blank /\ \A q \in rows : q.id = old.id => q.name = first.name
    BY <2>1, <2>3, <2>5 DEF EntityMade, Firms, UniqueIds
  <2> HIDE DEF next
  <2>11. /\ AreTables(next) /\ next["legal_entity"] = Replaced(towards, second)
         /\ \A t \in Tables \ {"legal_entity"} : next[t] = again[t]
    BY <2>9, Schema DEF AreTables
  <2>12. UpsertEntity(i, want, row)["legal_entity"] = Replaced(rows, first)
    BY <2>1, Schema DEF EntityMade, AreTables
  <2>13. \A f \in Columns["legal_entity"] :
            \/ second[f] = first[f]
            \/ second[f] = old[f] /\ \A q \in rows : q.id = old.id => q[f] = first[f]
    BY <2>2, <2>9, <2>10, Schema
  <2>14. Toward("legal_entity", F, Replaced(rows, first), Replaced(towards, second))
    <3>1. second.key = old.key /\ "legal_entity" \in Tables  BY <2>3, <2>5, <2>9, Schema
    <3> HIDE DEF rows, towards
    <3> QED  BY <2>9, <2>10, <2>13, <3>1, TowardGoesOn DEF rows, towards
  <2> QED  BY <2>11, <2>12, <2>14 DEF next
<1> QED  BY <1>1, <1>2

\* The representatives that an import assigns are each for a customer that it has.
Reps(i, want) ==
    /\ AreRows("customer_rep", want["customer_rep"]) /\ UniqueIds(want["customer_rep"])
    /\ \A q \in want["customer_rep"] : q.id[1] = i =>
          \E c \in want["customer"] : q.id = <<i, "rep", c.key, 0>> /\ q.customer = c.id

\* What a row of the customers makes of them: a new one for a code that none has, perhaps with a
\* legal entity of its own, or other values; and a representative for one that has none.
EntityOf(want, row) == IF row.jib = Blank THEN {} ELSE Find(want["legal_entity"], row.jib)
CustomerMade(i, want, row, new) ==
    LET next == UpsertCustomer(i, want, row)
    IN  /\ IsRow("customer", new) /\ new.key = row.sifra /\ new.segment = row.segment
        /\ row.naziv # Blank => new.name = row.naziv
        /\ EntityOf(want, row) # {} => new.entity = The(EntityOf(want, row)).id
        /\ AreTables(next)
        /\ \A t \in Tables \ {"legal_entity", "customer", "customer_rep"} : next[t] = want[t]
        /\ next["customer"] = Replaced(want["customer"], new)
        /\ \/ /\ row.komercijalista = Blank \/ Assigned(want, new.id)
              /\ next["customer_rep"] = want["customer_rep"]
           \/ /\ row.komercijalista # Blank /\ ~Assigned(want, new.id)
              /\ \E rep : /\ IsRow("customer_rep", rep) /\ rep.id = <<i, "rep", row.sifra, 0>>
                          /\ rep.customer = new.id
                          /\ next["customer_rep"] = want["customer_rep"] \cup {rep}
        /\ \/ /\ new.id = <<i, "customer", row.sifra, 0>>
              /\ \A r \in want["customer"] : r.key # row.sifra
              /\ \/ next["legal_entity"] = want["legal_entity"]
                 \/ \E own : /\ IsRow("legal_entity", own) /\ own.id = <<i, "own", row.sifra, 0>>
                             /\ own.key = Blank
                             /\ next["legal_entity"] = want["legal_entity"] \cup {own}
           \/ /\ next["legal_entity"] = want["legal_entity"]
              /\ \E old \in want["customer"] :
                    /\ old.key = row.sifra /\ new.id = old.id
                    /\ row.naziv = Blank => new.name = old.name
                    /\ EntityOf(want, row) = {} => new.entity = old.entity

\* A row with a code makes such a customer.
LEMMA MakesCustomer ==
  ASSUME NEW i, NEW want, AreTables(want), NEW row, row.sifra # Blank,
         AreRows("customer", want["customer"])
  PROVE  \E new : CustomerMade(i, want, row, new)
<1> DEFINE rows == want["customer"]
           entity == IF row.jib = Blank THEN {} ELSE Find(want["legal_entity"], row.jib)
           known == Find(rows, row.sifra)
           own == [id |-> <<i, "own", row.sifra, 0>>, key |-> Blank, name |-> OrKeep(row.naziv, row.sifra)]
           new == [id |-> <<i, "customer", row.sifra, 0>>, key |-> row.sifra,
                   name |-> OrKeep(row.naziv, row.sifra), segment |-> row.segment,
                   entity |-> IF entity = {} THEN own.id ELSE The(entity).id]
           changed == [The(known) EXCEPT !.name = OrKeep(row.naziv, @), !.segment = row.segment,
                                         !.entity = IF entity = {} THEN @ ELSE The(entity).id]
           customer == IF known = {} THEN new ELSE changed
           rep == [id |-> <<i, "rep", row.sifra, 0>>, customer |-> customer.id,
                   rep |-> row.komercijalista]
           entities == IF known = {} /\ entity = {} THEN want["legal_entity"] \cup {own}
                       ELSE want["legal_entity"]
           reps == IF row.komercijalista = Blank \/ Assigned(want, customer.id)
                   THEN want["customer_rep"] ELSE want["customer_rep"] \cup {rep}
           next == UpsertCustomer(i, want, row)
<1>1. next = [want EXCEPT !["customer"] = Replaced(rows, customer),
                          !["legal_entity"] = entities, !["customer_rep"] = reps]
  BY DEF UpsertCustomer
<1>2. /\ IsRow("legal_entity", own) /\ own.id = <<i, "own", row.sifra, 0>> /\ own.key = Blank
      /\ IsRow("customer_rep", rep) /\ rep.id = <<i, "rep", row.sifra, 0>>
      /\ rep.customer = customer.id
  BY Schema DEF IsRow
<1>3. entity = EntityOf(want, row)  BY DEF EntityOf
<1>4. known = {} =>
         /\ IsRow("customer", new) /\ new.key = row.sifra /\ new.segment = row.segment
         /\ new.id = <<i, "customer", row.sifra, 0>> /\ \A r \in rows : r.key # row.sifra
         /\ row.naziv # Blank => new.name = row.naziv
         /\ entity # {} => new.entity = The(entity).id
  BY Schema DEF IsRow, OrKeep, Find
<1>5. known # {} =>
         /\ IsRow("customer", changed) /\ changed.key = row.sifra /\ changed.segment = row.segment
         /\ The(known) \in rows /\ The(known).key = row.sifra /\ changed.id = The(known).id
         /\ changed.name = OrKeep(row.naziv, The(known).name)
         /\ changed.entity = IF entity = {} THEN The(known).entity ELSE The(entity).id
  <2> SUFFICES ASSUME known # {}
               PROVE  /\ IsRow("customer", changed) /\ changed.key = row.sifra
                      /\ changed.segment = row.segment
                      /\ The(known) \in rows /\ The(known).key = row.sifra
                      /\ changed.id = The(known).id
                      /\ changed.name = OrKeep(row.naziv, The(known).name)
                      /\ changed.entity = IF entity = {} THEN The(known).entity ELSE The(entity).id
    OBVIOUS
  <2>1. The(known) \in rows /\ The(known).key = row.sifra  BY DEF The, Find
  <2>2. IsRow("customer", The(known))  BY <2>1 DEF AreRows
  <2> HIDE DEF known, entity
  <2>3. /\ DOMAIN changed = DOMAIN The(known) /\ changed.id = The(known).id
        /\ changed.key = row.sifra /\ changed.segment = row.segment
        /\ changed.name = OrKeep(row.naziv, The(known).name)
        /\ changed.entity = IF entity = {} THEN The(known).entity ELSE The(entity).id
    BY <2>1, <2>2, Schema DEF IsRow
  <2>4. changed = [f \in DOMAIN The(known) |-> changed[f]]  OBVIOUS
  <2> HIDE DEF changed
  <2>5. IsRow("customer", changed)  BY <2>2, <2>3, <2>4, RowChanged, Schema
  <2> QED  BY <2>1, <2>3, <2>5
<1> HIDE DEF known, entity, own, new, changed, rep, next, entities, reps
<1>6. /\ AreTables(next)
      /\ \A t \in Tables \ {"legal_entity", "customer", "customer_rep"} : next[t] = want[t]
      /\ next["customer"] = Replaced(rows, customer) /\ next["legal_entity"] = entities
      /\ next["customer_rep"] = reps
  <2> HIDE DEF rows, customer
  <2> QED  BY <1>1, Schema DEF AreTables
<1>7. /\ IsRow("customer", customer) /\ customer.key = row.sifra /\ customer.segment = row.segment
      /\ row.naziv # Blank => customer.name = row.naziv
      /\ entity # {} => customer.entity = The(entity).id
  BY <1>4, <1>5 DEF OrKeep
<1>8. \/ /\ row.komercijalista = Blank \/ Assigned(want, customer.id)
         /\ reps = want["customer_rep"]
      \/ /\ row.komercijalista # Blank /\ ~Assigned(want, customer.id)
         /\ reps = want["customer_rep"] \cup {rep}
  BY DEF reps
<1>9. \/ /\ customer.id = <<i, "customer", row.sifra, 0>>
         /\ \A r \in rows : r.key # row.sifra
         /\ entities = want["legal_entity"] \/ entities = want["legal_entity"] \cup {own}
      \/ /\ entities = want["legal_entity"]
         /\ \E old \in rows :
               /\ old.key = row.sifra /\ customer.id = old.id
               /\ row.naziv = Blank => customer.name = old.name
               /\ entity = {} => customer.entity = old.entity
  <2>1. CASE known = {}  BY <1>4, <2>1 DEF entities
  <2>2. CASE known # {}  BY <1>5, <2>2 DEF entities, OrKeep
  <2> QED  BY <2>1, <2>2
<1> HIDE DEF customer
<1>10. CustomerMade(i, want, row, customer)
  BY <1>2, <1>3, <1>6, <1>7, <1>8, <1>9 DEF CustomerMade, next
<1> QED  BY <1>10

\* What it leaves of the customers: all that there are, with their keys.
CustomersLast(want, next) ==
    /\ want["legal_entity"] \subseteq next["legal_entity"]
    /\ \A r \in want["customer"] : \E s \in next["customer"] : s.id = r.id /\ s.key = r.key
    /\ want["customer_rep"] \subseteq next["customer_rep"]

\* Each row of the customers does that to them.
LEMMA CustomersStay ==
  ASSUME NEW i, NEW old, Others(i, old), NEW want, AreTables(want),
         Extends(i, "customer", old, want["customer"]), Firms(i, want), Reps(i, want), NEW row
  PROVE  LET next == UpsertCustomer(i, want, row)
         IN  /\ AreTables(next) /\ Firms(i, next) /\ Reps(i, next)
             /\ CustomersLast(want, next)
             /\ row.sifra # Blank =>
                   \E new \in next["customer"] :
                      /\ CustomerMade(i, want, row, new)
                      /\ \A q \in want["customer"] : q.id = new.id <=> q.key = row.sifra
                      /\ row.komercijalista # Blank => Assigned(next, new.id)
<1> DEFINE next == UpsertCustomer(i, want, row)
           rows == want["customer"]
           after == next["customer"]
<1>1. CASE row.sifra = Blank
  <2>1. next = want  BY <1>1 DEF UpsertCustomer
  <2> QED  BY <1>1, <2>1 DEF CustomersLast
<1>2. CASE row.sifra # Blank
  <2>1. AreRows("customer", rows) /\ UniqueIds(rows) /\ UniqueKeys(rows)  BY DEF Extends
  <2>2. PICK new : CustomerMade(i, want, row, new)  BY <1>2, <2>1, MakesCustomer
  <2>3. /\ IsRow("customer", new) /\ new.key = row.sifra /\ AreTables(next)
        /\ after = Replaced(rows, new)
    BY <2>2 DEF CustomerMade
  <2>4. \A r \in rows : r.id = <<i, "customer", row.sifra, 0>> => r.key = row.sifra
    <3> SUFFICES ASSUME NEW r \in rows, r.id = <<i, "customer", row.sifra, 0>> PROVE r.key = row.sifra
      OBVIOUS
    <3>1. r.id[1] = i /\ r.id[3] = row.sifra  OBVIOUS
    <3>2. r.id = <<i, "customer", r.key, 0>>  BY <3>1 DEF Extends, Others
    <3>3. r.id[3] = r.key  BY <3>2
    <3> QED  BY <3>1, <3>3
  <2>5. \A q \in rows : q.id = new.id <=> q.key = row.sifra
    <3>1. CASE new.id = <<i, "customer", row.sifra, 0>> /\ \A r \in rows : r.key # row.sifra
      BY <2>4, <3>1
    <3>2. CASE \E q \in rows : q.key = row.sifra /\ new.id = q.id
      BY <2>1, <3>2 DEF UniqueIds, UniqueKeys
    <3> QED  BY <2>2, <3>1, <3>2 DEF CustomerMade
  <2> HIDE DEF next, after
  <2>6. \A r : r \in after <=> (r \in rows /\ r.id # new.id) \/ r = new  BY <2>3 DEF Replaced
  <2>7. \A r \in rows : \E s \in after : s.id = r.id /\ s.key = r.key
    BY <2>3, <2>5, <2>6
  <2>8. Firms(i, next) /\ want["legal_entity"] \subseteq next["legal_entity"]
    <3>1. CASE next["legal_entity"] = want["legal_entity"]
      <4>1. \A r \in next["legal_entity"] : r.id[1] = i =>
              \/ r.key # Blank /\ r.id = <<i, "jib", r.key, 0>>
              \/ r.key = Blank /\ \E c \in after : r.id = <<i, "own", c.key, 0>>
        BY <2>7, <3>1 DEF Firms
      <4> QED  BY <3>1, <4>1 DEF Firms, after
    <3>2. CASE /\ \A r \in rows : r.key # row.sifra
               /\ \E own : /\ IsRow("legal_entity", own) /\ own.id = <<i, "own", row.sifra, 0>>
                           /\ own.key = Blank
                           /\ next["legal_entity"] = want["legal_entity"] \cup {own}
      <4>1. PICK own : /\ IsRow("legal_entity", own) /\ own.id = <<i, "own", row.sifra, 0>>
                       /\ own.key = Blank
                       /\ next["legal_entity"] = want["legal_entity"] \cup {own}
        BY <3>2
      <4>2. ASSUME NEW r \in want["legal_entity"], r.id = own.id PROVE FALSE
        <5>1. r.id[1] = i /\ r.id[2] = "own" /\ r.id[3] = row.sifra  BY <4>1, <4>2
        <5>2. r.id = <<i, "jib", r.key, 0>> \/ \E c \in rows : r.id = <<i, "own", c.key, 0>>
          BY <5>1 DEF Firms
        <5>3. CASE r.id = <<i, "jib", r.key, 0>>
          <6>1. r.id[2] = "jib"  BY <5>3
          <6> QED  BY <5>1, <6>1
        <5>4. CASE \E c \in rows : r.id = <<i, "own", c.key, 0>>
          <6>1. PICK c \in rows : r.id = <<i, "own", c.key, 0>>  BY <5>4
          <6>2. r.id[3] = c.key  BY <6>1
          <6> QED  BY <3>2, <5>1, <6>2
        <5> QED  BY <5>2, <5>3, <5>4
      <4> DEFINE firms == next["legal_entity"]
      <4>3. \A r : r \in firms <=> r \in want["legal_entity"] \/ r = own  BY <4>1
      <4> HIDE DEF firms
      <4>4. AreRows("legal_entity", firms) /\ UniqueIds(firms) /\ TaxIdsUnique(firms)
        BY <4>1, <4>2, <4>3 DEF Firms, AreRows, UniqueIds, TaxIdsUnique
      <4>5. own.id = <<i, "own", new.key, 0>> /\ new \in after  BY <2>3, <2>6, <4>1
      <4>6. \A r \in firms : r.id[1] = i =>
              \/ r.key # Blank /\ r.id = <<i, "jib", r.key, 0>>
              \/ r.key = Blank /\ \E c \in after : r.id = <<i, "own", c.key, 0>>
        BY <2>7, <4>1, <4>3, <4>5 DEF Firms
      <4> QED  BY <4>3, <4>4, <4>6 DEF Firms, after, firms
    <3> QED  BY <2>2, <3>1, <3>2 DEF CustomerMade, next
  <2>9. /\ Reps(i, next) /\ want["customer_rep"] \subseteq next["customer_rep"]
        /\ row.komercijalista # Blank => Assigned(next, new.id)
    <3> DEFINE reps == next["customer_rep"]
    <3>1. CASE /\ row.komercijalista = Blank \/ Assigned(want, new.id)
               /\ reps = want["customer_rep"]
      <4>1. \A q \in reps : q.id[1] = i =>
              \E c \in after : q.id = <<i, "rep", c.key, 0>> /\ q.customer = c.id
        <5> SUFFICES ASSUME NEW q \in reps, q.id[1] = i
                     PROVE  \E c \in after : q.id = <<i, "rep", c.key, 0>> /\ q.customer = c.id
          OBVIOUS
        <5>1. PICK c \in rows : q.id = <<i, "rep", c.key, 0>> /\ q.customer = c.id  BY <3>1 DEF Reps
        <5>2. PICK d \in after : d.id = c.id /\ d.key = c.key  BY <2>7
        <5> QED  BY <5>1, <5>2
      <4> QED  BY <3>1, <4>1 DEF Reps, Assigned, after
    <3>2. CASE /\ ~Assigned(want, new.id)
               /\ \E rep : /\ IsRow("customer_rep", rep) /\ rep.id = <<i, "rep", row.sifra, 0>>
                           /\ rep.customer = new.id
                           /\ reps = want["customer_rep"] \cup {rep}
      <4>1. PICK rep : /\ IsRow("customer_rep", rep) /\ rep.id = <<i, "rep", row.sifra, 0>>
                       /\ rep.customer = new.id
                       /\ reps = want["customer_rep"] \cup {rep}
        BY <3>2
      <4>2. \A q : q \in reps <=> q \in want["customer_rep"] \/ q = rep  BY <4>1
      <4>3. ASSUME NEW q \in want["customer_rep"], q.id = rep.id PROVE FALSE
        <5>1. q.id[1] = i /\ q.id[3] = row.sifra  BY <4>1, <4>3
        <5>2. PICK c \in rows : q.id = <<i, "rep", c.key, 0>> /\ q.customer = c.id
          BY <5>1 DEF Reps
        <5>3. q.id[3] = c.key  BY <5>2
        <5>4. c.id = new.id  BY <2>5, <5>1, <5>3
        <5> QED  BY <3>2, <5>2, <5>4 DEF Assigned
      <4>4. new \in after /\ rep.id = <<i, "rep", new.key, 0>>  BY <2>3, <2>6, <4>1
      <4> HIDE DEF reps
      <4>5. AreRows("customer_rep", reps) /\ UniqueIds(reps)
        BY <4>1, <4>2, <4>3 DEF Reps, AreRows, UniqueIds
      <4>6. \A q \in reps : q.id[1] = i =>
              \E c \in after : q.id = <<i, "rep", c.key, 0>> /\ q.customer = c.id
        <5> SUFFICES ASSUME NEW q \in reps, q.id[1] = i
                     PROVE  \E c \in after : q.id = <<i, "rep", c.key, 0>> /\ q.customer = c.id
          OBVIOUS
        <5>1. CASE q = rep  BY <4>1, <4>4, <5>1
        <5>2. CASE q \in want["customer_rep"]
          <6>1. PICK c \in rows : q.id = <<i, "rep", c.key, 0>> /\ q.customer = c.id  BY <5>2 DEF Reps
          <6>2. PICK d \in after : d.id = c.id /\ d.key = c.key  BY <2>7
          <6> QED  BY <6>1, <6>2
        <5> QED  BY <4>2, <5>1, <5>2
      <4>7. Assigned(next, new.id)  BY <4>1, <4>2 DEF Assigned, reps
      <4> QED  BY <4>2, <4>5, <4>6, <4>7 DEF Reps, after, reps
    <3> QED  BY <2>2, <3>1, <3>2 DEF CustomerMade, next
  <2>10. new \in after  BY <2>6
  <2> QED  BY <2>2, <2>3, <2>5, <2>7, <2>8, <2>9, <2>10 DEF CustomersLast, next, after
<1> QED  BY <1>1, <1>2

\* the second finds the customer, its legal entity and its representative as the first left them.
LEMMA CustomerAgain ==
  ASSUME NEW F, AreRows("customer", F["customer"]), UniqueIds(F["customer"]),
         UniqueKeys(F["customer"]), TaxIdsUnique(F["legal_entity"]), UniqueIds(F["legal_entity"]),
         NEW i, NEW old, Others(i, old), NEW want, AreTables(want),
         Extends(i, "customer", old, want["customer"]), Firms(i, want), Reps(i, want), NEW row,
         CustomersLast(UpsertCustomer(i, want, row), F),
         row.jib # Blank => Find(want["legal_entity"], row.jib) # {},
         NEW j, NEW again, AreTables(again),
         again["legal_entity"] = F["legal_entity"], again["customer_rep"] = F["customer_rep"],
         Toward("customer", F["customer"], want["customer"], again["customer"])
  PROVE  LET next == UpsertCustomer(j, again, row)
         IN  /\ AreTables(next)
             /\ \A t \in Tables \ {"customer"} : next[t] = again[t]
             /\ Toward("customer", F["customer"], UpsertCustomer(i, want, row)["customer"],
                       next["customer"])
<1> DEFINE next == UpsertCustomer(j, again, row)
           made == UpsertCustomer(i, want, row)
           rows == want["customer"]
           towards == again["customer"]
           G == F["customer"]
<1>1. CASE row.sifra = Blank
  <2>1. next = again /\ made = want  BY <1>1 DEF UpsertCustomer
  <2> QED  BY <2>1
<1>2. CASE row.sifra # Blank
  <2>1. CustomersLast(want, made)  BY CustomersStay
  <2>2. PICK first \in made["customer"] :
           /\ CustomerMade(i, want, row, first)
           /\ \A q \in rows : q.id = first.id <=> q.key = row.sifra
           /\ row.komercijalista # Blank => Assigned(made, first.id)
    BY <1>2, CustomersStay
  <2>3. first.key = row.sifra  BY <2>2 DEF CustomerMade
  <2>4. PICK s \in G : s.id = first.id /\ s.key = row.sifra  BY <2>2, <2>3 DEF CustomersLast
  <2>5. \A r \in G : r.key = s.key => r = s  BY <2>4 DEF UniqueKeys
  <2>6. PICK known \in towards :
           known.id = s.id /\ known.key = s.key /\ \A r \in towards : r.key = s.key => r = known
    <3>1. Toward("customer", G, rows, towards) /\ UniqueIds(G)  OBVIOUS
    <3> HIDE DEF rows, towards, G
    <3> QED  BY <2>4, <2>5, <3>1, TowardFinds
  <2>7. PICK second : CustomerMade(j, again, row, second)
    <3>1. AreRows("customer", towards)  BY DEF Toward
    <3> QED  BY <1>2, <3>1, MakesCustomer
  <2>8. /\ IsRow("customer", second) /\ second.key = known.key /\ second.id = known.id
        /\ second.segment = row.segment
        /\ \/ row.naziv # Blank /\ second.name = row.naziv
           \/ row.naziv = Blank /\ second.name = known.name
        /\ \/ EntityOf(again, row) # {} /\ second.entity = The(EntityOf(again, row)).id
           \/ EntityOf(again, row) = {} /\ second.entity = known.entity
        /\ next["legal_entity"] = again["legal_entity"]
    <3>1. known.key = row.sifra  BY <2>4, <2>6
    <3>2. next["legal_entity"] = again["legal_entity"]
          /\ \E q \in towards : /\ q.key = row.sifra /\ second.id = q.id
                                /\ row.naziv = Blank => second.name = q.name
                                /\ EntityOf(again, row) = {} => second.entity = q.entity
      BY <2>6, <2>7, <3>1 DEF CustomerMade
    <3>3. \A q \in towards : q.key = row.sifra => q = known  BY <2>6, <3>1
    <3> QED  BY <2>7, <3>1, <3>2, <3>3 DEF CustomerMade
  <2>9. \/ row.naziv # Blank /\ first.name = row.naziv
        \/ row.naziv = Blank /\ \A q \in rows : q.id = known.id => q.name = first.name
    <3>1. UniqueKeys(rows)  BY DEF Extends
    <3>2. first.id = known.id  BY <2>4, <2>6
    <3> QED  BY <2>2, <3>1, <3>2 DEF CustomerMade, UniqueKeys
  <2>10. \/ second.entity = first.entity
         \/ second.entity = known.entity /\ \A q \in rows : q.id = known.id => q.entity = first.entity
    <3>1. CASE row.jib = Blank
      <4>1. EntityOf(again, row) = {} /\ EntityOf(want, row) = {}  BY <3>1 DEF EntityOf
      <4>2. UniqueKeys(rows)  BY DEF Extends
      <4>3. first.id = known.id  BY <2>4, <2>6
      <4> QED  BY <2>2, <2>8, <4>1, <4>2, <4>3 DEF CustomerMade, UniqueKeys
    <3>2. CASE row.jib # Blank
      <4> DEFINE e == The(EntityOf(want, row))
                 d == The(EntityOf(again, row))
      <4>1. e \in want["legal_entity"] /\ e.key = row.jib /\ EntityOf(want, row) # {}
        BY <3>2 DEF EntityOf, Find, The
      <4>2. e \in F["legal_entity"]  BY <2>1, <4>1 DEF CustomersLast
      <4>3. EntityOf(again, row) # {} /\ d \in F["legal_entity"] /\ d.key = row.jib
        BY <3>2, <4>1, <4>2 DEF EntityOf, Find, The
      <4>4. d = e  BY <3>2, <4>1, <4>2, <4>3 DEF TaxIdsUnique
      <4>5. first.entity = e.id  BY <2>2, <4>1 DEF CustomerMade
      <4>6. second.entity = d.id  BY <2>8, <4>3
      <4> QED  BY <4>4, <4>5, <4>6
    <3> QED  BY <3>1, <3>2
  <2>11. next["customer_rep"] = again["customer_rep"]
    <3>1. CASE row.komercijalista = Blank  BY <2>7, <3>1 DEF CustomerMade
    <3>2. CASE row.komercijalista # Blank
      <4>1. Assigned(made, first.id)  BY <2>2, <3>2
      <4>2. made["customer_rep"] \subseteq again["customer_rep"]  BY DEF CustomersLast
      <4>3. second.id = first.id  BY <2>4, <2>6, <2>8
      <4>4. Assigned(again, second.id)  BY <4>1, <4>2, <4>3 DEF Assigned
      <4> QED  BY <2>7, <4>4 DEF CustomerMade
    <3> QED  BY <3>1, <3>2
  <2>12. \A f \in Columns["customer"] :
            \/ second[f] = first[f]
            \/ second[f] = known[f] /\ \A q \in rows : q.id = known.id => q[f] = first[f]
    <3>1. second.id = first.id /\ second.key = first.key  BY <2>3, <2>4, <2>6, <2>8
    <3>2. second.segment = first.segment  BY <2>2, <2>8 DEF CustomerMade
    <3>3. \A f \in Columns["customer"] : f \in {"id", "key", "name", "segment", "entity"}  BY Schema
    <3>4. ASSUME NEW f \in Columns["customer"]
          PROVE  \/ second[f] = first[f]
                 \/ second[f] = known[f] /\ \A q \in rows : q.id = known.id => q[f] = first[f]
      <4>1. CASE f = "name"  BY <2>8, <2>9, <4>1
      <4>2. CASE f = "entity"  BY <2>10, <4>2
      <4>3. CASE f \in {"id", "key", "segment"}  BY <3>1, <3>2, <4>3
      <4> QED  BY <3>3, <4>1, <4>2, <4>3
    <3> QED  BY <3>4
  <2>13. /\ AreTables(next) /\ next["customer"] = Replaced(towards, second)
         /\ \A t \in Tables \ {"legal_entity", "customer", "customer_rep"} : next[t] = again[t]
    BY <2>7 DEF CustomerMade
  <2>14. made["customer"] = Replaced(rows, first)  BY <2>2 DEF CustomerMade
  <2>15. Toward("customer", G, Replaced(rows, first), Replaced(towards, second))
    <3>1. first.id = known.id /\ "customer" \in Tables  BY <2>4, <2>6, Schema
    <3>2. Toward("customer", G, rows, towards)  OBVIOUS
    <3> HIDE DEF rows, towards, G
    <3> QED  BY <2>6, <2>8, <2>12, <3>1, <3>2, TowardGoesOn
  <2>16. \A t \in Tables \ {"customer"} : next[t] = again[t]
    BY <2>8, <2>11, <2>13
  <2> QED  BY <2>13, <2>14, <2>15, <2>16
<1> QED  BY <1>1, <1>2

\* The first pass from its first state to its last: the legal entities,
EntitiesThrough(e, i, now, kupci, n) ==
    /\ EntityStates(e, i, now, kupci, n)
    /\ \A k \in 0 .. n :
          /\ AreTables(e[k]) /\ Firms(i, e[k])
          /\ \A t \in Tables \ {"legal_entity"} : e[k][t] = now[t]
          /\ \A r \in e[k]["legal_entity"] : \E s \in e[n]["legal_entity"] : s.id = r.id /\ s.key = r.key
    /\ \A k \in 1 .. n : kupci[k].jib # Blank => \E r \in e[n]["legal_entity"] : r.key = kupci[k].jib

\* That is how the first pass over the legal entities goes.
LEMMA EntitiesGoThrough ==
  ASSUME NEW i, NEW now, AreTables(now), Firms(i, now),
         NEW kupci, NEW n \in Nat, DOMAIN kupci = 1 .. n
  PROVE  \E e : EntitiesThrough(e, i, now, kupci, n)
<1>1. PICK e : EntityStates(e, i, now, kupci, n)  BY EntitiesStates
<1> DEFINE Fine(k) == /\ AreTables(e[k]) /\ Firms(i, e[k])
                      /\ \A t \in Tables \ {"legal_entity"} : e[k][t] = now[t]
           G == {k \in 0 .. n : Fine(k)}
<1>2. \A k \in 0 .. n : Fine(k)
  <2>1. 0 \in G  BY <1>1 DEF EntityStates
  <2>2. ASSUME NEW k \in 1 .. n, k - 1 \in G PROVE k \in G
    <3>1. k \in 0 .. n /\ Fine(k - 1)  BY <2>2
    <3>2. e[k] = UpsertEntity(i, e[k - 1], kupci[k])  BY <1>1 DEF EntityStates
    <3>3. /\ AreTables(e[k]) /\ Firms(i, e[k])
          /\ \A t \in Tables \ {"legal_entity"} : e[k][t] = e[k - 1][t]
      <4> HIDE DEF G
      <4>1. AreTables(e[k]) /\ Firms(i, e[k]) /\ EntitiesLast(e[k - 1], e[k])
        BY <3>1, <3>2, FirmsStay
      <4> QED  BY <4>1 DEF EntitiesLast
    <3> QED  BY <3>1, <3>3
  <2> HIDE DEF G
  <2>3. \A k \in 0 .. n : k \in G  BY <2>1, <2>2, CountingUp
  <2> QED  BY <2>3 DEF G
<1> HIDE DEF G
<1> DEFINE Stays(a, b) == \A r \in a : \E s \in b : s.id = r.id /\ s.key = r.key
           R == {p \in (0 .. n) \X (0 .. n) :
                   Stays(e[p[1]]["legal_entity"], e[p[2]]["legal_entity"])}
<1>3. ASSUME NEW k \in 1 .. n
      PROVE  /\ Stays(e[k - 1]["legal_entity"], e[k]["legal_entity"])
             /\ kupci[k].jib # Blank => \E r \in e[k]["legal_entity"] : r.key = kupci[k].jib
  <2>1. k - 1 \in 0 .. n  OBVIOUS
  <2>2. Fine(k - 1)  BY <1>2, <2>1
  <2>3. e[k] = UpsertEntity(i, e[k - 1], kupci[k])  BY <1>1 DEF EntityStates
  <2>4. /\ EntitiesLast(e[k - 1], e[k])
        /\ kupci[k].jib # Blank => \E new \in e[k]["legal_entity"] : EntityMade(i, e[k - 1], kupci[k], new)
    BY <2>2, <2>3, FirmsStay
  <2> QED  BY <2>4 DEF EntitiesLast, EntityMade
<1> HIDE DEF Fine
<1>4. \A k \in 0 .. n : Stays(e[k]["legal_entity"], e[n]["legal_entity"])
  <2>1. \A k \in 0 .. n : <<k, k>> \in R  OBVIOUS
  <2>2. ASSUME NEW k \in 0 .. n, NEW l \in 1 .. n, <<k, l - 1>> \in R PROVE <<k, l>> \in R
    <3>1. Stays(e[k]["legal_entity"], e[l - 1]["legal_entity"])  BY <2>2
    <3>2. Stays(e[l - 1]["legal_entity"], e[l]["legal_entity"])  BY <1>3
    <3>3. Stays(e[k]["legal_entity"], e[l]["legal_entity"])  BY <3>1, <3>2
    <3>4. l \in 0 .. n  OBVIOUS
    <3> HIDE DEF Stays
    <3> QED  BY <3>3, <3>4
  <2> HIDE DEF R
  <2>3. \A k \in 0 .. n : <<k, n>> \in R  BY <2>1, <2>2, ToTheEnd
  <2> QED  BY <2>3 DEF R
<1>5. \A k \in 1 .. n : kupci[k].jib # Blank => \E r \in e[n]["legal_entity"] : r.key = kupci[k].jib
  <2> SUFFICES ASSUME NEW k \in 1 .. n, kupci[k].jib # Blank
               PROVE  \E r \in e[n]["legal_entity"] : r.key = kupci[k].jib
    OBVIOUS
  <2>1. k \in 0 .. n  OBVIOUS
  <2> QED  BY <1>3, <1>4, <2>1
<1> QED  BY <1>1, <1>2, <1>4, <1>5 DEF EntitiesThrough, Fine

\* and the customers.
CustomersThrough(g, i, now, kupci, n) ==
    /\ CustomerStates(g, i, now, kupci, n)
    /\ \A k \in 0 .. n :
          /\ AreTables(g[k]) /\ Firms(i, g[k]) /\ Reps(i, g[k])
          /\ CustomersPass(i, now, kupci, g[k])
          /\ CustomersLast(g[0], g[k]) /\ CustomersLast(g[k], g[n])

\* That is how it goes over the customers.
LEMMA CustomersGoThrough ==
  ASSUME NEW i, NEW now, AreTables(now), Firms(i, now), Reps(i, now),
         \A t \in Tables : AreRows(t, now[t]),
         UniqueIds(now["customer"]), UniqueKeys(now["customer"]), Others(i, now["customer"]),
         NEW kupci, NEW n \in Nat, DOMAIN kupci = 1 .. n
  PROVE  \E g : CustomersThrough(g, i, now, kupci, n)
<1>1. PICK e : EntitiesThrough(e, i, now, kupci, n)  BY EntitiesGoThrough
<1>2. PICK g : CustomerStates(g, i, now, kupci, n)  BY CustomersStates
<1> DEFINE Fine(k) == /\ AreTables(g[k]) /\ Firms(i, g[k]) /\ Reps(i, g[k])
                      /\ CustomersPass(i, now, kupci, g[k])
           G == {k \in 0 .. n : Fine(k)}
<1>3. \A k \in 0 .. n : Fine(k)
  <2>1. 0 \in G
    <3>1. g[0] = e[n] /\ n \in 0 .. n  BY <1>1, <1>2 DEF EntitiesThrough, EntityStates, CustomerStates
    <3>2. /\ AreTables(g[0]) /\ Firms(i, g[0])
          /\ \A t \in Tables \ {"legal_entity"} : g[0][t] = now[t]
      BY <1>1, <3>1 DEF EntitiesThrough
    <3>3. Reps(i, g[0])  BY <3>2, Schema DEF Reps
    <3>4. CustomersPass(i, now, kupci, g[0])
      <4>1. Extends(i, "customer", now["customer"], now["customer"])  BY ExtendsSelf, Schema
      <4>2. SegmentsFrom(kupci, now["customer"], now["customer"])  BY DEF SegmentsFrom, UniqueIds
      <4>3. /\ DOMAIN g[0] = Tables /\ g[0]["customer"] = now["customer"]
            /\ g[0]["customer_rep"] = now["customer_rep"]
            /\ \A t \in Tables \ {"legal_entity", "customer", "customer_rep"} : g[0][t] = now[t]
        BY <3>2, Schema DEF AreTables
      <4> QED  BY <3>2, <4>1, <4>2, <4>3, Schema DEF CustomersPass, Firms
    <3> QED  BY <3>2, <3>3, <3>4
  <2>2. ASSUME NEW k \in 1 .. n, k - 1 \in G PROVE k \in G
    <3>1. k \in 0 .. n /\ k \in DOMAIN kupci /\ Fine(k - 1)  BY <2>2
    <3>2. g[k] = UpsertCustomer(i, g[k - 1], kupci[k])  BY <1>2 DEF CustomerStates
    <3>3. Extends(i, "customer", now["customer"], g[k - 1]["customer"])
      BY <3>1 DEF CustomersPass
    <3>4. AreTables(g[k]) /\ Firms(i, g[k]) /\ Reps(i, g[k])
      <4> HIDE DEF G
      <4> QED  BY <3>1, <3>2, <3>3, CustomersStay
    <3>5. CustomersPass(i, now, kupci, g[k])
      <4> HIDE DEF G
      <4> QED  BY <3>1, <3>2, CustomerStep
    <3> QED  BY <3>1, <3>4, <3>5
  <2> HIDE DEF G
  <2>3. \A k \in 0 .. n : k \in G  BY <2>1, <2>2, CountingUp
  <2> QED  BY <2>3 DEF G
<1> HIDE DEF G
<1> DEFINE R == {p \in (0 .. n) \X (0 .. n) : CustomersLast(g[p[1]], g[p[2]]) \/ p[1] > p[2]}
<1>4. ASSUME NEW k \in 1 .. n PROVE CustomersLast(g[k - 1], g[k])
  <2>1. k - 1 \in 0 .. n  OBVIOUS
  <2>2. Fine(k - 1)  BY <1>3, <2>1
  <2>3. g[k] = UpsertCustomer(i, g[k - 1], kupci[k])  BY <1>2 DEF CustomerStates
  <2>4. Extends(i, "customer", now["customer"], g[k - 1]["customer"])  BY <2>2 DEF CustomersPass
  <2> QED  BY <2>2, <2>3, <2>4, CustomersStay
<1>5. \A a : CustomersLast(a, a)  BY DEF CustomersLast
<1>6. \A a, b, c : CustomersLast(a, b) /\ CustomersLast(b, c) => CustomersLast(a, c)
  BY DEF CustomersLast
<1>7. \A k \in 0 .. n : \A l \in 0 .. n : k <= l => CustomersLast(g[k], g[l])
  <2> SUFFICES ASSUME NEW l \in 0 .. n PROVE \A k \in 0 .. l : CustomersLast(g[k], g[l])
    OBVIOUS
  <2> DEFINE S == {p \in (0 .. l) \X (0 .. l) : CustomersLast(g[p[1]], g[p[2]])}
  <2>1. \A k \in 0 .. l : <<k, k>> \in S  BY <1>5
  <2>2. ASSUME NEW k \in 0 .. l, NEW m \in 1 .. l, <<k, m - 1>> \in S PROVE <<k, m>> \in S
    <3>1. CustomersLast(g[k], g[m - 1]) /\ m \in 1 .. n /\ m \in 0 .. l  BY <2>2
    <3> QED  BY <1>4, <1>6, <3>1
  <2> HIDE DEF S
  <2>3. \A k \in 0 .. l : <<k, l>> \in S  BY <2>1, <2>2, ToTheEnd
  <2> QED  BY <2>3 DEF S
<1>8. \A k \in 0 .. n : CustomersLast(g[0], g[k]) /\ CustomersLast(g[k], g[n])
  <2>1. 0 \in 0 .. n /\ n \in 0 .. n /\ \A k \in 0 .. n : 0 <= k /\ k <= n  OBVIOUS
  <2> QED  BY <1>7, <2>1
<1> QED  BY <1>2, <1>3, <1>8 DEF CustomersThrough

\* Tables of the same rows are the same.
LEMMA SameTables ==
  ASSUME NEW F, NEW G, AreTables(F), AreTables(G), \A t \in Tables : F[t] = G[t]
  PROVE  F = G
BY DEF AreTables

\* So a second pass over the legal entities ends where it began.
LEMMA EntitiesSettle ==
  ASSUME NEW e, NEW i, NEW now, NEW kupci, NEW n \in Nat, DOMAIN kupci = 1 .. n,
         EntitiesThrough(e, i, now, kupci, n),
         NEW j, NEW G, AreTables(G), AreRows("legal_entity", G["legal_entity"]),
         UniqueIds(G["legal_entity"]), TaxIdsUnique(G["legal_entity"]),
         e[n]["legal_entity"] \subseteq G["legal_entity"]
  PROVE  UpsertEntities(j, G, kupci) = G
<1> DEFINE F == G["legal_entity"]
<1>1. PICK h : EntityStates(h, j, G, kupci, n)  BY EntitiesStates
<1> DEFINE Fine(k) == /\ AreTables(h[k]) /\ \A t \in Tables \ {"legal_entity"} : h[k][t] = G[t]
                      /\ Toward("legal_entity", F, e[k]["legal_entity"], h[k]["legal_entity"])
           R == {k \in 0 .. n : Fine(k)}
<1>2. 0 \in R
  <2>1. h[0] = G  BY <1>1 DEF EntityStates
  <2>2. Toward("legal_entity", F, e[0]["legal_entity"], F)  BY TowardBegins
  <2> QED  BY <2>1, <2>2
<1>3. ASSUME NEW k \in 1 .. n, k - 1 \in R PROVE k \in R
  <2>1. k \in 0 .. n /\ k - 1 \in 0 .. n /\ Fine(k - 1)  BY <1>3
  <2>2. h[k] = UpsertEntity(j, h[k - 1], kupci[k])  BY <1>1 DEF EntityStates
  <2>3. e[k] = UpsertEntity(i, e[k - 1], kupci[k])  BY <1>1 DEF EntitiesThrough, EntityStates
  <2>4. AreTables(e[k - 1]) /\ Firms(i, e[k - 1])  BY <2>1 DEF EntitiesThrough
  <2>5. \A r \in e[k]["legal_entity"] : \E s \in F : s.id = r.id /\ s.key = r.key
    BY <2>1 DEF EntitiesThrough
  <2>6. /\ AreTables(h[k])
        /\ \A t \in Tables \ {"legal_entity"} : h[k][t] = h[k - 1][t]
        /\ Toward("legal_entity", F, e[k]["legal_entity"], h[k]["legal_entity"])
    <3>1. AreRows("legal_entity", F) /\ UniqueIds(F) /\ TaxIdsUnique(F)  OBVIOUS
    <3> HIDE DEF F, R
    <3> QED  BY <2>1, <2>2, <2>3, <2>4, <2>5, <3>1, EntityAgain
  <2> QED  BY <2>1, <2>6
<1> HIDE DEF R
<1>4. \A k \in 0 .. n : k \in R  BY <1>2, <1>3, CountingUp
<1>5. Fine(n)  BY <1>4 DEF R
<1>6. h[n]["legal_entity"] = F
  <2>1. Toward("legal_entity", F, e[n]["legal_entity"], h[n]["legal_entity"])  BY <1>5
  <2> QED  BY <2>1, TowardEnds
<1>7. h[n] = G  BY <1>5, <1>6, SameTables
<1> QED  BY <1>1, <1>7 DEF EntityStates

\* So does a second pass over the customers.
SettledCustomers(kupci, F) ==
    \A j, G : /\ AreTables(G)
              /\ \A t \in Tables : PhaseOf[t] = 1 => G[t] = F[t]
              => UpsertCustomers(j, G, kupci) = G

\* What the first pass makes of the customers is settled.
LEMMA CustomersSettle ==
  ASSUME NEW i, NEW now, AreTables(now), Firms(i, now), Reps(i, now),
         \A t \in Tables : AreRows(t, now[t]),
         UniqueIds(now["customer"]), UniqueKeys(now["customer"]), Others(i, now["customer"]),
         NEW kupci, NEW n \in Nat, DOMAIN kupci = 1 .. n
  PROVE  SettledCustomers(kupci, UpsertCustomers(i, now, kupci))
<1>1. PICK e : EntitiesThrough(e, i, now, kupci, n)  BY EntitiesGoThrough
<1>2. PICK g : CustomersThrough(g, i, now, kupci, n)  BY CustomersGoThrough
<1> DEFINE F == g[n]
<1>3. UpsertCustomers(i, now, kupci) = F  BY <1>2 DEF CustomersThrough, CustomerStates
<1> SUFFICES ASSUME NEW j, NEW G, AreTables(G), \A t \in Tables : PhaseOf[t] = 1 => G[t] = F[t]
             PROVE  UpsertCustomers(j, G, kupci) = G
  BY <1>3 DEF SettledCustomers
<1>4. /\ G["legal_entity"] = F["legal_entity"] /\ G["customer"] = F["customer"]
      /\ G["customer_rep"] = F["customer_rep"]
  BY PhasesOf, Schema
<1>5. /\ AreRows("legal_entity", F["legal_entity"]) /\ UniqueIds(F["legal_entity"])
      /\ TaxIdsUnique(F["legal_entity"])
      /\ AreRows("customer", F["customer"]) /\ UniqueIds(F["customer"]) /\ UniqueKeys(F["customer"])
  BY <1>2 DEF CustomersThrough, Firms, CustomersPass, Extends
<1>6. e[n] = g[0]  BY <1>1, <1>2 DEF EntitiesThrough, EntityStates, CustomersThrough, CustomerStates
<1>7. UpsertEntities(j, G, kupci) = G
  <2>1. e[n]["legal_entity"] \subseteq G["legal_entity"]
    BY <1>2, <1>4, <1>6 DEF CustomersThrough, CustomersLast
  <2> HIDE DEF F
  <2> QED  BY <1>1, <1>4, <1>5, <2>1, EntitiesSettle
<1>8. PICK h : CustomerStates(h, j, G, kupci, n)  BY CustomersStates
<1> HIDE DEF F
<1> DEFINE Fine(k) == /\ AreTables(h[k]) /\ \A t \in Tables \ {"customer"} : h[k][t] = G[t]
                      /\ Toward("customer", F["customer"], g[k]["customer"], h[k]["customer"])
           R == {k \in 0 .. n : Fine(k)}
<1>9. 0 \in R
  <2>1. h[0] = G  BY <1>7, <1>8 DEF CustomerStates
  <2>2. Toward("customer", F["customer"], g[0]["customer"], F["customer"])  BY <1>5, TowardBegins
  <2> QED  BY <1>4, <2>1, <2>2
<1>10. ASSUME NEW k \in 1 .. n, k - 1 \in R PROVE k \in R
  <2>1. k \in 0 .. n /\ k - 1 \in 0 .. n /\ Fine(k - 1)  BY <1>10
  <2>2. h[k] = UpsertCustomer(j, h[k - 1], kupci[k])  BY <1>8 DEF CustomerStates
  <2>3. g[k] = UpsertCustomer(i, g[k - 1], kupci[k])  BY <1>2 DEF CustomersThrough, CustomerStates
  <2>4. /\ AreTables(g[k - 1]) /\ Firms(i, g[k - 1]) /\ Reps(i, g[k - 1])
        /\ Extends(i, "customer", now["customer"], g[k - 1]["customer"])
        /\ CustomersLast(g[0], g[k - 1])
    BY <1>2, <2>1 DEF CustomersThrough, CustomersPass
  <2>5. CustomersLast(g[k], F)  BY <1>2, <2>1 DEF CustomersThrough, F
  <2>6. kupci[k].jib # Blank => Find(g[k - 1]["legal_entity"], kupci[k].jib) # {}
    <3> SUFFICES ASSUME kupci[k].jib # Blank
                 PROVE  Find(g[k - 1]["legal_entity"], kupci[k].jib) # {}
      OBVIOUS
    <3>1. PICK r \in e[n]["legal_entity"] : r.key = kupci[k].jib  BY <1>1 DEF EntitiesThrough
    <3>2. r \in g[k - 1]["legal_entity"]  BY <1>6, <2>4, <3>1 DEF CustomersLast
    <3> QED  BY <3>1, <3>2 DEF Find
  <2>7. h[k - 1]["legal_entity"] = F["legal_entity"] /\ h[k - 1]["customer_rep"] = F["customer_rep"]
    BY <1>4, <2>1, Schema
  <2>8. /\ AreTables(h[k])
        /\ \A t \in Tables \ {"customer"} : h[k][t] = h[k - 1][t]
        /\ Toward("customer", F["customer"], g[k]["customer"], h[k]["customer"])
    <3> DEFINE again == h[k - 1]
               want == g[k - 1]
               old == now["customer"]
               row == kupci[k]
    <3>1. /\ Others(i, old) /\ AreTables(want) /\ Extends(i, "customer", old, want["customer"])
          /\ Firms(i, want) /\ Reps(i, want) /\ CustomersLast(UpsertCustomer(i, want, row), F)
          /\ row.jib # Blank => Find(want["legal_entity"], row.jib) # {}
          /\ AreTables(again) /\ again["legal_entity"] = F["legal_entity"]
          /\ again["customer_rep"] = F["customer_rep"]
          /\ Toward("customer", F["customer"], want["customer"], again["customer"])
      BY <2>1, <2>3, <2>4, <2>5, <2>6, <2>7
    <3> HIDE DEF again, want, old, row
    <3>2. LET next == UpsertCustomer(j, again, row)
          IN  /\ AreTables(next)
              /\ \A t \in Tables \ {"customer"} : next[t] = again[t]
              /\ Toward("customer", F["customer"], UpsertCustomer(i, want, row)["customer"],
                        next["customer"])
      BY <1>5, <3>1, CustomerAgain
    <3> QED  BY <2>2, <2>3, <3>2 DEF again, want, row
  <2> QED  BY <2>1, <2>8
<1> HIDE DEF R
<1>11. \A k \in 0 .. n : k \in R  BY <1>9, <1>10, CountingUp
<1>12. Fine(n)  BY <1>11 DEF R
<1>13. h[n]["customer"] = G["customer"]
  <2>1. Toward("customer", F["customer"], F["customer"], h[n]["customer"])  BY <1>12 DEF F
  <2> QED  BY <1>4, <1>5, <2>1, TowardEnds
<1>14. h[n] = G  BY <1>12, <1>13, SameTables
<1> QED  BY <1>8, <1>14 DEF CustomerStates

\* An article as the first row of its code has it; it lasts, for the other rows do not count.
ArticleOf(row, a) ==
    /\ a.key = row.sifra /\ a.active = row.aktivan
    /\ row.naziv = Blank \/ a.name = row.naziv
ArticlesLast(acc, next) ==
    /\ acc.codes \subseteq next.codes
    /\ \A a \in acc.want["article"] : a.key \in acc.codes => a \in next.want["article"]

\* The first row with a code makes the article as it has it.
LEMMA ArticleTaken ==
  ASSUME NEW i, NEW old, Others(i, old), NEW acc, AreTables(acc.want),
         Extends(i, "article", old, acc.want["article"]), NEW row,
         row.sifra # Blank, row.sifra \notin acc.codes
  PROVE  LET next == UpsertArticle(i, acc, row)
         IN  /\ ArticlesLast(acc, next) /\ row.sifra \in next.codes
             /\ \E a \in next.want["article"] : ArticleOf(row, a)
<1> DEFINE rows == acc.want["article"]
           known == Find(rows, row.sifra)
           new == [id |-> <<i, "article", row.sifra, 0>>, key |-> row.sifra,
                   name |-> OrKeep(row.naziv, row.sifra), active |-> row.aktivan]
           changed == [The(known) EXCEPT !.name = OrKeep(row.naziv, @), !.active = row.aktivan]
           article == IF known = {} THEN new ELSE changed
           next == UpsertArticle(i, acc, row)
<1>1. next = [want |-> [acc.want EXCEPT !["article"] = Replaced(rows, article)],
              codes |-> acc.codes \cup {row.sifra}]
  BY DEF UpsertArticle
<1>2. next.codes = acc.codes \cup {row.sifra} /\ next.want["article"] = Replaced(rows, article)
  BY <1>1, Schema DEF AreTables
<1> HIDE DEF next
<1>3. ArticleOf(row, article) /\ \A r \in rows : r.key # row.sifra => r.id # article.id
  <2>1. CASE known = {}
    <3>1. article = new  BY <2>1
    <3>2. ASSUME NEW r \in rows, r.id = new.id PROVE r.key = row.sifra
      <4>1. r.id[1] = i /\ r.id[3] = row.sifra  BY <3>2
      <4>2. r.id = <<i, "article", r.key, 0>>  BY <4>1 DEF Extends, Others
      <4>3. r.id[3] = r.key  BY <4>2
      <4> QED  BY <4>1, <4>3
    <3> QED  BY <3>1, <3>2 DEF ArticleOf, OrKeep
  <2>2. CASE known # {}
    <3>1. The(known) \in rows /\ The(known).key = row.sifra  BY <2>2 DEF The, Find
    <3>2. IsRow("article", The(known))  BY <3>1 DEF Extends, AreRows
    <3>3. article = changed  BY <2>2
    <3> HIDE DEF known
    <3>4. /\ changed.id = The(known).id /\ changed.key = row.sifra /\ changed.active = row.aktivan
          /\ changed.name = OrKeep(row.naziv, The(known).name)
      BY <3>1, <3>2, Schema DEF IsRow
    <3> HIDE DEF changed
    <3>5. \A r \in rows : r.id = changed.id => r = The(known)
      BY <3>1, <3>4 DEF Extends, UniqueIds
    <3>6. \A r \in rows : r.key # row.sifra => r.id # changed.id  BY <3>1, <3>5
    <3> QED  BY <3>3, <3>4, <3>6 DEF ArticleOf, OrKeep
  <2> QED  BY <2>1, <2>2
<1> HIDE DEF article
<1>4. article \in next.want["article"]  BY <1>2 DEF Replaced
<1>5. ArticlesLast(acc, next)
  <2>1. \A a \in rows : a.key \in acc.codes => a \in Replaced(rows, article)
    BY <1>3 DEF Replaced
  <2> QED  BY <1>2, <2>1 DEF ArticlesLast
<1>6. row.sifra \in next.codes  BY <1>2
<1> QED  BY <1>3, <1>4, <1>5, <1>6 DEF next

\* A second pass finds it as it is.
LEMMA ArticleAgain ==
  ASSUME NEW G, AreTables(G), AreRows("article", G["article"]), UniqueIds(G["article"]),
         UniqueKeys(G["article"]), NEW row, NEW a \in G["article"], ArticleOf(row, a),
         NEW j, NEW codes, row.sifra # Blank, row.sifra \notin codes
  PROVE  UpsertArticle(j, [want |-> G, codes |-> codes], row)
            = [want |-> G, codes |-> codes \cup {row.sifra}]
<1> DEFINE acc == [want |-> G, codes |-> codes]
           rows == G["article"]
           known == Find(rows, row.sifra)
           changed == [The(known) EXCEPT !.name = OrKeep(row.naziv, @), !.active = row.aktivan]
<1>1. The(known) = a /\ known # {}
  <2>1. a \in known  BY DEF Find, ArticleOf
  <2>2. The(known) \in known  BY <2>1 DEF The
  <2>3. The(known) \in rows /\ The(known).key = a.key  BY <2>2 DEF Find, ArticleOf
  <2> QED  BY <2>1, <2>3 DEF UniqueKeys
<1>2. changed = a
  <2>1. IsRow("article", a)  BY DEF AreRows
  <2>2. a = [f \in Columns["article"] |-> a[f]] /\ DOMAIN a = Columns["article"]  BY <2>1 DEF IsRow
  <2>3. OrKeep(row.naziv, a.name) = a.name /\ row.aktivan = a.active  BY DEF ArticleOf, OrKeep
  <2>4. changed = [a EXCEPT !.name = a.name, !.active = a.active]  BY <1>1, <2>3
  <2> QED  BY <2>2, <2>4
<1>3. Replaced(rows, a) = rows  BY DEF Replaced, UniqueIds
<1>4. acc.want = G /\ acc.codes = codes  OBVIOUS
<1>5. UpsertArticle(j, acc, row) =
         [want |-> [G EXCEPT !["article"] = Replaced(rows, changed)], codes |-> codes \cup {row.sifra}]
  BY <1>1, <1>4 DEF UpsertArticle
<1> HIDE DEF changed
<1>6. [G EXCEPT !["article"] = rows] = G  BY Schema DEF AreTables
<1> QED  BY <1>2, <1>3, <1>5, <1>6

\* So a second pass over the articles ends where it began.
SettledArticles(artikli, F) ==
    \A j, G : AreTables(G) /\ G["article"] = F["article"] => UpsertArticles(j, G, artikli) = G

\* What the second pass makes of the articles is settled.
LEMMA ArticlesSettle ==
  ASSUME NEW i, NEW now, AreTables(now), AreRows("article", now["article"]),
         UniqueIds(now["article"]), UniqueKeys(now["article"]), Others(i, now["article"]),
         NEW artikli, NEW n \in Nat, DOMAIN artikli = 1 .. n
  PROVE  /\ AreTables(UpsertArticles(i, now, artikli))
         /\ SettledArticles(artikli, UpsertArticles(i, now, artikli))
<1>1. PICK g : ArticleStates(g, i, now, artikli, n)  BY ArticlesStates
<1> DEFINE F == g[n].want
<1> DEFINE Fine(k) == AreTables(g[k].want) /\ ArticlesPass(i, now, artikli, k, g[k])
           P == {k \in 0 .. n : Fine(k)}
<1>2. \A k \in 0 .. n : Fine(k)
  <2>1. 0 \in P
    <3>1. g[0].want = now /\ g[0].codes = {}  BY <1>1 DEF ArticleStates
    <3>2. Extends(i, "article", now["article"], now["article"])  BY ExtendsSelf
    <3>3. NamesFrom(artikli, now["article"], now["article"])  BY DEF NamesFrom, UniqueIds
    <3>4. DOMAIN now = Tables  BY DEF AreTables
    <3>5. ArticlesPass(i, now, artikli, 0, g[0])  BY <3>1, <3>2, <3>3, <3>4 DEF ArticlesPass
    <3> QED  BY <3>1, <3>5
  <2>2. ASSUME NEW k \in 1 .. n, k - 1 \in P PROVE k \in P
    <3>1. k \in 0 .. n /\ k \in Nat \ {0} /\ k \in DOMAIN artikli /\ Fine(k - 1)  BY <2>2
    <3>2. g[k] = UpsertArticle(i, g[k - 1], artikli[k])  BY <1>1 DEF ArticleStates
    <3>3. ArticlesPass(i, now, artikli, k, g[k])
      <4> HIDE DEF P
      <4> QED  BY <3>1, <3>2, ArticleStep
    <3>4. AreTables(g[k].want)
      <4> DEFINE acc == g[k - 1]
                 row == artikli[k]
                 known == Find(acc.want["article"], row.sifra)
                 article ==
                   IF known = {} THEN [id |-> <<i, "article", row.sifra, 0>>, key |-> row.sifra,
                                       name |-> OrKeep(row.naziv, row.sifra), active |-> row.aktivan]
                   ELSE [The(known) EXCEPT !.name = OrKeep(row.naziv, @), !.active = row.aktivan]
                 after == Replaced(acc.want["article"], article)
      <4>1. \/ g[k] = acc
            \/ g[k] = [want |-> [acc.want EXCEPT !["article"] = after], codes |-> acc.codes \cup {row.sifra}]
        BY <3>2 DEF UpsertArticle
      <4>2. AreTables(acc.want)  BY <3>1
      <4> HIDE DEF P, acc, after
      <4>3. g[k] = acc \/ g[k].want = [acc.want EXCEPT !["article"] = after]  BY <4>1
      <4> QED  BY <4>2, <4>3 DEF AreTables
    <3> QED  BY <3>1, <3>3, <3>4
  <2> HIDE DEF P
  <2>3. \A k \in 0 .. n : k \in P  BY <2>1, <2>2, CountingUp
  <2> QED  BY <2>3 DEF P
<1> HIDE DEF P
<1>3. AreTables(F)
  <2>1. Fine(n)  BY <1>2
  <2> QED  BY <2>1
<1> SUFFICES ASSUME NEW j, NEW G, AreTables(G), G["article"] = F["article"]
             PROVE  UpsertArticles(j, G, artikli) = G
  BY <1>1, <1>3 DEF ArticleStates, SettledArticles
<1> DEFINE Skipped(k) == artikli[k].sifra = Blank \/ artikli[k].sifra \in g[k - 1].codes
<1>4. ASSUME NEW k \in 1 .. n
      PROVE  /\ ArticlesLast(g[k - 1], g[k])
             /\ Skipped(k) => g[k] = g[k - 1]
             /\ ~Skipped(k) => /\ artikli[k].sifra \in g[k].codes
                               /\ \E a \in g[k].want["article"] : ArticleOf(artikli[k], a)
                               /\ g[k].codes = g[k - 1].codes \cup {artikli[k].sifra}
  <2>1. k - 1 \in 0 .. n  OBVIOUS
  <2>2. Fine(k - 1)  BY <1>2, <2>1
  <2>3. g[k] = UpsertArticle(i, g[k - 1], artikli[k])  BY <1>1 DEF ArticleStates
  <2>4. CASE Skipped(k)
    <3>1. g[k] = g[k - 1]  BY <2>3, <2>4 DEF UpsertArticle
    <3> QED  BY <2>4, <3>1 DEF ArticlesLast
  <2>5. CASE ~Skipped(k)
    <3>1. Extends(i, "article", now["article"], g[k - 1].want["article"])  BY <2>2 DEF ArticlesPass
    <3>2. g[k].codes = g[k - 1].codes \cup {artikli[k].sifra}  BY <2>3, <2>5 DEF UpsertArticle
    <3> QED  BY <2>2, <2>3, <2>5, <3>1, <3>2, ArticleTaken
  <2> QED  BY <2>4, <2>5
<1>5. \A k \in 0 .. n : ArticlesLast(g[k], g[n])
  <2> DEFINE S == {p \in (0 .. n) \X (0 .. n) : ArticlesLast(g[p[1]], g[p[2]])}
  <2>1. \A a : ArticlesLast(a, a)  BY DEF ArticlesLast
  <2>2. \A a, b, c : ArticlesLast(a, b) /\ ArticlesLast(b, c) => ArticlesLast(a, c)
    BY DEF ArticlesLast
  <2>3. \A k \in 0 .. n : <<k, k>> \in S  BY <2>1
  <2>4. ASSUME NEW k \in 0 .. n, NEW m \in 1 .. n, <<k, m - 1>> \in S PROVE <<k, m>> \in S
    <3>1. ArticlesLast(g[k], g[m - 1]) /\ m \in 0 .. n  BY <2>4
    <3> QED  BY <1>4, <2>2, <3>1
  <2> HIDE DEF S
  <2>5. \A k \in 0 .. n : <<k, n>> \in S  BY <2>3, <2>4, ToTheEnd
  <2> QED  BY <2>5 DEF S
<1>6. AreRows("article", G["article"]) /\ UniqueIds(G["article"]) /\ UniqueKeys(G["article"])
  <2>1. Fine(n)  BY <1>2
  <2> QED  BY <2>1 DEF ArticlesPass, Extends
<1>7. PICK h : ArticleStates(h, j, G, artikli, n)  BY ArticlesStates
<1> HIDE DEF F, Fine
<1> DEFINE R == {k \in 0 .. n : h[k] = [want |-> G, codes |-> g[k].codes]}
<1>8. 0 \in R
  <2>1. g[0].codes = {} /\ h[0] = [want |-> G, codes |-> {}]  BY <1>1, <1>7 DEF ArticleStates
  <2>2. h[0] = [want |-> G, codes |-> g[0].codes]  BY <2>1
  <2>3. 0 \in 0 .. n  OBVIOUS
  <2> QED  BY <2>2, <2>3
<1>9. ASSUME NEW k \in 1 .. n, k - 1 \in R PROVE k \in R
  <2> DEFINE acc == [want |-> G, codes |-> g[k - 1].codes]
  <2>1. k \in 0 .. n /\ h[k - 1] = acc  BY <1>9
  <2>2. h[k] = UpsertArticle(j, acc, artikli[k])  BY <1>7, <2>1 DEF ArticleStates
  <2>3. CASE Skipped(k)
    <3>1. h[k] = acc  BY <2>2, <2>3 DEF UpsertArticle
    <3> QED  BY <1>4, <2>1, <2>3, <3>1
  <2>4. CASE ~Skipped(k)
    <3>1. PICK a \in g[k].want["article"] : ArticleOf(artikli[k], a)  BY <1>4, <2>4
    <3>2. a.key \in g[k].codes  BY <1>4, <2>4, <3>1 DEF ArticleOf
    <3>3. a \in G["article"]  BY <1>5, <2>1, <3>1, <3>2 DEF ArticlesLast, F
    <3>4. h[k] = [want |-> G, codes |-> g[k - 1].codes \cup {artikli[k].sifra}]
      BY <1>6, <2>2, <2>4, <3>1, <3>3, ArticleAgain
    <3> QED  BY <1>4, <2>1, <2>4, <3>4
  <2> QED  BY <2>3, <2>4
<1> HIDE DEF R
<1>10. \A k \in 0 .. n : k \in R  BY <1>8, <1>9, CountingUp
<1>11. h[n].want = G
  <2>1. n \in R  BY <1>10
  <2>2. h[n] = [want |-> G, codes |-> g[n].codes]  BY <2>1 DEF R
  <2> QED  BY <2>2
<1> QED  BY <1>7, <1>11 DEF ArticleStates

\* An invoice as its row of the file has it.
Buyers(want, row) == {c.id : c \in Find(want["customer"], row.sifra_kupca)}
Counts(want, row) == row.broj_fakture # Blank /\ row.ukupno # Blank /\ Buyers(want, row) # {}
InvoiceOf(want, row, h) ==
    h.key = row.broj_fakture /\ h.customer = The(Buyers(want, row)) /\ h.total = row.ukupno
\* What a row of the invoices makes of them if its number was not in the file before.
InvoicesLast(want, row, next) ==
    \A h \in want["invoice"] : h.key # row.broj_fakture => h \in next["invoice"]

\* A row of the invoices whose number is new in the file is in the tables as the file has it.
LEMMA InvoiceTaken ==
  ASSUME NEW i, NEW old, Others(i, old), NEW acc, DOMAIN acc = {"want", "fresh", "clash"},
         AreTables(acc.want), Extends(i, "invoice", old, acc.want["invoice"]),
         NEW row, row.broj_fakture \notin acc.fresh, NEW stavke
  PROVE  LET next == UpsertInvoice(i, acc, row, stavke)
         IN  /\ DOMAIN next = {"want", "fresh", "clash"} /\ AreTables(next.want)
             /\ \A t \in Tables \ {"invoice", "invoice_line"} : next.want[t] = acc.want[t]
             /\ next.fresh \subseteq acc.fresh \cup {row.broj_fakture}
             /\ InvoicesLast(acc.want, row, next.want)
             /\ Counts(acc.want, row) => \E h \in next.want["invoice"] : InvoiceOf(acc.want, row, h)
<1> DEFINE want == acc.want
           rows == want["invoice"]
           known == Find(rows, row.broj_fakture)
           header == [id |-> IF known = {} THEN <<i, "invoice", row.broj_fakture, 0>>
                                           ELSE The(known).id,
                      key |-> row.broj_fakture, customer |-> The(Buyers(want, row)),
                      total |-> row.ukupno]
           lines == WithoutLines(want, header.id) \cup Lines(i, header, want, stavke)
           fresh == acc.fresh \cup (IF known = {} THEN {row.broj_fakture} ELSE {})
           next == UpsertInvoice(i, acc, row, stavke)
<1>1. next = IF ~Counts(want, row) THEN acc
             ELSE IF header \in known THEN acc
             ELSE [acc EXCEPT !.want["invoice"] = Replaced(@, header),
                              !.want["invoice_line"] = lines, !.fresh = fresh]
  BY DEF UpsertInvoice, Counts, Buyers
<1>2. InvoiceOf(want, row, header)  BY DEF InvoiceOf
<1>3. \A h \in rows : h.key # row.broj_fakture => h.id # header.id
  <2>1. CASE known = {}
    <3>1. header.id = <<i, "invoice", row.broj_fakture, 0>>  BY <2>1
    <3>2. ASSUME NEW r \in rows, r.id = header.id PROVE r.key = row.broj_fakture
      <4>1. r.id[1] = i /\ r.id[3] = row.broj_fakture  BY <3>1, <3>2
      <4>2. r.id = <<i, "invoice", r.key, 0>>  BY <4>1 DEF Extends, Others
      <4>3. r.id[3] = r.key  BY <4>2
      <4> QED  BY <4>1, <4>3
    <3> QED  BY <3>2
  <2>2. CASE known # {}
    <3>1. The(known) \in rows /\ The(known).key = row.broj_fakture  BY <2>2 DEF The, Find
    <3>2. header.id = The(known).id  BY <2>2
    <3> HIDE DEF known, header
    <3>3. \A r \in rows : r.id = header.id => r = The(known)  BY <3>1, <3>2 DEF Extends, UniqueIds
    <3> QED  BY <3>1, <3>3
  <2> QED  BY <2>1, <2>2
<1> HIDE DEF header, lines, next, fresh
<1>4. CASE next = acc /\ (Counts(want, row) => header \in known)
  <2>1. known \subseteq rows  BY DEF Find
  <2> QED  BY <1>2, <1>4, <2>1 DEF InvoicesLast, next
<1>5. CASE next = [acc EXCEPT !.want["invoice"] = Replaced(@, header),
                              !.want["invoice_line"] = lines, !.fresh = fresh]
  <2>1. /\ DOMAIN next = DOMAIN acc /\ next.fresh = fresh /\ AreTables(next.want)
        /\ \A t \in Tables \ {"invoice", "invoice_line"} : next.want[t] = want[t]
        /\ next.want["invoice"] = Replaced(rows, header)
    <3>1. next.want = [want EXCEPT !["invoice"] = Replaced(@, header), !["invoice_line"] = lines]
      BY <1>5
    <3>2. DOMAIN next = DOMAIN acc /\ next.fresh = fresh  BY <1>5
    <3> HIDE DEF want
    <3> QED  BY <3>1, <3>2, Schema DEF AreTables, want
  <2>2. fresh \subseteq acc.fresh \cup {row.broj_fakture}  BY DEF fresh
  <2>3. header \in Replaced(rows, header)  BY DEF Replaced
  <2>4. \A h \in rows : h.key # row.broj_fakture => h \in Replaced(rows, header)
    BY <1>3 DEF Replaced
  <2> QED  BY <1>2, <2>1, <2>2, <2>3, <2>4 DEF InvoicesLast, next
<1> QED  BY <1>1, <1>4, <1>5

\* A second pass leaves it and its lines.
LEMMA InvoiceAgain ==
  ASSUME NEW G, AreTables(G), AreRows("invoice", G["invoice"]), UniqueKeys(G["invoice"]),
         NEW row, NEW h \in G["invoice"], InvoiceOf(G, row, h), NEW j, NEW stavke
  PROVE  UpsertInvoice(j, [want |-> G, fresh |-> {}, clash |-> FALSE], row, stavke)
            = [want |-> G, fresh |-> {}, clash |-> FALSE]
<1> DEFINE acc == [want |-> G, fresh |-> {}, clash |-> FALSE]
           rows == G["invoice"]
           known == Find(rows, row.broj_fakture)
           header == [id |-> IF known = {} THEN <<j, "invoice", row.broj_fakture, 0>>
                                           ELSE The(known).id,
                      key |-> row.broj_fakture, customer |-> The(Buyers(G, row)),
                      total |-> row.ukupno]
<1>1. h \in known  BY DEF Find, InvoiceOf
<1>2. The(known) = h
  <2>1. The(known) \in known  BY <1>1 DEF The
  <2>2. The(known) \in rows /\ The(known).key = h.key  BY <2>1 DEF Find, InvoiceOf
  <2> QED  BY <2>2 DEF UniqueKeys
<1>3. header = h
  <2>1. h = [f \in {"id", "key", "customer", "total"} |-> h[f]]
    BY Schema DEF AreRows, IsRow
  <2>2. header.id = h.id  BY <1>1, <1>2
  <2>3. header.key = h.key /\ header.customer = h.customer /\ header.total = h.total
    BY DEF InvoiceOf
  <2>4. header = [f \in {"id", "key", "customer", "total"} |-> header[f]]  OBVIOUS
  <2> HIDE DEF header
  <2> QED  BY <2>1, <2>2, <2>3, <2>4
<1>4. acc.want = G /\ acc.fresh = {}  OBVIOUS
<1>5. header \in known  BY <1>1, <1>3
<1> HIDE DEF acc
<1>6. UpsertInvoice(j, acc, row, stavke) = acc
  BY <1>4, <1>5 DEF UpsertInvoice, Buyers
<1> QED  BY <1>6 DEF acc

\* So a second pass over the invoices ends where it began, if no number is there twice.
SettledInvoices(fakture, stavke, F) ==
    \A j, G : /\ AreTables(G)
              /\ G["customer"] = F["customer"] /\ G["invoice"] = F["invoice"]
              => UpsertInvoices(j, G, fakture, stavke).want = G

\* What the third pass makes of the invoices is settled if no number is in the file twice.
LEMMA InvoicesSettle ==
  ASSUME NEW i, NEW now, AreTables(now), AreRows("invoice", now["invoice"]),
         UniqueIds(now["invoice"]), UniqueKeys(now["invoice"]), Others(i, now["invoice"]),
         AreRows("invoice_line", now["invoice_line"]), UniqueIds(now["invoice_line"]),
         OtherLines(i, now["invoice_line"]),
         NEW fakture, NEW stavke, NEW n \in Nat, DOMAIN fakture = 1 .. n,
         \A k, l \in 1 .. n : fakture[k].broj_fakture = fakture[l].broj_fakture => k = l
  PROVE  SettledInvoices(fakture, stavke, UpsertInvoices(i, now, fakture, stavke).want)
<1>1. PICK g : InvoiceStates(g, i, now, fakture, stavke, n)  BY InvoicesStates
<1> DEFINE F == g[n].want
<1> DEFINE Fine(k) == /\ DOMAIN g[k] = {"want", "fresh", "clash"} /\ AreTables(g[k].want)
                      /\ InvoicesPass(i, now, stavke, g[k])
                      /\ \A number \in g[k].fresh : \E m \in 1 .. k : fakture[m].broj_fakture = number
           P == {k \in 0 .. n : Fine(k)}
           Next1(k) ==
              /\ DOMAIN g[k] = {"want", "fresh", "clash"} /\ AreTables(g[k].want)
              /\ g[k].fresh \subseteq g[k - 1].fresh \cup {fakture[k].broj_fakture}
              /\ InvoicesLast(g[k - 1].want, fakture[k], g[k].want)
              /\ Counts(g[k - 1].want, fakture[k]) =>
                    \E h \in g[k].want["invoice"] : InvoiceOf(g[k - 1].want, fakture[k], h)
<1>2. ASSUME NEW k \in 1 .. n, Fine(k - 1) PROVE Next1(k) /\ Fine(k)
  <2>1. g[k] = UpsertInvoice(i, g[k - 1], fakture[k], stavke)  BY <1>1 DEF InvoiceStates
  <2>2. fakture[k].broj_fakture \notin g[k - 1].fresh
    <3> SUFFICES ASSUME fakture[k].broj_fakture \in g[k - 1].fresh PROVE FALSE
      OBVIOUS
    <3>1. PICK m \in 1 .. k - 1 : fakture[m].broj_fakture = fakture[k].broj_fakture  BY <1>2
    <3>2. m \in 1 .. n /\ m # k  BY <3>1
    <3> QED  BY <3>1, <3>2
  <2>3. Extends(i, "invoice", now["invoice"], g[k - 1].want["invoice"])  BY <1>2 DEF InvoicesPass
  <2>4. Next1(k)
    <3> DEFINE acc == g[k - 1]
               row == fakture[k]
               old == now["invoice"]
    <3>1. /\ Others(i, old) /\ DOMAIN acc = {"want", "fresh", "clash"} /\ AreTables(acc.want)
          /\ Extends(i, "invoice", old, acc.want["invoice"]) /\ row.broj_fakture \notin acc.fresh
      BY <1>2, <2>2, <2>3
    <3> HIDE DEF acc, row, old
    <3>2. LET next == UpsertInvoice(i, acc, row, stavke)
          IN  /\ DOMAIN next = {"want", "fresh", "clash"} /\ AreTables(next.want)
              /\ \A t \in Tables \ {"invoice", "invoice_line"} : next.want[t] = acc.want[t]
              /\ next.fresh \subseteq acc.fresh \cup {row.broj_fakture}
              /\ InvoicesLast(acc.want, row, next.want)
              /\ Counts(acc.want, row) => \E h \in next.want["invoice"] : InvoiceOf(acc.want, row, h)
      BY <3>1, InvoiceTaken
    <3> QED  BY <2>1, <3>2 DEF acc, row
  <2>5. InvoicesPass(i, now, stavke, g[k])  BY <1>2, <2>1, InvoiceStep
  <2>6. ASSUME NEW number \in g[k].fresh PROVE \E m \in 1 .. k : fakture[m].broj_fakture = number
    <3>1. CASE number = fakture[k].broj_fakture
      <4>1. k \in 1 .. k  OBVIOUS
      <4> QED  BY <3>1, <4>1
    <3>2. CASE number \in g[k - 1].fresh
      <4>1. PICK m \in 1 .. k - 1 : fakture[m].broj_fakture = number  BY <1>2, <3>2
      <4>2. m \in 1 .. k  BY <4>1
      <4> QED  BY <4>1, <4>2
    <3> QED  BY <2>4, <3>1, <3>2
  <2> QED  BY <2>4, <2>5, <2>6
<1> HIDE DEF Next1
<1>3. \A k \in 0 .. n : Fine(k)
  <2>1. 0 \in P
    <3>1. g[0] = [want |-> now, fresh |-> {}, clash |-> FALSE]  BY <1>1 DEF InvoiceStates
    <3>2. DOMAIN g[0] = {"want", "fresh", "clash"} /\ g[0].want = now /\ g[0].fresh = {}
      BY <3>1
    <3>3. Extends(i, "invoice", now["invoice"], now["invoice"])  BY ExtendsSelf
    <3>4. LinesPass(i, now, stavke, now)  BY DEF LinesPass, OtherLines
    <3>5. InvoicesPass(i, now, stavke, g[0])
      BY <3>2, <3>3, <3>4 DEF InvoicesPass, AreTables
    <3> QED  BY <3>2, <3>5
  <2>2. ASSUME NEW k \in 1 .. n, k - 1 \in P PROVE k \in P
    <3>1. k \in 0 .. n /\ Fine(k - 1)  BY <2>2
    <3>2. Fine(k)
      <4> HIDE DEF Fine
      <4> QED  BY <1>2, <3>1
    <3> QED  BY <3>1, <3>2
  <2> HIDE DEF P
  <2>3. \A k \in 0 .. n : k \in P  BY <2>1, <2>2, CountingUp
  <2> QED  BY <2>3 DEF P
<1> HIDE DEF P
<1> SUFFICES ASSUME NEW j, NEW G, AreTables(G),
                    G["customer"] = F["customer"], G["invoice"] = F["invoice"]
             PROVE  UpsertInvoices(j, G, fakture, stavke).want = G
  BY <1>1 DEF InvoiceStates, SettledInvoices
<1>4. \A k \in 0 .. n : g[k].want["customer"] = now["customer"]
  BY <1>3, Schema DEF InvoicesPass
<1>5. \A k \in 1 .. n : Next1(k)
  <2> SUFFICES ASSUME NEW k \in 1 .. n PROVE Next1(k)
    OBVIOUS
  <2>1. k - 1 \in 0 .. n  OBVIOUS
  <2> QED  BY <1>2, <1>3, <2>1
<1>6. AreRows("invoice", G["invoice"]) /\ UniqueKeys(G["invoice"])
  <2>1. Fine(n)  BY <1>3
  <2> QED  BY <2>1 DEF InvoicesPass, Extends
<1> HIDE DEF Fine
<1>7. /\ \A row : Counts(G, row) <=> Counts(now, row)
      /\ \A row, h : InvoiceOf(G, row, h) <=> InvoiceOf(now, row, h)
  <2>1. G["customer"] = now["customer"]
    <3>1. n \in 0 .. n  OBVIOUS
    <3> QED  BY <1>4, <3>1
  <2>2. \A row : Buyers(G, row) = Buyers(now, row)  BY <2>1 DEF Buyers
  <2> QED  BY <2>2 DEF Counts, InvoiceOf
<1> DEFINE Kept(k, m) == \/ k = 0 \/ ~Counts(now, fakture[k])
                         \/ \E h \in g[m].want["invoice"] : InvoiceOf(now, fakture[k], h)
<1>8. ASSUME NEW k \in 1 .. n, Counts(G, fakture[k])
      PROVE  \E h \in G["invoice"] : InvoiceOf(G, fakture[k], h)
  <2> DEFINE S == {p \in (0 .. n) \X (0 .. n) : Kept(p[1], p[2])}
  <2>1. ASSUME NEW a \in 0 .. n PROVE Kept(a, a)
    <3>1. CASE a = 0  BY <3>1
    <3>2. CASE a # 0
      <4>1. a \in 1 .. n /\ a - 1 \in 0 .. n  BY <3>2
      <4>2. g[a - 1].want["customer"] = now["customer"]  BY <1>4, <4>1
      <4>3. Counts(g[a - 1].want, fakture[a]) <=> Counts(now, fakture[a])
        BY <4>2 DEF Counts, Buyers
      <4>4. \A h : InvoiceOf(g[a - 1].want, fakture[a], h) <=> InvoiceOf(now, fakture[a], h)
        BY <4>2 DEF InvoiceOf, Buyers
      <4> QED  BY <1>5, <4>1, <4>3, <4>4 DEF Next1
    <3> QED  BY <3>1, <3>2
  <2>2. ASSUME NEW a \in 0 .. n, NEW m \in 1 .. n, a < m, Kept(a, m - 1) PROVE Kept(a, m)
    <3>1. CASE a = 0 \/ ~Counts(now, fakture[a])  BY <3>1
    <3>2. CASE \E h \in g[m - 1].want["invoice"] : InvoiceOf(now, fakture[a], h) /\ a # 0
      <4>1. PICK h \in g[m - 1].want["invoice"] : InvoiceOf(now, fakture[a], h)  BY <3>2
      <4>2. a \in 1 .. n /\ a # m  BY <2>2, <3>2
      <4>3. h.key # fakture[m].broj_fakture  BY <4>1, <4>2 DEF InvoiceOf
      <4>4. h \in g[m].want["invoice"]  BY <1>5, <4>1, <4>3 DEF Next1, InvoicesLast
      <4> QED  BY <4>1, <4>4
    <3> QED  BY <2>2, <3>1, <3>2
  <2> HIDE DEF Kept
  <2>3. \A a \in 0 .. n : <<a, a>> \in S  BY <2>1
  <2>4. \A a \in 0 .. n, m \in 1 .. n : a < m /\ <<a, m - 1>> \in S => <<a, m>> \in S
    <3> SUFFICES ASSUME NEW a \in 0 .. n, NEW m \in 1 .. n, a < m, <<a, m - 1>> \in S
                 PROVE  <<a, m>> \in S
      OBVIOUS
    <3>1. m \in 0 .. n /\ Kept(a, m - 1)  OBVIOUS
    <3> QED  BY <2>2, <3>1
  <2> HIDE DEF S
  <2>5. \A a \in 0 .. n : <<a, n>> \in S  BY <2>3, <2>4, ToTheEnd
  <2>6. Kept(k, n)
    <3>1. k \in 0 .. n  OBVIOUS
    <3>2. <<k, n>> \in S  BY <2>5, <3>1
    <3> QED  BY <3>2 DEF S
  <2> QED  BY <1>7, <1>8, <2>6 DEF Kept
<1>9. PICK h : InvoiceStates(h, j, G, fakture, stavke, n)  BY InvoicesStates
<1> DEFINE acc == [want |-> G, fresh |-> {}, clash |-> FALSE]
           R == {k \in 0 .. n : h[k] = acc}
<1>10. 0 \in R
  <2>1. h[0] = acc  BY <1>9 DEF InvoiceStates
  <2>2. 0 \in 0 .. n  OBVIOUS
  <2> QED  BY <2>1, <2>2
<1>11. ASSUME NEW k \in 1 .. n, k - 1 \in R PROVE k \in R
  <2>1. k \in 0 .. n /\ h[k - 1] = acc  BY <1>11
  <2>2. h[k] = UpsertInvoice(j, acc, fakture[k], stavke)  BY <1>9, <2>1 DEF InvoiceStates
  <2>3. CASE ~Counts(G, fakture[k])
    <3>1. acc.want = G  OBVIOUS
    <3> HIDE DEF acc
    <3>2. UpsertInvoice(j, acc, fakture[k], stavke) = acc
      BY <2>3, <3>1 DEF UpsertInvoice, Counts, Buyers
    <3> QED  BY <2>1, <2>2, <3>2
  <2>4. CASE Counts(G, fakture[k])
    <3>1. PICK q \in G["invoice"] : InvoiceOf(G, fakture[k], q)  BY <1>8, <2>4
    <3>2. UpsertInvoice(j, acc, fakture[k], stavke) = acc  BY <1>6, <3>1, InvoiceAgain
    <3> QED  BY <2>1, <2>2, <3>2
  <2> QED  BY <2>3, <2>4
<1> HIDE DEF R
<1>12. \A k \in 0 .. n : k \in R  BY <1>10, <1>11, CountingUp
<1>13. h[n].want = G
  <2>1. n \in R  BY <1>12
  <2>2. h[n] = acc  BY <2>1 DEF R
  <2> QED  BY <2>2
<1> QED  BY <1>9, <1>13 DEF InvoiceStates

\* The pass over the invoices leaves the tables a record.
LEMMA InvoicesAreTables ==
  ASSUME NEW i, NEW now, AreTables(now), NEW fakture, NEW stavke, NEW n \in Nat, DOMAIN fakture = 1 .. n
  PROVE  AreTables(UpsertInvoices(i, now, fakture, stavke).want)
<1>1. PICK g : InvoiceStates(g, i, now, fakture, stavke, n)  BY InvoicesStates
<1> DEFINE Fine(k) == DOMAIN g[k] = {"want", "fresh", "clash"} /\ AreTables(g[k].want)
           P == {k \in 0 .. n : Fine(k)}
<1>2. 0 \in P
  <2>1. g[0] = [want |-> now, fresh |-> {}, clash |-> FALSE]  BY <1>1 DEF InvoiceStates
  <2>2. Fine(0)  BY <2>1
  <2> QED  BY <2>2
<1>3. ASSUME NEW k \in 1 .. n, k - 1 \in P PROVE k \in P
  <2> DEFINE acc == g[k - 1]
             row == fakture[k]
             want == acc.want
             known == Find(want["invoice"], row.broj_fakture)
             customer == {c.id : c \in Find(want["customer"], row.sifra_kupca)}
             header == [id |-> IF known = {} THEN <<i, "invoice", row.broj_fakture, 0>>
                                             ELSE The(known).id,
                        key |-> row.broj_fakture, customer |-> The(customer), total |-> row.ukupno]
             rows == Replaced(want["invoice"], header)
             lines == WithoutLines(want, header.id) \cup Lines(i, header, want, stavke)
             fresh == acc.fresh \cup (IF known = {} THEN {row.broj_fakture} ELSE {})
             next == UpsertInvoice(i, acc, row, stavke)
  <2>1. k \in 0 .. n /\ Fine(k - 1) /\ g[k] = next
    BY <1>1, <1>3 DEF InvoiceStates
  <2>2. \/ next = acc \/ next = [acc EXCEPT !.clash = TRUE]
        \/ next = [acc EXCEPT !.want["invoice"] = rows, !.want["invoice_line"] = lines, !.fresh = fresh]
    BY DEF UpsertInvoice
  <2>3. DOMAIN acc = {"want", "fresh", "clash"} /\ AreTables(want)  BY <2>1
  <2> HIDE DEF next, rows, lines, fresh, P
  <2>4. /\ DOMAIN next = {"want", "fresh", "clash"}
        /\ next.want = want \/ next.want = [want EXCEPT !["invoice"] = rows, !["invoice_line"] = lines]
    <3> HIDE DEF acc
    <3> QED  BY <2>2, <2>3
  <2>5. AreTables(next.want)
    <3> HIDE DEF want
    <3> QED  BY <2>3, <2>4 DEF AreTables
  <2> QED  BY <2>1, <2>4, <2>5 DEF P
<1> HIDE DEF P
<1>4. \A k \in 0 .. n : k \in P  BY <1>2, <1>3, CountingUp
<1>5. Fine(n)
  <2>1. n \in P  BY <1>4
  <2> QED  BY <2>1 DEF P
<1> QED  BY <1>1, <1>5 DEF InvoiceStates

\* The totals have two decimals: the flush leaves them as they are.
Exact(F) == \A r \in F["invoice"] : r.total \notin DOMAIN Rounded

\* The pass over the invoices leaves the totals so if those of the file are.
LEMMA InvoicesAreExact ==
  ASSUME NEW i, NEW now, AreTables(now), Exact(now), NEW fakture, NEW stavke, NEW n \in Nat,
         DOMAIN fakture = 1 .. n, \A k \in 1 .. n : fakture[k].ukupno \notin DOMAIN Rounded
  PROVE  Exact(UpsertInvoices(i, now, fakture, stavke).want)
<1>1. PICK g : InvoiceStates(g, i, now, fakture, stavke, n)  BY InvoicesStates
<1> DEFINE Fine(k) == /\ DOMAIN g[k] = {"want", "fresh", "clash"} /\ AreTables(g[k].want)
                      /\ Exact(g[k].want)
           P == {k \in 0 .. n : Fine(k)}
<1>2. 0 \in P
  <2>1. g[0] = [want |-> now, fresh |-> {}, clash |-> FALSE]  BY <1>1 DEF InvoiceStates
  <2>2. Fine(0)  BY <2>1
  <2> QED  BY <2>2
<1>3. ASSUME NEW k \in 1 .. n, k - 1 \in P PROVE k \in P
  <2> DEFINE acc == g[k - 1]
             row == fakture[k]
             want == acc.want
             known == Find(want["invoice"], row.broj_fakture)
             customer == {c.id : c \in Find(want["customer"], row.sifra_kupca)}
             header == [id |-> IF known = {} THEN <<i, "invoice", row.broj_fakture, 0>>
                                             ELSE The(known).id,
                        key |-> row.broj_fakture, customer |-> The(customer), total |-> row.ukupno]
             rows == Replaced(want["invoice"], header)
             lines == WithoutLines(want, header.id) \cup Lines(i, header, want, stavke)
             fresh == acc.fresh \cup (IF known = {} THEN {row.broj_fakture} ELSE {})
             next == UpsertInvoice(i, acc, row, stavke)
  <2>1. k \in 0 .. n /\ Fine(k - 1) /\ g[k] = next
    BY <1>1, <1>3 DEF InvoiceStates
  <2>2. \/ next = acc \/ next = [acc EXCEPT !.clash = TRUE]
        \/ next = [acc EXCEPT !.want["invoice"] = rows, !.want["invoice_line"] = lines, !.fresh = fresh]
    BY DEF UpsertInvoice
  <2>3. DOMAIN acc = {"want", "fresh", "clash"} /\ AreTables(want) /\ Exact(want)  BY <2>1
  <2>4. \A r \in rows : r.total \notin DOMAIN Rounded
    <3>1. header.total = row.ukupno  OBVIOUS
    <3> HIDE DEF header
    <3> QED  BY <2>3, <3>1 DEF Exact, Replaced
  <2> HIDE DEF next, rows, lines, fresh, P
  <2>5. /\ DOMAIN next = {"want", "fresh", "clash"}
        /\ next.want = want \/ next.want = [want EXCEPT !["invoice"] = rows, !["invoice_line"] = lines]
    <3> HIDE DEF acc
    <3> QED  BY <2>2, <2>3
  <2>6. AreTables(next.want) /\ Exact(next.want)
    <3> HIDE DEF want
    <3>1. CASE next.want = want  BY <2>3, <3>1
    <3>2. CASE next.want = [want EXCEPT !["invoice"] = rows, !["invoice_line"] = lines]
      <4>1. DOMAIN want = Tables  BY <2>3 DEF AreTables
      <4>2. next.want["invoice"] = rows  BY <3>2, <4>1, Schema
      <4>3. AreTables(next.want)  BY <2>3, <3>2 DEF AreTables
      <4> QED  BY <2>4, <4>2, <4>3 DEF Exact
    <3> QED  BY <2>5, <3>1, <3>2
  <2> QED  BY <2>1, <2>5, <2>6 DEF P
<1> HIDE DEF P
<1>4. \A k \in 0 .. n : k \in P  BY <1>2, <1>3, CountingUp
<1>5. Fine(n)
  <2>1. n \in P  BY <1>4
  <2> QED  BY <2>1 DEF P
<1> QED  BY <1>1, <1>5 DEF InvoiceStates

\* What a pass over the customers makes is its own, and it leaves out nothing.
Grown(i, rows, next) ==
    /\ \A r \in next : r.id[1] = i \/ \E s \in rows : s.id = r.id
    /\ \A s \in rows : \E r \in next : r.id = s.id
\* So it is from row to row of the file,
LEMMA GrownMore ==
  ASSUME NEW i, NEW a, NEW b, NEW c, Grown(i, a, b), Grown(i, b, c)
  PROVE  Grown(i, a, c)
BY DEF Grown
\* for the legal entities by tax id
LEMMA EntitiesGrow ==
  ASSUME NEW i, NEW now, AreTables(now), Firms(i, now),
         NEW kupci, NEW n \in Nat, DOMAIN kupci = 1 .. n
  PROVE  Grown(i, now["legal_entity"], UpsertEntities(i, now, kupci)["legal_entity"])
<1>1. PICK e : EntitiesThrough(e, i, now, kupci, n)  BY EntitiesGoThrough
<1> DEFINE G == {k \in 0 .. n : Grown(i, now["legal_entity"], e[k]["legal_entity"])}
<1>2. 0 \in G
  <2>1. e[0] = now  BY <1>1 DEF EntitiesThrough, EntityStates
  <2> QED  BY <2>1 DEF Grown
<1>3. ASSUME NEW k \in 1 .. n, k - 1 \in G PROVE k \in G
  <2>1. k \in 0 .. n /\ k - 1 \in 0 .. n  OBVIOUS
  <2>2. e[k] = UpsertEntity(i, e[k - 1], kupci[k])  BY <1>1 DEF EntitiesThrough, EntityStates
  <2>3. AreTables(e[k - 1]) /\ Firms(i, e[k - 1])  BY <1>1, <2>1 DEF EntitiesThrough
  <2> DEFINE rows == e[k - 1]["legal_entity"]
             next == e[k]["legal_entity"]
  <2>4. Grown(i, rows, next)
    <3>1. CASE kupci[k].jib = Blank
      <4>1. e[k] = e[k - 1]  BY <2>2, <3>1 DEF UpsertEntity
      <4> QED  BY <4>1 DEF Grown
    <3>2. CASE kupci[k].jib # Blank
      <4>1. /\ EntitiesLast(e[k - 1], e[k])
            /\ \E new \in next : EntityMade(i, e[k - 1], kupci[k], new)
        BY <2>2, <2>3, <3>2, FirmsStay
      <4>2. PICK new : EntityMade(i, e[k - 1], kupci[k], new)  BY <4>1
      <4>3. next = Replaced(rows, new)
        BY <2>2, <2>3, <4>2, Schema DEF EntityMade, AreTables
      <4>4. new.id[1] = i \/ \E s \in rows : s.id = new.id  BY <4>2 DEF EntityMade
      <4>5. \A s \in rows : \E r \in next : r.id = s.id  BY <4>1 DEF EntitiesLast
      <4> HIDE DEF rows, next
      <4> QED  BY <4>3, <4>4, <4>5 DEF Grown, Replaced
    <3> QED  BY <3>1, <3>2
  <2>5. Grown(i, now["legal_entity"], rows)  BY <1>3
  <2>6. Grown(i, now["legal_entity"], next)
    <3> HIDE DEF rows, next
    <3> QED  BY <2>4, <2>5, GrownMore
  <2> QED  BY <2>1, <2>6
<1> HIDE DEF G
<1>4. \A k \in 0 .. n : k \in G  BY <1>2, <1>3, CountingUp
<1>5. n \in G  BY <1>4
<1> QED  BY <1>1, <1>5 DEF G, EntitiesThrough, EntityStates
\* and for all of them and the representatives.
LEMMA CustomersGrow ==
  ASSUME NEW i, NEW now, AreTables(now), Firms(i, now), Reps(i, now),
         \A t \in Tables : AreRows(t, now[t]),
         UniqueIds(now["customer"]), UniqueKeys(now["customer"]), Others(i, now["customer"]),
         NEW kupci, NEW n \in Nat, DOMAIN kupci = 1 .. n
  PROVE  LET want == UpsertCustomers(i, now, kupci)
         IN  /\ Grown(i, now["legal_entity"], want["legal_entity"])
             /\ Grown(i, now["customer_rep"], want["customer_rep"])
<1>1. PICK e : EntitiesThrough(e, i, now, kupci, n)  BY EntitiesGoThrough
<1>2. PICK g : CustomersThrough(g, i, now, kupci, n)  BY CustomersGoThrough
<1>3. g[0] = e[n] /\ n \in 0 .. n /\ e[n] = UpsertEntities(i, now, kupci)
  BY <1>1, <1>2 DEF EntitiesThrough, EntityStates, CustomersThrough, CustomerStates
<1> DEFINE Fine(k) == /\ Grown(i, now["legal_entity"], g[k]["legal_entity"])
                      /\ Grown(i, now["customer_rep"], g[k]["customer_rep"])
           G == {k \in 0 .. n : Fine(k)}
<1>4. 0 \in G
  <2>1. g[0]["customer_rep"] = now["customer_rep"]  BY <1>1, <1>3, Schema DEF EntitiesThrough
  <2>2. Grown(i, now["legal_entity"], g[0]["legal_entity"])  BY <1>3, EntitiesGrow
  <2> QED  BY <2>1, <2>2 DEF Grown
<1>5. ASSUME NEW k \in 1 .. n, k - 1 \in G PROVE k \in G
  <2>1. k \in 0 .. n /\ k - 1 \in 0 .. n /\ Fine(k - 1)  BY <1>5
  <2> DEFINE a == g[k - 1]
             b == g[k]
  <2>2. b = UpsertCustomer(i, a, kupci[k])  BY <1>2 DEF CustomersThrough, CustomerStates
  <2>3. /\ AreTables(a) /\ Firms(i, a) /\ Reps(i, a)
        /\ Extends(i, "customer", now["customer"], a["customer"])
    BY <1>2, <2>1 DEF CustomersThrough, CustomersPass
  <2>4. Grown(i, a["legal_entity"], b["legal_entity"]) /\ Grown(i, a["customer_rep"], b["customer_rep"])
    <3> HIDE DEF a, b
    <3>1. CASE kupci[k].sifra = Blank
      <4>1. b = a  BY <2>2, <3>1 DEF UpsertCustomer
      <4> QED  BY <4>1 DEF Grown
    <3>2. CASE kupci[k].sifra # Blank
      <4>1. \E new \in b["customer"] : CustomerMade(i, a, kupci[k], new)
        BY <2>2, <2>3, <3>2, CustomersStay
      <4>2. PICK new : CustomerMade(i, a, kupci[k], new)  BY <4>1
      <4>3. \/ b["legal_entity"] = a["legal_entity"]
            \/ \E own : own.id[1] = i /\ b["legal_entity"] = a["legal_entity"] \cup {own}
        BY <2>2, <4>2 DEF CustomerMade
      <4>4. \/ b["customer_rep"] = a["customer_rep"]
            \/ \E rep : rep.id[1] = i /\ b["customer_rep"] = a["customer_rep"] \cup {rep}
        BY <2>2, <4>2 DEF CustomerMade
      <4> QED  BY <4>3, <4>4 DEF Grown
    <3> QED  BY <3>1, <3>2
  <2>5. Fine(k)
    <3>1. Fine(k - 1)  BY <2>1
    <3> QED  BY <2>4, <3>1, GrownMore
  <2> QED  BY <2>1, <2>5
<1> HIDE DEF G
<1>6. \A k \in 0 .. n : k \in G  BY <1>4, <1>5, CountingUp
<1>7. n \in G  BY <1>3, <1>6
<1>8. UpsertCustomers(i, now, kupci) = g[n]  BY <1>2 DEF CustomersThrough, CustomerStates
<1> QED  BY <1>7, <1>8 DEF G

\* What an import sees; tables in which nothing is twice; what a second import of the same export
\* would leave.
Sees(i) == [t \in Tables |-> Visible(i, t)]
Tidy(F) ==
    /\ AreTables(F) /\ TaxIdsUnique(F["legal_entity"])
    /\ \A t \in Tables : AreRows(t, F[t]) /\ UniqueIds(F[t])
    /\ \A t \in Keyed : UniqueKeys(F[t])
\* The tables as they are stored.
Kept(F) == [t \in Tables |-> {Stored(row) : row \in F[t]}]
SettledPhase(p, e, F) ==
    /\ p = 1 => SettledCustomers(e.kupci, F)
    /\ p = 2 => SettledArticles(e.artikli, F)
    /\ p = 3 => SettledInvoices(e.fakture, e.stavke, F)

\* What is stored of tidy tables is tidy and exact, and nothing else if they are exact.
LEMMA KeptIsTidy ==
  ASSUME NEW F, Tidy(F)
  PROVE  /\ Tidy(Kept(F)) /\ Exact(Kept(F))
         /\ \A t \in Tables \ {"invoice"} : Kept(F)[t] = F[t]
         /\ Exact(F) => Kept(F) = F
<1>1. \A t \in Tables : Kept(F)[t] = {Stored(row) : row \in F[t]}  BY DEF Kept
<1>2. \A t \in Tables : AreRows(t, F[t]) /\ UniqueIds(F[t])  BY DEF Tidy
<1>3. ASSUME NEW t \in Tables, NEW r \in Kept(F)[t]
      PROVE  /\ IsRow(t, r)
             /\ \E row \in F[t] : /\ r = Stored(row) /\ r.id = row.id
                                  /\ t \in Keyed => r.key = row.key
  <2>1. PICK row \in F[t] : r = Stored(row)  BY <1>1, <1>3
  <2>2. IsRow(t, row)  BY <1>2, <2>1 DEF AreRows
  <2> QED  BY <2>1, <2>2, StoredRow
<1>4. \A t \in Tables : AreRows(t, Kept(F)[t])  BY <1>3 DEF AreRows
<1>5. \A t \in Tables : UniqueIds(Kept(F)[t])
  <2> SUFFICES ASSUME NEW t \in Tables, NEW r \in Kept(F)[t], NEW s \in Kept(F)[t], r.id = s.id
               PROVE  r = s
    BY DEF UniqueIds
  <2>1. PICK row \in F[t] : r = Stored(row) /\ r.id = row.id  BY <1>3
  <2>2. PICK other \in F[t] : s = Stored(other) /\ s.id = other.id  BY <1>3
  <2>3. row = other  BY <1>2, <2>1, <2>2 DEF UniqueIds
  <2> QED  BY <2>1, <2>2, <2>3
<1>6. \A t \in Keyed : UniqueKeys(Kept(F)[t])
  <2> SUFFICES ASSUME NEW t \in Keyed, NEW r \in Kept(F)[t], NEW s \in Kept(F)[t], r.key = s.key
               PROVE  r = s
    BY DEF UniqueKeys
  <2>0. t \in Tables  BY Schema
  <2>1. PICK row \in F[t] : r = Stored(row) /\ r.key = row.key  BY <1>3, <2>0
  <2>2. PICK other \in F[t] : s = Stored(other) /\ s.key = other.key  BY <1>3, <2>0
  <2>3. row = other  BY <2>1, <2>2 DEF Tidy, UniqueKeys
  <2> QED  BY <2>1, <2>2, <2>3
<1>7. \A t \in Tables \ {"invoice"} : Kept(F)[t] = F[t]
  <2> SUFFICES ASSUME NEW t \in Tables \ {"invoice"} PROVE Kept(F)[t] = F[t]
    OBVIOUS
  <2>1. \A row \in F[t] : Stored(row) = row  BY <1>2, StoredRow DEF AreRows
  <2> QED  BY <1>1, <2>1
<1>8. Exact(Kept(F))
  <2> SUFFICES ASSUME NEW r \in Kept(F)["invoice"] PROVE r.total \notin DOMAIN Rounded
    BY DEF Exact
  <2>1. PICK row \in F["invoice"] : r = Stored(row)  BY <1>1, Schema
  <2>2. IsRow("invoice", row)  BY <1>2, Schema DEF AreRows
  <2>3. r.total = InCents(row.total)  BY <2>1, <2>2, StoredRow, Schema
  <2> QED  BY <2>3, IngestAssumption DEF InCents
<1>9. Exact(F) => Kept(F) = F
  <2> SUFFICES ASSUME Exact(F) PROVE Kept(F) = F
    OBVIOUS
  <2>1. \A row \in F["invoice"] : Stored(row) = row
    BY <1>2, StoredRow, Schema DEF AreRows, Exact
  <2>2. Kept(F)["invoice"] = F["invoice"]
    <3>1. Kept(F)["invoice"] = {Stored(row) : row \in F["invoice"]}  BY <1>1, Schema
    <3> QED  BY <2>1, <3>1
  <2>3. \A t \in Tables : Kept(F)[t] = F[t]  BY <1>7, <2>2
  <2>4. F = [t \in Tables |-> F[t]]  BY DEF Tidy, AreTables
  <2> QED  BY <2>3, <2>4 DEF Kept
<1>10. AreTables(Kept(F))  BY DEF AreTables, Kept
<1>11. TaxIdsUnique(Kept(F)["legal_entity"])  BY <1>7, Schema DEF Tidy
<1>12. Tidy(Kept(F))  BY <1>4, <1>5, <1>6, <1>10, <1>11 DEF Tidy
<1> QED  BY <1>7, <1>8, <1>9, <1>12

\* What a pass wants of exact tables is exact if the totals of the export are.
LEMMA WantIsExact ==
  ASSUME NEW i, Passing(i), AreTables(Now(i)), Exact(Now(i)), Consistent(tx[i].export)
  PROVE  Exact(Want(i))
<1> DEFINE now == Now(i)
           want == Want(i)
           e == tx[i].export
<1>1. Wanted(i, now, want) /\ Written(i) /\ AreTables(now) /\ Exact(now)  BY DEF Passing
<1>2. e \in Exports /\ tx[i].phase \in 1 .. 3  BY <1>1 DEF Written
<1>3. CASE tx[i].phase # 3
  <2>1. want["invoice"] = now["invoice"]  BY <1>1, <1>3, PhasesOf, Schema DEF Wanted
  <2> QED  BY <1>1, <2>1 DEF Exact
<1>4. CASE tx[i].phase = 3
  <2> DEFINE n == Len(e.fakture)
             pass == UpsertInvoices(i, now, e.fakture, e.stavke)
  <2>1. n \in Nat /\ DOMAIN e.fakture = 1 .. n  BY <1>2, IngestAssumption DEF Files
  <2>2. want = pass.want  BY <1>4, PhasesOf DEF Want, After
  <2>3. \A k \in 1 .. n : e.fakture[k].ukupno \notin DOMAIN Rounded
    BY <2>1 DEF Consistent
  <2> HIDE DEF n, now
  <2>4. Exact(pass.want)  BY <1>1, <2>1, <2>3, InvoicesAreExact
  <2> QED  BY <2>2, <2>4
<1> QED  BY <1>3, <1>4

\* Each pass over tidy tables leaves them tidy, and settled.
LEMMA PassSettles ==
  ASSUME NEW i, Passing(i), Tidy(Now(i)),
         tx[i].phase = 1 => /\ Others(i, Now(i)["legal_entity"])
                            /\ Others(i, Now(i)["customer_rep"])
  PROVE  /\ Tidy(Want(i))
         /\ \A t \in {"legal_entity", "customer_rep"} : Grown(i, Now(i)[t], Want(i)[t])
         /\ Consistent(tx[i].export) => SettledPhase(tx[i].phase, tx[i].export, Want(i))
<1> DEFINE now == Now(i)
           want == Want(i)
           e == tx[i].export
<1>1. Wanted(i, now, want) /\ NowRead(i, now) /\ Written(i)  BY DEF Passing
<1>2. e \in Exports /\ tx[i].phase \in 1 .. 3  BY <1>1 DEF Written
<1>3. DOMAIN e = Files /\ \A f \in Files : Len(e[f]) \in Nat /\ DOMAIN e[f] = 1 .. Len(e[f])
  BY <1>2, IngestAssumption
<1>4. /\ tx[i].phase = 1 => want = UpsertCustomers(i, now, e.kupci)
      /\ tx[i].phase = 2 => want = UpsertArticles(i, now, e.artikli)
      /\ tx[i].phase = 3 => want = UpsertInvoices(i, now, e.fakture, e.stavke).want
  BY PhasesOf DEF Want, After
<1>5. AreTables(now) /\ Tidy(now)  BY DEF Tidy
<1> HIDE DEF now, want, e
<1>6. /\ \A t \in Tables : AreRows(t, want[t])
      /\ \A t \in Tables : PhaseOf[t] # tx[i].phase => want[t] = now[t]
      /\ \A t \in Keyed : PhaseOf[t] = tx[i].phase => Extends(i, t, now[t], want[t])
  BY <1>1 DEF Wanted
<1>7. \A t \in Keyed : UniqueIds(want[t]) /\ UniqueKeys(want[t])
  <2> SUFFICES ASSUME NEW t \in Keyed PROVE UniqueIds(want[t]) /\ UniqueKeys(want[t])
    OBVIOUS
  <2>1. t \in Tables  BY Schema
  <2>2. CASE PhaseOf[t] # tx[i].phase  BY <1>5, <1>6, <2>1, <2>2 DEF Tidy
  <2>3. CASE PhaseOf[t] = tx[i].phase  BY <1>6, <2>3 DEF Extends
  <2> QED  BY <2>2, <2>3
<1>8. UniqueIds(want["invoice_line"])
  <2>1. CASE tx[i].phase # 3  BY <1>5, <1>6, <2>1, PhasesOf, Schema DEF Tidy
  <2>2. CASE tx[i].phase = 3
    <3>1. LinesPass(i, now, tx[i].export.stavke, want)  BY <1>1, <2>2 DEF Wanted
    <3> QED  BY <3>1 DEF LinesPass
  <2> QED  BY <2>1, <2>2
<1>9. \A t \in Keyed : PhaseOf[t] >= tx[i].phase => Others(i, now[t])  BY <1>1 DEF NowRead
<1>10. CASE tx[i].phase = 1
  <2> DEFINE n == Len(e.kupci)
  <2>1. n \in Nat /\ DOMAIN e.kupci = 1 .. n  BY <1>3 DEF Files
  <2>2. /\ \A t \in Tables : AreRows(t, now[t])
        /\ UniqueIds(now["customer"]) /\ UniqueKeys(now["customer"]) /\ Others(i, now["customer"])
    BY <1>5, <1>9, <1>10, PhasesOf, Schema DEF Tidy
  <2>3. Others(i, now["legal_entity"]) /\ Others(i, now["customer_rep"])  BY <1>10 DEF now
  <2>4. Firms(i, now) /\ Reps(i, now)
    BY <1>5, <2>3, Schema DEF Firms, Reps, Tidy, Others
  <2>5. want = UpsertCustomers(i, now, e.kupci)  BY <1>4, <1>10
  <2> HIDE DEF n
  <2>6. PICK g : CustomersThrough(g, i, now, e.kupci, n)
    BY <1>5, <2>1, <2>2, <2>4, CustomersGoThrough
  <2>7. g[n] = want /\ n \in 0 .. n
    BY <2>1, <2>5, <2>6 DEF CustomersThrough, CustomerStates
  <2>8. AreTables(want) /\ Firms(i, want) /\ Reps(i, want)  BY <2>6, <2>7 DEF CustomersThrough
  <2>9. Tidy(want)  BY <1>6, <1>7, <1>8, <2>8, Schema DEF Tidy, Firms, Reps
  <2>10. /\ Grown(i, now["legal_entity"], want["legal_entity"])
         /\ Grown(i, now["customer_rep"], want["customer_rep"])
    BY <1>5, <2>1, <2>2, <2>4, <2>5, CustomersGrow
  <2>11. SettledCustomers(e.kupci, want)
    BY <1>5, <2>1, <2>2, <2>4, <2>5, CustomersSettle
  <2> QED  BY <1>10, <2>9, <2>10, <2>11 DEF now, want, e, SettledPhase
<1>11. ASSUME tx[i].phase # 1
       PROVE  /\ AreTables(want) => Tidy(want)
              /\ \A t \in {"legal_entity", "customer_rep"} : Grown(i, now[t], want[t])
  <2>1. want["legal_entity"] = now["legal_entity"] /\ want["customer_rep"] = now["customer_rep"]
    BY <1>6, <1>11, PhasesOf, Schema
  <2>2. /\ UniqueIds(now["legal_entity"]) /\ UniqueIds(now["customer_rep"])
        /\ TaxIdsUnique(now["legal_entity"])
    BY <1>5, Schema DEF Tidy
  <2>3. \A t \in Tables : UniqueIds(want[t])  BY <1>7, <1>8, <2>1, <2>2, Schema
  <2>4. AreTables(want) => Tidy(want)  BY <1>6, <1>7, <2>1, <2>2, <2>3 DEF Tidy
  <2> QED  BY <2>1, <2>4 DEF Grown
<1>12. CASE tx[i].phase = 2
  <2> DEFINE n == Len(e.artikli)
  <2>1. n \in Nat /\ DOMAIN e.artikli = 1 .. n  BY <1>3 DEF Files
  <2>2. /\ AreRows("article", now["article"]) /\ UniqueIds(now["article"])
        /\ UniqueKeys(now["article"]) /\ Others(i, now["article"])
    BY <1>5, <1>9, <1>12, PhasesOf, Schema DEF Tidy
  <2> HIDE DEF n
  <2>3. AreTables(want) /\ SettledArticles(e.artikli, want)
    BY <1>4, <1>5, <1>12, <2>1, <2>2, ArticlesSettle
  <2> QED  BY <1>11, <1>12, <2>3 DEF now, want, e, SettledPhase
<1>13. CASE tx[i].phase = 3
  <2> DEFINE n == Len(e.fakture)
             pass == UpsertInvoices(i, now, e.fakture, e.stavke)
  <2>1. n \in Nat /\ DOMAIN e.fakture = 1 .. n  BY <1>3 DEF Files
  <2>2. /\ AreRows("invoice", now["invoice"]) /\ UniqueIds(now["invoice"])
        /\ UniqueKeys(now["invoice"]) /\ Others(i, now["invoice"])
        /\ AreRows("invoice_line", now["invoice_line"]) /\ UniqueIds(now["invoice_line"])
        /\ OtherLines(i, now["invoice_line"])
    BY <1>1, <1>5, <1>9, <1>13, PhasesOf, Schema DEF Tidy, NowRead
  <2>3. want = pass.want  BY <1>4, <1>13
  <2> HIDE DEF n
  <2>4. AreTables(want)
    <3>1. AreTables(pass.want)  BY <1>5, <2>1, InvoicesAreTables
    <3> QED  BY <2>3, <3>1
  <2>5. ASSUME Consistent(e) PROVE SettledInvoices(e.fakture, e.stavke, want)
    <3>1. \A k, l \in 1 .. n : e.fakture[k].broj_fakture = e.fakture[l].broj_fakture => k = l
      BY <2>1, <2>5 DEF Consistent, InExportOnce
    <3> QED  BY <1>5, <2>1, <2>2, <2>3, <3>1, InvoicesSettle
  <2> QED  BY <1>11, <1>13, <2>4, <2>5 DEF now, want, e, SettledPhase
<1> QED  BY <1>2, <1>10, <1>12, <1>13

\* Updates, deletions and insertions that make of the rows of a table those that are wanted.
Flushing(t, rows, want, U, D, I) ==
    /\ AreRows(t, rows) /\ UniqueIds(rows) /\ AreRows(t, want)
    /\ \A w : w \in I <=> w \in want /\ \A r \in rows : r.id # w.id
    /\ \A r \in rows : r.id \in D <=> \A w \in want : w.id # r.id
    /\ \A u \in U : \A r \in rows, w \in want : u.id = r.id /\ w.id = r.id => u.row = w
    /\ \A r \in rows, w \in want, f \in Columns[t] :
          r.id = w.id /\ r[f] # w[f] => \E u \in U : u.id = r.id /\ f \in u.columns

\* What a flush leaves is what was wanted.
LEMMA Flushed ==
  ASSUME NEW t \in Tables, NEW rows, NEW want, NEW U, NEW D, NEW I,
         Flushing(t, rows, want, U, D, I)
  PROVE  \A w : w \in want <=> w \in I \/ \E r \in rows : r.id \notin D /\ w = Patched(r, U)
<1> USE DEF Flushing
<1>1. \A r \in rows, w \in want : r.id = w.id => Patched(r, U) = w
  <2> SUFFICES ASSUME NEW r \in rows, NEW w \in want, r.id = w.id PROVE Patched(r, U) = w
    OBVIOUS
  <2>1. IsRow(t, r) /\ IsRow(t, w)  BY DEF AreRows
  <2>2. \A u \in U : u.id = r.id => u.row = w  OBVIOUS
  <2>3. \A f \in Columns[t] : r[f] # w[f] => \E u \in U : u.id = r.id /\ f \in u.columns
    OBVIOUS
  <2> QED  BY <2>1, <2>2, <2>3, PatchedTo
<1>2. ASSUME NEW r \in rows, r.id \notin D PROVE Patched(r, U) \in want
  <2>1. PICK w \in want : w.id = r.id  BY <1>2
  <2> QED  BY <1>1, <2>1
<1>3. ASSUME NEW w \in want, w \notin I
      PROVE  \E r \in rows : r.id \notin D /\ w = Patched(r, U)
  <2>1. PICK r \in rows : r.id = w.id  BY <1>3
  <2>2. r.id \notin D  BY <2>1
  <2> QED  BY <1>1, <2>1, <2>2
<1>4. \A w \in I : w \in want  OBVIOUS
<1> HIDE DEF Patched
<1> QED  BY <1>2, <1>3, <1>4

\* An update is of a table of this pass.
LEMMA UpdatedHere ==
  ASSUME NEW i, Passing(i), \A t \in Tables : UniqueIds(Now(i)[t]), NEW u \in Updated(i)
  PROVE  \E t \in Tables : /\ PhaseOf[t] = tx[i].phase
                           /\ \E old \in Now(i)[t], row \in Want(i)[t] :
                                 old.id = row.id /\ u = Update(old, row)
<1> DEFINE now == Now(i)
           want == Want(i)
<1>1. Wanted(i, now, want)  BY DEF Passing
<1>2. PICK t \in Tables : \E row \in want[t] :
         /\ Has(now[t], row.id) /\ u = Update(RowById(now[t], row.id), row) /\ u.columns # {}
  BY DEF Updated
<1>3. PICK row \in want[t] :
         /\ Has(now[t], row.id) /\ u = Update(RowById(now[t], row.id), row) /\ u.columns # {}
  BY <1>2
<1> DEFINE old == RowById(now[t], row.id)
<1>4. old \in now[t] /\ old.id = row.id  BY <1>3 DEF Has, RowById
<1>5. UniqueIds(now[t])  OBVIOUS
<1> HIDE DEF now, want, old
<1>6. u = Update(old, row)  BY <1>3 DEF old
<1>7. old # row
  <2>1. u.columns = {f \in DOMAIN old : old[f] # row[f]}  BY <1>6 DEF Update
  <2> QED  BY <1>3, <2>1
<1>8. row \notin now[t]  BY <1>4, <1>5, <1>7 DEF UniqueIds
<1>9. PhaseOf[t] = tx[i].phase  BY <1>1, <1>3, <1>8 DEF Wanted
<1> QED  BY <1>3, <1>4, <1>6, <1>9 DEF now, want

\* Tables that are not of this pass look as before,
LEMMA SeenAsBefore ==
  ASSUME NEW i, Writes(i), \A t \in Tables : UniqueIds(Now(i)[t]), NEW t \in Tables, PhaseOf[t] # tx[i].phase
  PROVE  Visible(i, t)' = Visible(i, t)
<1>1. /\ core' = core /\ tx'[i].ins[t] = tx[i].ins[t]
      /\ tx'[i].upd = tx[i].upd \cup Updated(i) /\ tx'[i].del = tx[i].del \cup Deleted(i)
  BY WrittenRows DEF Writes
<1>2. Passing(i) /\ Written(i) /\ NowRead(i, Now(i)) /\ Wanted(i, Now(i), Want(i))
  BY DEF Writes, Passing
<1>3. \A r \in core[t] : IsRow(t, r)  BY DEF Writes, Committed, AreRows
<1>4. \A r \in core[t] : r.id \in Deleted(i) <=> FALSE
  <2>1. CASE tx[i].phase # 3  BY <1>2, <2>1, DeletedLines
  <2>2. CASE tx[i].phase = 3
    <3>1. t # "invoice_line"  BY <2>2, PhasesOf
    <3>2. \A r \in core[t] : r.id[2] # "line"  BY <1>3, <3>1, Schema DEF IsRow
    <3> QED  BY <1>2, <3>2, DeletedLines
  <2> QED  BY <2>1, <2>2
<1>5. ASSUME NEW r \in core[t] PROVE Patched(r, tx'[i].upd) = Patched(r, tx[i].upd)
  <2>1. ASSUME NEW u \in Updated(i), u.id = r.id PROVE FALSE
    <3>1. PICK q \in Tables : /\ PhaseOf[q] = tx[i].phase
                              /\ \E old \in Now(i)[q], row \in Want(i)[q] :
                                    old.id = row.id /\ u = Update(old, row)
      BY <1>2, UpdatedHere
    <3>2. PICK old \in Now(i)[q], row \in Want(i)[q] : old.id = row.id /\ u = Update(old, row)
      BY <3>1
    <3>3. u.id = old.id  BY <3>2 DEF Update
    <3>4. u.id[2] \in Tags[q]
      <4>1. IsRow(q, old)  BY <1>2, <3>2 DEF NowRead, AreRows
      <4> QED  BY <3>3, <4>1 DEF IsRow
    <3>5. u.id[2] \in Tags[t]  BY <1>3, <2>1 DEF IsRow
    <3>6. q = t  BY <3>4, <3>5, Schema
    <3> QED  BY <3>1, <3>6
  <2>2. \A u \in Updated(i) : u.id # r.id  BY <2>1
  <2>3. Patched(r, tx[i].upd \cup Updated(i)) = Patched(r, tx[i].upd)  BY <2>2, PatchedMore
  <2> QED  BY <1>1, <2>3
<1>6. {r \in core[t] : r.id \notin tx'[i].del} = {r \in core[t] : r.id \notin tx[i].del}
  BY <1>1, <1>4
<1> QED  BY <1>1, <1>5, <1>6 DEF Visible

\* those of this pass looked as they are committed,
LEMMA SeenUntouched ==
  ASSUME NEW i, Committed, Written(i), tx[i].pc # "written", NEW t \in Tables, PhaseOf[t] >= tx[i].phase
  PROVE  Visible(i, t) = core[t]
<1>1. tx[i].del = {} /\ tx[i].ins[t] = {} /\ \A u \in tx[i].upd : u.id[2] \notin Tags[t]
  BY DEF Written
<1>2. ASSUME NEW r \in core[t] PROVE Patched(r, tx[i].upd) = r
  <2>1. IsRow(t, r)  BY DEF Committed, AreRows
  <2>2. r.id[2] \in Tags[t]  BY <2>1 DEF IsRow
  <2>3. \A u \in tx[i].upd : u.id # r.id  BY <1>1, <2>2
  <2> QED  BY <2>1, <2>3, PatchedNone
<1> QED  BY <1>1, <1>2 DEF Visible

\* and look as the pass wants them, as far as it can be stored.
LEMMA SeenAsWanted ==
  ASSUME NEW i, Writes(i), Now(i) = Sees(i), Tidy(Now(i)), Exact(Now(i)), Tidy(Want(i)),
         \A t \in {"legal_entity", "customer_rep"} : Grown(i, Now(i)[t], Want(i)[t]),
         NEW t \in Tables, PhaseOf[t] = tx[i].phase
  PROVE  Visible(i, t)' = Kept(Want(i))[t]
<1> DEFINE rows == core[t]
           want == Want(i)[t]
           stored == Kept(Want(i))[t]
           U == tx'[i].upd
           D == tx'[i].del
           I == tx'[i].ins[t]
<1>1. /\ core' = core /\ U = tx[i].upd \cup Updated(i) /\ D = tx[i].del \cup Deleted(i)
  BY DEF Writes
<1>2. Passing(i) /\ Written(i) /\ NowRead(i, Now(i)) /\ Wanted(i, Now(i), Want(i))
      /\ tx[i].pc # "written"
  BY DEF Writes, Passing
<1>3. tx[i].del = {} /\ tx[i].ins[t] = {} /\ \A u \in tx[i].upd : u.id[2] \notin Tags[t]
  BY <1>2 DEF Written
<1>4. \A r \in rows : IsRow(t, r)  BY DEF Writes, Committed, AreRows
<1>5. Now(i)[t] = rows
  <2>1. Visible(i, t) = rows  BY <1>2, SeenUntouched DEF Writes, Written
  <2> QED  BY <2>1 DEF Sees
<1>6. UniqueIds(rows) /\ UniqueIds(want) /\ AreRows(t, want) /\ AreRows(t, rows)
      /\ AreRows(t, stored)
  BY <1>5, KeptIsTidy DEF Tidy
<1>14. stored = {Stored(w) : w \in want} /\ \A w \in want : Stored(w).id = w.id
  BY <1>6, StoredRow DEF Kept, AreRows
<1>7. \A w : w \in I <=> w \in stored /\ \A r \in rows : r.id # w.id
  <2>1. I = Inserted(i, t)  BY <1>3, WrittenRows
  <2>2. I = {Stored(w) : w \in {q \in want : \A r \in rows : r.id # q.id}}
    BY <1>5, <2>1 DEF Inserted, Has
  <2> HIDE DEF rows, want, stored, I
  <2> QED  BY <1>14, <2>2
<1>8. \A r \in rows : r.id \in D <=> \A w \in want : w.id # r.id
  <2>1. CASE t = "invoice_line"
    <3>1. D = {l.id : l \in rows \ want}  BY <1>1, <1>3, <1>5, <2>1 DEF Deleted
    <3>2. \A w \in want : \A r \in rows : w.id = r.id => w = r
      <4>1. LinesPass(i, Now(i), tx[i].export.stavke, Want(i))
        BY <1>2, <2>1, PhasesOf DEF Wanted
      <4>2. \A r \in rows : r.id[1] # i  BY <1>2, <1>5, <2>1 DEF NowRead, OtherLines
      <4>3. \A w \in want : w \in rows \/ w.id[1] = i  BY <1>5, <2>1, <4>1 DEF LinesPass
      <4> QED  BY <1>6, <4>2, <4>3 DEF UniqueIds
    <3> HIDE DEF rows, want, D
    <3>3. \A r \in rows : r.id \in D <=> r \notin want
      BY <1>6, <3>1 DEF UniqueIds
    <3> QED  BY <3>2, <3>3
  <2>2. CASE t # "invoice_line"
    <3>1. \A r \in rows : r.id[2] # "line"  BY <1>4, <2>2, Schema DEF IsRow
    <3>2. \A r \in rows : r.id \notin D  BY <1>1, <1>2, <1>3, <3>1, DeletedLines
    <3>3. \A r \in rows : \E w \in want : w.id = r.id
      <4>1. CASE t \in Keyed
        <5>1. Extends(i, t, Now(i)[t], Want(i)[t])  BY <1>2, <4>1 DEF Wanted
        <5> QED  BY <1>5, <5>1 DEF Extends
      <4>2. CASE t \notin Keyed
        <5>1. t \in {"legal_entity", "customer_rep"}  BY <2>2, <4>2, Schema
        <5>2. Grown(i, Now(i)[t], Want(i)[t])  BY <5>1
        <5> QED  BY <1>5, <5>2 DEF Grown
      <4> QED  BY <4>1, <4>2
    <3> QED  BY <3>2, <3>3
  <2> QED  BY <2>1, <2>2
<1>9. \A u \in U : \A r \in rows, w \in want : u.id = r.id /\ w.id = r.id => u.row = Stored(w)
  <2> SUFFICES ASSUME NEW u \in U, NEW r \in rows, NEW w \in want, u.id = r.id, w.id = r.id
               PROVE  u.row = Stored(w)
    OBVIOUS
  <2>1. u.id[2] \in Tags[t]  BY <1>4 DEF IsRow
  <2>2. u \in Updated(i)  BY <1>1, <1>3, <2>1
  <2>3. \A q \in Tables : UniqueIds(Now(i)[q])  BY DEF Tidy
  <2>4. PICK q \in Tables : \E old \in Now(i)[q], row \in Want(i)[q] :
                              old.id = row.id /\ u = Update(old, row)
    BY <1>2, <2>2, <2>3, UpdatedHere
  <2>5. PICK old \in Now(i)[q], row \in Want(i)[q] : old.id = row.id /\ u = Update(old, row)
    BY <2>4
  <2>6. u.id = old.id /\ u.row = Stored(row)  BY <2>5 DEF Update
  <2>7. q = t
    <3>1. IsRow(q, old)  BY <1>2, <2>5 DEF NowRead, AreRows
    <3>2. u.id[2] \in Tags[q]  BY <2>6, <3>1 DEF IsRow
    <3> QED  BY <2>1, <3>2, Schema
  <2>8. row \in want /\ row.id = w.id  BY <2>5, <2>6, <2>7
  <2>9. row = w  BY <1>6, <2>8 DEF UniqueIds
  <2> QED  BY <2>6, <2>9
<1>10. \A r \in rows, w \in want, f \in Columns[t] :
          r.id = w.id /\ r[f] # w[f] => \E u \in U : u.id = r.id /\ f \in u.columns
  <2> SUFFICES ASSUME NEW r \in rows, NEW w \in want, NEW f \in Columns[t], r.id = w.id, r[f] # w[f]
               PROVE  \E u \in U : u.id = r.id /\ f \in u.columns
    OBVIOUS
  <2> DEFINE u == Update(r, w)
  <2>1. u.id = r.id /\ u.columns = {g \in DOMAIN r : r[g] # w[g]}  BY DEF Update
  <2>2. DOMAIN r = Columns[t]  BY <1>4 DEF IsRow
  <2>3. f \in u.columns  BY <2>1, <2>2
  <2>4. Has(Now(i)[t], w.id) /\ RowById(Now(i)[t], w.id) = r
    BY <1>5, <1>6, RowOfId DEF Has
  <2>5. u = Update(RowById(Now(i)[t], w.id), w)  BY <2>4
  <2> HIDE DEF u
  <2>6. u \in Updated(i)  BY <2>3, <2>4, <2>5 DEF Updated
  <2> QED  BY <1>1, <2>1, <2>3, <2>6
<1>15. ASSUME NEW r \in rows, NEW w \in want, NEW f \in Columns[t], r.id = w.id, r[f] # Stored(w)[f]
       PROVE  r[f] # w[f]
  <2>1. IsRow(t, r) /\ IsRow(t, w)  BY <1>6 DEF AreRows
  <2>2. CASE t # "invoice"
    <3>1. Stored(w) = w  BY <2>1, <2>2, StoredRow
    <3> QED  BY <1>15, <3>1
  <2>3. CASE t = "invoice"
    <3>1. r.total \notin DOMAIN Rounded  BY <1>5, <2>3 DEF Exact
    <3>2. CASE w.total \notin DOMAIN Rounded
      <4>1. Stored(w) = w  BY <2>1, <2>3, <3>2, StoredRow
      <4> QED  BY <1>15, <4>1
    <3>3. CASE w.total \in DOMAIN Rounded /\ f = "total"  BY <3>1, <3>3
    <3>4. CASE f # "total"
      <4>1. "total" \in DOMAIN w /\ f \in DOMAIN w  BY <2>1, <2>3, Schema DEF IsRow
      <4>2. Stored(w)[f] = w[f]  BY <3>4, <4>1 DEF Stored
      <4> QED  BY <1>15, <4>2
    <3> QED  BY <3>2, <3>3, <3>4
  <2> QED  BY <2>2, <2>3
<1>11. \A w : w \in stored <=> w \in I \/ \E r \in rows : r.id \notin D /\ w = Patched(r, U)
  <2> HIDE DEF rows, want, stored, U, D, I
  <2>1. \A r \in rows : r.id \in D <=> \A w \in stored : w.id # r.id  BY <1>8, <1>14
  <2>2. \A u \in U : \A r \in rows, w \in stored : u.id = r.id /\ w.id = r.id => u.row = w
    BY <1>9, <1>14
  <2>3. \A r \in rows, w \in stored, f \in Columns[t] :
           r.id = w.id /\ r[f] # w[f] => \E u \in U : u.id = r.id /\ f \in u.columns
    BY <1>10, <1>14, <1>15
  <2>4. Flushing(t, rows, stored, U, D, I)
    BY <1>6, <1>7, <2>1, <2>2, <2>3 DEF Flushing
  <2> QED  BY <2>4, Flushed
<1>12. Visible(i, t)' = {Patched(r, U) : r \in {q \in rows : q.id \notin D}} \cup I
  BY <1>1 DEF Visible
<1> HIDE DEF rows, want, stored, U, D, I
<1>13. Visible(i, t)' = stored  BY <1>11, <1>12
<1> QED  BY <1>13 DEF stored

\* So after a write the import sees what the pass wanted.
LEMMA SeesWhatItWants ==
  ASSUME NEW i, Writes(i), Now(i) = Sees(i), Tidy(Now(i)), Exact(Now(i)), Tidy(Want(i)),
         \A t \in {"legal_entity", "customer_rep"} : Grown(i, Now(i)[t], Want(i)[t])
  PROVE  Sees(i)' = Kept(Want(i))
<1>1. \A t \in Tables : UniqueIds(Now(i)[t])  BY DEF Tidy
<1>2. \A t \in Tables : PhaseOf[t] # tx[i].phase => Want(i)[t] = Visible(i, t)
  BY DEF Writes, Passing, Wanted, Sees
<1>3. \A t \in Tables : Visible(i, t)' = Kept(Want(i))[t]
  <2> SUFFICES ASSUME NEW t \in Tables PROVE Visible(i, t)' = Kept(Want(i))[t]
    OBVIOUS
  <2>1. CASE PhaseOf[t] # tx[i].phase
    <3>1. Visible(i, t)' = Visible(i, t)  BY <1>1, <2>1, SeenAsBefore
    <3>2. CASE t # "invoice"
      <4>1. Kept(Want(i))[t] = Want(i)[t]  BY <3>2, KeptIsTidy
      <4> QED  BY <1>2, <2>1, <3>1, <4>1
    <3>3. CASE t = "invoice"
      <4>1. Want(i)[t] = Now(i)[t]  BY <1>2, <2>1 DEF Sees
      <4>2. Exact(Want(i))  BY <3>3, <4>1 DEF Exact
      <4>3. Kept(Want(i)) = Want(i)  BY <4>2, KeptIsTidy
      <4> QED  BY <1>2, <2>1, <3>1, <4>3
    <3> QED  BY <3>2, <3>3
  <2>2. CASE PhaseOf[t] = tx[i].phase
    BY <2>2, SeenAsWanted
  <2> QED  BY <2>1, <2>2
<1>4. Sees(i)' = [t \in Tables |-> Visible(i, t)']  BY DEF Sees
<1>5. Kept(Want(i)) = [t \in Tables |-> Kept(Want(i))[t]]  BY DEF Kept
<1> QED  BY <1>3, <1>4, <1>5

\* As long as no two imports have run at the same time: what is committed is tidy, its totals have
\* two decimals, it is of imports that have completed, and settled for the export of the last of
\* them; an import that runs sees what it has read, tidy and settled as far as it has come, and
\* what is committed if the export is the same.
Origin(r) == r.id[1] = None \/ (r.id[1] \in Imports /\ tx[r.id[1]].pc = "completed")
SettledSoFar(i) ==
    \A p \in 1 .. 3 : p < tx[i].phase \/ tx[i].pc = "written" =>
        SettledPhase(p, tx[i].export, Sees(i))
SameAsLast(i) == last # None /\ tx[last].export = tx[i].export /\ Consistent(tx[i].export)
Serial(i) ==
    Running(i) =>
        /\ tx[i].pc # "waiting" /\ (tx[i].pc = "writing" => tx[i].seen = Sees(i))
        /\ Tidy(Sees(i)) /\ Exact(Sees(i))
        /\ \A t \in {"legal_entity", "customer_rep"} : \A r \in tx[i].ins[t] : r.id[1] = i
        /\ Consistent(tx[i].export) => SettledSoFar(i)
        /\ SameAsLast(i) => Sees(i) = core
LastSettled ==
    last # None =>
        /\ last \in Imports /\ tx[last].pc = "completed"
        /\ Consistent(tx[last].export) =>
              \A p \in 1 .. 3 : SettledPhase(p, tx[last].export, core)
SInv ==
    overlaps = {} =>
        /\ Tidy(core) /\ Exact(core) /\ \A t \in Tables : \A r \in core[t] : Origin(r)
        /\ LastSettled
        /\ \A i \in Imports : Serial(i)

\* Nothing has happened yet.
LEMMA InitSInv == Init => SInv
<1> SUFFICES ASSUME Init PROVE SInv
  OBVIOUS
<1>1. IInv  BY InitIInv
<1>2. /\ \A t \in Tables \ {"article"} : core[t] = {}
      /\ \A r \in core["article"] : r.id[1] = None
  BY Schema DEF Init, NoRows
<1>3. \A i \in Imports : tx[i].pc = "idle"  BY DEF Init, Idle
<1>4. last = None  BY DEF Init
<1>5. Tidy(core)
  <2>1. AreTables(core)  BY <1>1 DEF IInv, Shape, AreTables
  <2>2. \A t \in Tables : AreRows(t, core[t])  BY <1>1 DEF IInv, Committed
  <2>3. UniqueIds(core["article"])  BY <1>1, Schema DEF IInv, Committed, Identified
  <2>4. \A t \in Tables : UniqueIds(core[t])  BY <1>2, <2>3 DEF UniqueIds
  <2>5. UniqueKeys(core["article"])  BY <1>1, Schema DEF IInv, Committed, OneRowPerKey, UniqueKeys
  <2>6. \A t \in Keyed : UniqueKeys(core[t])  BY <1>2, <2>5, Schema DEF UniqueKeys
  <2>7. TaxIdsUnique(core["legal_entity"])  BY <1>2, Schema DEF TaxIdsUnique
  <2> QED  BY <2>1, <2>2, <2>4, <2>6, <2>7 DEF Tidy
<1>6. \A t \in Tables : \A r \in core[t] : Origin(r)  BY <1>2 DEF Origin
<1>7. LastSettled  BY <1>4 DEF LastSettled
<1>8. \A i \in Imports : Serial(i)  BY <1>3 DEF Serial, Running
<1>9. Exact(core)  BY <1>2, Schema DEF Exact
<1> QED  BY <1>5, <1>6, <1>7, <1>8, <1>9 DEF SInv

\* A step of the only import that runs, which commits nothing.
LEMMA SerialStep ==
  ASSUME SInv, overlaps = {}, NEW i \in Imports, tx[i].pc # "completed",
         core' = core, last' = last,
         \A k \in Imports \ {i} : tx'[k] = tx[k] /\ ~Running(k),
         Serial(i)'
  PROVE  SInv'
<1>1. \A k \in Imports : tx[k].pc = "completed" => tx'[k] = tx[k]  OBVIOUS
<1>2. Tidy(core') /\ Exact(core') /\ \A t \in Tables : \A r \in core'[t] : Origin(r)'
  BY <1>1 DEF SInv, Origin
<1>3. LastSettled'  BY <1>1 DEF SInv, LastSettled
<1>4. \A k \in Imports \ {i} : Serial(k)'  BY DEF Serial, Running
<1>5. \A k \in Imports : Serial(k)'  BY <1>4
<1> QED  BY <1>2, <1>3, <1>5 DEF SInv

\* No other import runs beside one that does.
LEMMA RunsAlone ==
  ASSUME IInv, overlaps = {}, NEW i \in Imports, Running(i)
  PROVE  \A k \in Imports \ {i} : ~Running(k)
BY DEF IInv, Overlapping

\* What an import sees depends on what is committed and on what it has written.
LEMMA SeesTheSame ==
  ASSUME core' = core, NEW i, tx'[i].ins = tx[i].ins, tx'[i].upd = tx[i].upd, tx'[i].del = tx[i].del
  PROVE  Sees(i)' = Sees(i)
BY DEF Sees, Visible

\* A start: the import sees what is committed.
LEMMA StartKeepsSInv ==
  ASSUME IInv, SInv, NEW i \in Imports, NEW e \in Exports, Start(i, e)
  PROVE  SInv'
<1> SUFFICES ASSUME overlaps' = {} PROVE SInv'
  BY DEF SInv
<1> DEFINE x == [Idle EXCEPT !.pc = "reading", !.export = e, !.phase = 1, !.report = Report(e)]
<1>1. /\ tx[i].pc = "idle" /\ tx' = [tx EXCEPT ![i] = x] /\ core' = core /\ last' = last
      /\ overlaps' = overlaps \cup {{i, j} : j \in {k \in Imports \ {i} : Running(k)}}
  BY DEF Start
<1>2. /\ DOMAIN x = TxFields /\ x.pc = "reading" /\ x.export = e /\ x.phase = 1
      /\ x.ins = NoRows /\ x.upd = {} /\ x.del = {}
  BY DEF Idle, TxFields
<1> HIDE DEF x
<1>3. Shape /\ Committed  BY DEF IInv
<1>4. tx'[i] = x /\ \A k \in Imports \ {i} : tx'[k] = tx[k]
  BY <1>1, <1>2, <1>3, OneTx
<1>5. overlaps = {} /\ \A k \in Imports \ {i} : ~Running(k)  BY <1>1
<1>6. Sees(i)' = core
  <2>1. ASSUME NEW t \in Tables PROVE Visible(i, t)' = core[t]
    <3>1. NoRows[t] = {}  BY DEF NoRows
    <3>2. \A r \in core[t] : Patched(r, {}) = r  BY <1>3, PatchedNone DEF Committed, AreRows
    <3>3. Visible(i, t)' = {Patched(r, x.upd) : r \in {q \in core[t] : q.id \notin x.del}} \cup x.ins[t]
      BY <1>1, <1>4 DEF Visible
    <3>4. {q \in core[t] : q.id \notin x.del} = core[t]  BY <1>2
    <3>5. Visible(i, t)' = {Patched(r, {}) : r \in core[t]}  BY <1>2, <3>1, <3>3, <3>4
    <3> QED  BY <3>2, <3>5
  <2>2. core = [t \in Tables |-> core[t]]  BY <1>3 DEF Shape
  <2>3. Sees(i)' = [t \in Tables |-> Visible(i, t)']  BY DEF Sees
  <2> QED  BY <2>1, <2>2, <2>3
<1>7. Serial(i)'
  <2>1. Tidy(Sees(i)') /\ Exact(Sees(i)')  BY <1>5, <1>6 DEF SInv
  <2>2. SettledSoFar(i)'  BY <1>2, <1>4 DEF SettledSoFar
  <2>3. \A t \in {"legal_entity", "customer_rep"} : tx'[i].ins[t] = {}
    BY <1>2, <1>4, Schema DEF NoRows
  <2> QED  BY <1>1, <1>2, <1>4, <1>6, <2>1, <2>2, <2>3 DEF Serial
<1> QED  BY <1>1, <1>4, <1>5, <1>7, SerialStep

\* Reading: there is one row for each key to read.
LEMMA ReadKeepsSInv ==
  ASSUME IInv, SInv, NEW i \in Imports, Read(i)
  PROVE  SInv'
<1>1. /\ tx[i].pc = "reading" /\ Running(i) /\ core' = core /\ overlaps' = overlaps /\ last' = last
  BY DEF Read, Running
<1> SUFFICES ASSUME overlaps = {} PROVE SInv'
  BY <1>1 DEF SInv
<1>2. PICK seen \in Reads(i) : tx' = [tx EXCEPT ![i].pc = "writing", ![i].seen = seen]
  BY DEF Read
<1> DEFINE x == [tx[i] EXCEPT !.pc = "writing", !.seen = seen]
<1>3. Shape  BY DEF IInv
<1>4. tx' = [tx EXCEPT ![i] = x]  BY <1>2, <1>3 DEF Shape
<1>5. /\ DOMAIN x = TxFields /\ x.pc = "writing" /\ x.seen = seen
      /\ x.export = tx[i].export /\ x.phase = tx[i].phase
      /\ x.ins = tx[i].ins /\ x.upd = tx[i].upd /\ x.del = tx[i].del
  BY <1>3 DEF Shape, TxFields
<1> HIDE DEF x
<1>6. tx'[i] = x /\ \A k \in Imports \ {i} : tx'[k] = tx[k]  BY <1>3, <1>4, <1>5, OneTx
<1>7. Serial(i) /\ \A k \in Imports \ {i} : ~Running(k)  BY <1>1, RunsAlone DEF SInv
<1>8. Sees(i)' = Sees(i)  BY <1>1, <1>5, <1>6, SeesTheSame
<1>9. seen = Sees(i)
  <2>1. /\ DOMAIN seen = Tables
        /\ \A t \in Tables : seen[t] \subseteq Visible(i, t)
        /\ \A t \in Tables \ {"customer"} : seen[t] = Visible(i, t)
        /\ {r.key : r \in seen["customer"]} = {r.key : r \in Visible(i, "customer")}
    BY <1>1, SeenRows
  <2>2. UniqueKeys(Visible(i, "customer"))
    BY <1>1, <1>7, Schema DEF Serial, Tidy, Sees
  <2>3. \A r \in Visible(i, "customer") : r \in seen["customer"]
    <3> SUFFICES ASSUME NEW r \in Visible(i, "customer") PROVE r \in seen["customer"]
      OBVIOUS
    <3>1. r.key \in {q.key : q \in seen["customer"]}  BY <2>1
    <3>2. PICK q \in seen["customer"] : q.key = r.key  BY <3>1
    <3>3. q \in Visible(i, "customer")  BY <2>1, Schema
    <3> QED  BY <2>2, <3>2, <3>3 DEF UniqueKeys
  <2>4. \A t \in Tables : seen[t] = Visible(i, t)  BY <2>1, <2>3
  <2>5. PICK customers : seen = [t \in Tables |-> IF t = "customer" THEN customers ELSE Visible(i, t)]
    BY DEF Reads
  <2>6. seen = [t \in Tables |-> seen[t]]  BY <2>5
  <2> QED  BY <2>4, <2>6 DEF Sees
<1>10. Serial(i)'
  <2>1. SettledSoFar(i)' <=> SettledSoFar(i)
    BY <1>1, <1>5, <1>6, <1>8 DEF SettledSoFar
  <2>2. SameAsLast(i)' => SameAsLast(i)
    <3>1. last # None => last # i  BY <1>1 DEF SInv, LastSettled
    <3>2. last # None => last \in Imports  BY DEF SInv, LastSettled
    <3> QED  BY <1>1, <1>5, <1>6, <3>1, <3>2 DEF SameAsLast
  <2> QED  BY <1>1, <1>5, <1>6, <1>7, <1>8, <1>9, <2>1, <2>2 DEF Serial
<1> QED  BY <1>1, <1>6, <1>7, <1>10, SerialStep

\* Tables of other phases do not matter to whether a phase is settled.
LEMMA SettledBefore ==
  ASSUME NEW F, NEW G, NEW e, NEW p \in 1 .. 2, SettledPhase(p, e, F),
         \A t \in Tables : PhaseOf[t] = p => G[t] = F[t]
  PROVE  SettledPhase(p, e, G)
<1>1. CASE p = 1
  <2>1. SettledCustomers(e.kupci, F)  BY <1>1 DEF SettledPhase
  <2>2. SettledCustomers(e.kupci, G)  BY <1>1, <2>1 DEF SettledCustomers
  <2> QED  BY <1>1, <2>2 DEF SettledPhase
<1>2. CASE p = 2
  <2>1. SettledArticles(e.artikli, F)  BY <1>2 DEF SettledPhase
  <2>2. G["article"] = F["article"]  BY <1>2, PhasesOf, Schema
  <2>3. SettledArticles(e.artikli, G)  BY <2>1, <2>2 DEF SettledArticles
  <2> QED  BY <1>2, <2>3 DEF SettledPhase
<1> QED  BY <1>1, <1>2

\* A pass over tables that are settled for its export wants them as they are.
LEMMA SettledWants ==
  ASSUME NEW i, tx[i].phase \in 1 .. 3, AreTables(Now(i)),
         SettledPhase(tx[i].phase, tx[i].export, Now(i))
  PROVE  Want(i) = Now(i)
<1> DEFINE now == Now(i)
           want == Want(i)
           e == tx[i].export
<1>1. /\ tx[i].phase = 1 => want = UpsertCustomers(i, now, e.kupci)
      /\ tx[i].phase = 2 => want = UpsertArticles(i, now, e.artikli)
      /\ tx[i].phase = 3 => want = UpsertInvoices(i, now, e.fakture, e.stavke).want
  BY PhasesOf DEF Want, After
<1>2. SettledPhase(tx[i].phase, e, now) /\ AreTables(now)  OBVIOUS
<1> HIDE DEF now, want, e
<1>3. CASE tx[i].phase = 1
  BY <1>1, <1>2, <1>3 DEF SettledPhase, SettledCustomers, now, want
<1>4. CASE tx[i].phase = 2
  BY <1>1, <1>2, <1>4 DEF SettledPhase, SettledArticles, now, want
<1>5. CASE tx[i].phase = 3
  BY <1>1, <1>2, <1>5 DEF SettledPhase, SettledInvoices, now, want
<1> QED  BY <1>3, <1>4, <1>5

\* Writing: the import sees what its pass wanted.
LEMMA WriteKeepsSInv ==
  ASSUME IInv, SInv, NEW i \in Imports, Write(i)
  PROVE  SInv'
<1>1. Writes(i)  BY WriteStep
<1>2. /\ Running(i) /\ tx[i].pc \in {"writing", "waiting"} /\ last' = last
      /\ core' = core /\ overlaps' = overlaps /\ \A k \in Imports \ {i} : tx'[k] = tx[k]
      /\ tx'[i].export = tx[i].export
      /\ tx'[i].phase = IF tx[i].phase < 3 THEN tx[i].phase + 1 ELSE tx[i].phase
      /\ tx'[i].pc = IF tx[i].phase < 3 THEN "reading" ELSE "written"
  BY <1>1 DEF Writes, Write
<1> SUFFICES ASSUME overlaps = {} PROVE SInv'
  BY <1>2 DEF SInv
<1>3. Serial(i) /\ \A k \in Imports \ {i} : ~Running(k)  BY <1>2, RunsAlone DEF SInv
<1>4. Passing(i) /\ Written(i) /\ Committed /\ tx[i].pc = "writing" /\ tx[i].phase \in 1 .. 3
  BY <1>1, <1>2, <1>3 DEF Writes, Passing, Serial, Written
<1>5. Now(i) = Sees(i)
  <2>1. tx[i].seen = Sees(i)  BY <1>2, <1>3, <1>4 DEF Serial
  <2>2. Now(i) = [Sees(i) EXCEPT !["invoice_line"] = Visible(i, "invoice_line")]
    BY <1>4, <2>1 DEF Now
  <2> QED  BY <2>2, Schema DEF Sees
<1>6. Tidy(Now(i)) /\ Exact(Now(i)) /\ AreTables(Now(i))
  BY <1>2, <1>3, <1>5 DEF Serial, Tidy
<1>7. tx[i].phase = 1 => Others(i, Now(i)["legal_entity"]) /\ Others(i, Now(i)["customer_rep"])
  <2> SUFFICES ASSUME tx[i].phase = 1, NEW t \in {"legal_entity", "customer_rep"}
               PROVE  Others(i, Now(i)[t])
    OBVIOUS
  <2>1. t \in Tables /\ PhaseOf[t] >= tx[i].phase  BY PhasesOf, Schema
  <2>2. Now(i)[t] = core[t]  BY <1>4, <1>5, <2>1, SeenUntouched DEF Sees
  <2>3. \A r \in core[t] : r.id[1] # i
    BY <1>4, <2>1, IngestAssumption DEF SInv, Origin
  <2> QED  BY <2>2, <2>3 DEF Others
<1>8. /\ Tidy(Want(i))
      /\ \A t \in {"legal_entity", "customer_rep"} : Grown(i, Now(i)[t], Want(i)[t])
      /\ Consistent(tx[i].export) => SettledPhase(tx[i].phase, tx[i].export, Want(i))
  BY <1>4, <1>6, <1>7, PassSettles
<1>9. Sees(i)' = Kept(Want(i))  BY <1>1, <1>5, <1>6, <1>8, SeesWhatItWants
<1>15. Tidy(Kept(Want(i))) /\ Exact(Kept(Want(i))) /\ (Exact(Want(i)) => Kept(Want(i)) = Want(i))
  BY <1>8, KeptIsTidy
<1>10. ASSUME NEW t \in {"legal_entity", "customer_rep"}, NEW r \in tx'[i].ins[t] PROVE r.id[1] = i
  <2>1. t \in Tables  BY Schema
  <2>2. CASE r \in tx[i].ins[t]  BY <1>2, <1>3, <2>2 DEF Serial
  <2>3. CASE r \in Inserted(i, t)
    <3>1. Inserted(i, t) = {row \in Want(i)[t] : ~Has(Now(i)[t], row.id)}
      BY <1>4, <2>1, InsertedAsWanted
    <3>2. r \in Want(i)[t] /\ \A s \in Now(i)[t] : s.id # r.id  BY <2>3, <3>1 DEF Has
    <3> QED  BY <1>8, <3>2 DEF Grown
  <2> QED  BY <1>1, <2>1, <2>2, <2>3 DEF Writes
<1>11. ASSUME Consistent(tx[i].export) PROVE SettledSoFar(i)'
  <2> SUFFICES ASSUME NEW p \in 1 .. 3, p < tx'[i].phase \/ tx'[i].pc = "written"
               PROVE  SettledPhase(p, tx[i].export, Want(i))
    <3>1. Exact(Want(i))  BY <1>4, <1>6, <1>11, WantIsExact
    <3>2. Sees(i)' = Want(i)  BY <1>9, <1>15, <3>1
    <3> QED  BY <1>2, <3>2 DEF SettledSoFar
  <2>1. CASE p = tx[i].phase  BY <1>8, <1>11, <2>1
  <2>2. CASE p # tx[i].phase
    <3>1. p \in 1 .. 2 /\ p < tx[i].phase  BY <1>2, <1>4, <2>2
    <3>2. SettledPhase(p, tx[i].export, Now(i))
      BY <1>2, <1>3, <1>5, <1>11, <3>1 DEF Serial, SettledSoFar
    <3>3. \A t \in Tables : PhaseOf[t] = p => Want(i)[t] = Now(i)[t]
      BY <1>4, <2>2 DEF Passing, Wanted
    <3> QED  BY <3>1, <3>2, <3>3, SettledBefore
  <2> QED  BY <2>1, <2>2
<1>12. ASSUME SameAsLast(i) PROVE Kept(Want(i)) = core
  <2>1. Now(i) = core  BY <1>2, <1>3, <1>5, <1>12 DEF Serial
  <2>2. SettledPhase(tx[i].phase, tx[i].export, Now(i))
    BY <1>4, <1>12, <2>1 DEF SInv, LastSettled, SameAsLast
  <2>3. Want(i) = Now(i)  BY <1>4, <1>6, <2>2, SettledWants
  <2> QED  BY <1>6, <1>15, <2>1, <2>3
<1>13. SameAsLast(i)' => SameAsLast(i)
  <2>1. last # None => last \in Imports /\ last # i  BY <1>4 DEF SInv, LastSettled
  <2> QED  BY <1>2, <2>1 DEF SameAsLast
<1>14. Serial(i)'
  BY <1>2, <1>9, <1>10, <1>11, <1>12, <1>13, <1>15 DEF Serial
<1> QED  BY <1>2, <1>3, <1>4, <1>14, SerialStep

\* A commit makes what the import sees what is committed.
LEMMA CommitIsSeen ==
  ASSUME NEW i, Commit(i)
  PROVE  core' = Sees(i)
BY DEF Commit, Sees, Visible

\* A commit leaves the tables as the import saw them, and its export is the last one.
LEMMA CommitKeepsSInv ==
  ASSUME IInv, SInv, NEW i \in Imports, Commit(i)
  PROVE  SInv'
<1>1. /\ tx[i].pc = "written" /\ Running(i) /\ last' = i /\ overlaps' = overlaps
      /\ tx' = [tx EXCEPT ![i] = [Idle EXCEPT !.pc = "completed", !.export = tx[i].export]]
  BY DEF Commit, Running
<1> SUFFICES ASSUME overlaps = {} PROVE SInv'
  BY <1>1 DEF SInv
<1> DEFINE x == [Idle EXCEPT !.pc = "completed", !.export = tx[i].export]
<1>2. DOMAIN x = TxFields /\ x.pc = "completed" /\ x.export = tx[i].export
  BY DEF Idle, TxFields
<1> HIDE DEF x
<1>3. Shape  BY DEF IInv
<1>4. tx'[i] = x /\ \A k \in Imports \ {i} : tx'[k] = tx[k]
  BY <1>1, <1>2, <1>3, OneTx DEF x
<1>5. Serial(i) /\ Written(i) /\ \A k \in Imports \ {i} : ~Running(k)
  BY <1>1, RunsAlone DEF SInv, IInv, Good
<1>6. core' = Sees(i)  BY CommitIsSeen
<1>7. Tidy(core') /\ Exact(core')  BY <1>1, <1>5, <1>6 DEF Serial
<1>8. ASSUME NEW t \in Tables, NEW r \in core'[t] PROVE Origin(r)'
  <2>1. \A k : tx[k].pc = "completed" /\ k \in Imports => tx'[k].pc = "completed"
    BY <1>2, <1>4
  <2>2. r \in tx[i].ins[t] \/ \E s \in core[t] : r = Patched(s, tx[i].upd)
    BY CommitRows
  <2>3. CASE r \in tx[i].ins[t]
    <3>1. r.id[1] = i
      <4>1. t \in Identified \/ t \in {"legal_entity", "customer_rep"}  BY Schema DEF Identified
      <4> QED  BY <1>1, <1>5, <2>3, <4>1 DEF Serial, Written
    <3> QED  BY <1>2, <1>4, <3>1 DEF Origin
  <2>4. CASE \E s \in core[t] : r = Patched(s, tx[i].upd)
    <3>1. PICK s \in core[t] : r = Patched(s, tx[i].upd)  BY <2>4
    <3>2. IsRow(t, s)  BY DEF IInv, Committed, AreRows
    <3>3. r.id = s.id  BY <1>5, <3>1, <3>2, PatchedRow DEF Written
    <3>4. Origin(s)  BY DEF SInv
    <3> QED  BY <2>1, <3>3, <3>4 DEF Origin
  <2> QED  BY <2>2, <2>3, <2>4
<1>9. LastSettled'
  <2>1. ASSUME Consistent(tx[i].export), NEW p \in 1 .. 3 PROVE SettledPhase(p, tx[i].export, core')
    BY <1>1, <1>5, <1>6, <2>1 DEF Serial, SettledSoFar
  <2> QED  BY <1>1, <1>2, <1>4, <2>1 DEF LastSettled
<1>10. \A k \in Imports : Serial(k)'
  BY <1>2, <1>4, <1>5 DEF Serial, Running
<1> QED  BY <1>7, <1>8, <1>9, <1>10 DEF SInv

\* An abort leaves no trace, and nobody waits.
LEMMA AbortKeepsSInv ==
  ASSUME IInv, SInv, NEW i \in Imports, Abort(i)
  PROVE  SInv'
<1>1. /\ Running(i) /\ core' = core /\ overlaps' = overlaps /\ last' = last
      /\ tx' = [tx EXCEPT ![i] = [Idle EXCEPT !.pc = "failed"]]
  BY DEF Abort
<1> SUFFICES ASSUME overlaps = {} PROVE SInv'
  BY <1>1 DEF SInv
<1> DEFINE x == [Idle EXCEPT !.pc = "failed"]
<1>2. DOMAIN x = TxFields /\ x.pc = "failed"  BY DEF Idle, TxFields
<1> HIDE DEF x
<1>3. tx'[i] = x /\ \A k \in Imports \ {i} : tx'[k] = tx[k]
  BY <1>1, <1>2, OneTx DEF x, IInv
<1>4. \A k \in Imports \ {i} : ~Running(k)  BY <1>1, RunsAlone
<1>5. Serial(i)' /\ tx[i].pc # "completed"  BY <1>1, <1>2, <1>3 DEF Serial, Running
<1> QED  BY <1>1, <1>3, <1>4, <1>5, SerialStep

\* Every step keeps it.
LEMMA NextKeepsSInv == IInv /\ SInv /\ [Next]_vars => SInv'
<1> SUFFICES ASSUME IInv, SInv, [Next]_vars PROVE SInv'
  OBVIOUS
<1>1. ASSUME NEW i \in Imports, NEW e \in Exports, Start(i, e) PROVE SInv'
  BY <1>1, StartKeepsSInv
<1>2. ASSUME NEW i \in Imports, Read(i) PROVE SInv'  BY <1>2, ReadKeepsSInv
<1>3. ASSUME NEW i \in Imports, Wait(i) PROVE SInv'
  <2>1. PICK j \in Imports : j # i /\ Running(j)  BY <1>3 DEF Wait
  <2>2. overlaps # {}  BY <1>3, <2>1 DEF IInv, Overlapping, Wait, Running
  <2>3. overlaps' = overlaps  BY <1>3 DEF Wait
  <2> QED  BY <2>2, <2>3 DEF SInv
<1>4. ASSUME NEW i \in Imports, Write(i) PROVE SInv'  BY <1>4, WriteKeepsSInv
<1>5. ASSUME NEW i \in Imports, Commit(i) PROVE SInv'  BY <1>5, CommitKeepsSInv
<1>6. ASSUME NEW i \in Imports, Abort(i) PROVE SInv'  BY <1>6, AbortKeepsSInv
<1>7. CASE UNCHANGED vars
  <2>1. core' = core /\ tx' = tx /\ overlaps' = overlaps /\ last' = last  BY <1>7 DEF vars
  <2>2. \A i : Sees(i)' = Sees(i)  BY <2>1 DEF Sees, Visible
  <2>3. LastSettled' <=> LastSettled  BY <2>1 DEF LastSettled
  <2>4. \A i : Serial(i)' <=> Serial(i)
    BY <2>1, <2>2 DEF Serial, SettledSoFar, SameAsLast, Running
  <2> QED  BY <2>1, <2>3, <2>4 DEF SInv, Origin
<1> QED  BY <1>1, <1>2, <1>3, <1>4, <1>5, <1>6, <1>7 DEF Next

\* An import of the export that was imported last touches nothing: each pass of the first leaves the
\* tables so that a second over the same rows finds every row as it would write it - nothing is
\* rounded of the totals -, the passes in between write other tables, and no other import writes meanwhile, for none ran beside another.
THEOREM ReimportIsNoChange == Spec => ReimportTouchesNothing
<1> DEFINE Same == \A i \in Imports : Reimported(i) /\ Consistent(tx[i].export) => core' = core
<1>1. IInv /\ SInv /\ [Next]_vars => [Same]_vars
  <2> SUFFICES ASSUME IInv, SInv, Next, NEW i \in Imports,
                      tx[i].pc = "written", tx'[i].pc = "completed",
                      overlaps = {}, Consistent(tx[i].export),
                      last # None, tx[last].export = tx[i].export
               PROVE  core' = core
    BY DEF Reimported
  <2>1. Shape  BY DEF IInv
  <2>2. \A k \in Imports : \A x : tx' = [tx EXCEPT ![k] = x] =>
           tx'[k] = x /\ (k # i => tx'[i] = tx[i])
    BY <2>1 DEF Shape
  <2>3. PICK k \in Imports : \/ \E e \in Exports : Start(k, e)
                             \/ Read(k) \/ Wait(k) \/ Write(k) \/ Commit(k) \/ Abort(k)
    BY DEF Next
  <2>4. ~\E e \in Exports : Start(k, e)
    <3>1. ASSUME NEW e \in Exports, Start(k, e) PROVE FALSE
      <4>1. tx[k].pc = "idle" /\ (k # i => tx'[i] = tx[i])  BY <2>2, <3>1 DEF Start
      <4> QED  BY <4>1
    <3> QED  BY <3>1
  <2>5. ~Read(k)
    <3>1. ASSUME Read(k) PROVE FALSE
      <4>1. tx[k].pc = "reading" /\ (k # i => tx'[i] = tx[i])  BY <2>1, <3>1 DEF Read, Shape
      <4> QED  BY <4>1
    <3> QED  BY <3>1
  <2>6. ~Wait(k)
    <3>1. ASSUME Wait(k) PROVE FALSE
      <4>1. tx[k].pc = "writing" /\ (k # i => tx'[i] = tx[i])  BY <2>1, <3>1 DEF Wait, Shape
      <4> QED  BY <4>1
    <3> QED  BY <3>1
  <2>7. ~Write(k)
    <3>1. ASSUME Write(k) PROVE FALSE
      <4>1. tx[k].pc \in {"writing", "waiting"} /\ (k # i => tx'[i] = tx[i])
        BY <2>2, <3>1 DEF Write
      <4> QED  BY <4>1
    <3> QED  BY <3>1
  <2>8. ~Abort(k)
    <3>1. ASSUME Abort(k) PROVE FALSE
      <4>1. tx'[k].pc = "failed" /\ (k # i => tx'[i] = tx[i])  BY <2>2, <3>1 DEF Abort, Idle
      <4> QED  BY <4>1
    <3> QED  BY <3>1
  <2>9. Commit(i)
    <3>1. Commit(k)  BY <2>3, <2>4, <2>5, <2>6, <2>7, <2>8
    <3>2. k # i => tx'[i] = tx[i]  BY <2>2, <3>1 DEF Commit
    <3> QED  BY <3>1, <3>2
  <2>10. core' = Sees(i)  BY <2>9, CommitIsSeen
  <2>11. Sees(i) = core  BY DEF SInv, Serial, Running, SameAsLast
  <2> QED  BY <2>10, <2>11
<1>2. Spec => [](IInv /\ SInv)
  BY InitIInv, InitSInv, NextKeepsIInv, NextKeepsSInv, PTL DEF Spec
<1> QED  BY <1>1, <1>2, PTL DEF Spec, ReimportTouchesNothing

------------------------------------------------------------------------------
(* Scans.                                                                    *)

Statuses == {"new", "tasked", "dismissed", "suppressed"}

\* Only one scan is under way, and one that is not holds nothing.
OneAtATime ==
    /\ \A s, t \in Scanners : scan[s].at # "idle" /\ scan[t].at # "idle" => s = t
    /\ \A s \in Scanners : scan[s].at = "idle" => scan[s] = NoScan

\* What is open and what the scan is going to assign is about different things, all of which
\* it found open; what it raises it did not find open.
Live(s) == {i \in SignalIds : Open(i)} \cup scan[s].assign
ReadingOpen(s) ==
    /\ scan[s].assign \subseteq SignalIds
    /\ scan[s].assign # {} => scan[s].at = "assigning" /\ s \in Taskers
    /\ \A i, j \in Live(s) : signals[i].key = signals[j].key => i = j
    /\ scan[s].at # "idle" => \A i \in Live(s) : signals[i].key \in scan[s].open
    /\ scan[s].raise \cap scan[s].open = {}

\* What the scan is going to assign has no task, and neither has a signal nobody assigned.
ReadingTasks(s) == \A t \in TaskIds : tasks[t].signal \notin scan[s].assign

\* EverCovered in the next state, of things in this one.
CoveredAfter(r, k) == k \in scopes'[r].ever

\* What a rule covers now it has ever covered; a rule that is not yet proposed, nothing.
ScopesGiven == \A r \in Rules : /\ scopes[r].now \subseteq scopes[r].ever
                                /\ rules[r] = "none" => scopes[r].ever = {}

\* The rules it loaded were active, with the scopes it loaded; each key it hides is hidden
\* once, by one of them that covers it, and in a row of its own only if there is none.
ReadingHidden(s) ==
    /\ IsFiniteSet(scan[s].hide)
    /\ \A p \in scan[s].active : /\ rules[p.rule] \in {"active", "closed"}
                                 /\ \A k \in p.keys : EverCovered(p.rule, k)
    /\ \A g \in scan[s].hide : /\ \E p \in scan[s].active : p.rule = g.rule /\ g.key \in p.keys
                               /\ g.signal = 0 => \A i \in SignalIds :
                                     signals[i].key = g.key => signals[i].status # "suppressed"
    /\ \A g, h \in scan[s].hide : g.key = h.key => g = h

Reading(s) == ReadingOpen(s) /\ ReadingTasks(s) /\ ReadingHidden(s)

\* The inductive invariant of Detection.
ScanInv ==
    /\ TypeOK /\ OneAtATime /\ ScopesGiven
    /\ OneOpenSignalPerKey /\ OneTaskPerSignal /\ SuppressionIsExplained
    /\ \A s \in Scanners : Reading(s)

------------------------------------------------------------------------------
(* Sequences and records.                                                    *)

\* Rows inserted in some order: each of a finite set once.
LEMMA OrderIsSeq ==
  ASSUME NEW S, IsFiniteSet(S), NEW o \in Orders(S)
  PROVE  /\ o \in Seq(S) /\ Len(o) \in Nat /\ DOMAIN o = 1 .. Len(o)
         /\ \A i, j \in 1 .. Len(o) : o[i] = o[j] => i = j
         /\ \A x \in S : \E i \in 1 .. Len(o) : o[i] = x
<1>1. Cardinality(S) \in Nat  BY FS_CardinalityType
<1>2. /\ o \in [1 .. Cardinality(S) -> S] /\ IsInjective(o)
      /\ \A x \in S : \E i \in 1 .. Cardinality(S) : o[i] = x
  BY DEF Orders, Bijection, Injection, Surjection
<1>3. o \in Seq(S) /\ Len(o) = Cardinality(S)  BY <1>1, <1>2
<1> QED  BY <1>1, <1>2, <1>3 DEF IsInjective

\* Three sequences in a row.
InARow(S, all, x, y, z) ==
    /\ all \in Seq(S) /\ Len(all) = Len(x) + Len(y) + Len(z)
    /\ \A i \in 1 .. Len(x) : all[i] = x[i]
    /\ \A i \in 1 .. Len(y) : all[Len(x) + i] = y[i]
    /\ \A i \in 1 .. Len(z) : all[Len(x) + Len(y) + i] = z[i]

LEMMA Concat3 ==
  ASSUME NEW S, NEW x \in Seq(S), NEW y \in Seq(S), NEW z \in Seq(S)
  PROVE  InARow(S, x \o y \o z, x, y, z)
<1>1. x \o y \in Seq(S) /\ Len(x \o y) = Len(x) + Len(y)  BY ConcatProperties
<1>2. Len(x) \in Nat /\ Len(y) \in Nat /\ Len(z) \in Nat  BY LenProperties
<1>3. (x \o y) \o z \in Seq(S) /\ Len((x \o y) \o z) = Len(x) + Len(y) + Len(z)
  BY <1>1, <1>2, ConcatProperties
<1>4. \A i \in 1 .. Len(x) + Len(y) :
         ((x \o y) \o z)[i] = IF i <= Len(x) THEN x[i] ELSE y[i - Len(x)]
  BY <1>1, <1>2, ConcatProperties
<1>5. \A i \in 1 .. Len(z) : ((x \o y) \o z)[Len(x) + Len(y) + i] = z[i]
  <2> SUFFICES ASSUME NEW i \in 1 .. Len(z)
               PROVE  ((x \o y) \o z)[Len(x) + Len(y) + i] = z[i]
    OBVIOUS
  <2> DEFINE k == Len(x \o y) + i
  <2>1. k \in 1 .. Len(x \o y) + Len(z) /\ ~(k <= Len(x \o y)) /\ k - Len(x \o y) = i
    BY <1>1, <1>2
  <2>2. ((x \o y) \o z)[k] = z[k - Len(x \o y)]  BY <1>1, <2>1, ConcatProperties
  <2> QED  BY <1>1, <2>1, <2>2
<1>6. \A i \in 1 .. Len(y) : ((x \o y) \o z)[Len(x) + i] = y[i]
  BY <1>2, <1>4
<1>7. \A i \in 1 .. Len(x) : ((x \o y) \o z)[i] = x[i]
  BY <1>2, <1>4
<1> QED  BY <1>3, <1>5, <1>6, <1>7 DEF InARow

\* The three shapes a scan's reading takes.
LEMMA IdleIsScan ==
    /\ NoScan \in Scan /\ NoScan.at = "idle" /\ NoScan.assign = {}
    /\ NoScan.raise = {} /\ NoScan.hide = {} /\ NoScan.active = {}
    /\ NoScan.open = {}
BY DEF NoScan, Scan

Detected(q, raise, hide) == [q EXCEPT !.at = "detected", !.raise = raise, !.hide = hide]

LEMMA DetectedIsScan ==
  ASSUME NEW q \in Scan, NEW raise \in SUBSET Keys,
         NEW hide \in SUBSET [key : Keys, rule : Rules, signal : Nat]
  PROVE  LET after == Detected(q, raise, hide)
         IN  /\ after \in Scan /\ after.at = "detected" /\ after.active = q.active
             /\ after.open = q.open /\ after.raise = raise /\ after.hide = hide
             /\ after.assign = q.assign
<1> DEFINE q1 == [q EXCEPT !.at = "detected"]
           q2 == [q1 EXCEPT !.raise = raise]
           after == Detected(q, raise, hide)
<1>1. q1 \in Scan  BY DEF Scan
<1>2. q2 \in Scan  BY <1>1 DEF Scan
<1>3. [q2 EXCEPT !.hide = hide] \in Scan  BY <1>2 DEF Scan
<1>4. after = [q2 EXCEPT !.hide = hide]  BY Zenon DEF Detected
<1> QED  BY <1>3, <1>4 DEF Scan

LEMMA AssigningIsScan ==
  ASSUME NEW q \in Scan, NEW assign \in SUBSET (Nat \ {0})
  PROVE  LET after == [q EXCEPT !.at = "assigning", !.assign = assign]
         IN  /\ after \in Scan /\ after.at = "assigning" /\ after.active = q.active
             /\ after.open = q.open /\ after.raise = q.raise /\ after.hide = q.hide
             /\ after.assign = assign
<1> DEFINE q1 == [q EXCEPT !.at = "assigning"]
           after == [q EXCEPT !.at = "assigning", !.assign = assign]
<1>1. q1 \in Scan  BY DEF Scan
<1>2. [q1 EXCEPT !.assign = assign] \in Scan  BY <1>1 DEF Scan
<1>3. after = [q1 EXCEPT !.assign = assign]  BY Zenon
<1> QED  BY <1>2, <1>3 DEF Scan

------------------------------------------------------------------------------
(* The steps of a scan.                                                      *)

\* The ids are the numbers up to the length of the table.
LEMMA Ids ==
  ASSUME TypeOK
  PROVE  /\ SignalIds = 1 .. Len(signals) /\ Len(signals) \in Nat
         /\ \A i \in SignalIds : signals[i] \in Signal
         /\ TaskIds = 1 .. Len(tasks) /\ Len(tasks) \in Nat
         /\ \A t \in TaskIds : tasks[t] \in Task
BY LenProperties, ElementOfSeq DEF TypeOK, SignalIds, TaskIds

\* Initially the tables are empty and no scan runs.
LEMMA InitEstablishes ==
  ASSUME ScanInit
  PROVE  ScanInv
<1>1. SignalIds = {} /\ TaskIds = {}
  BY DEF ScanInit, SignalIds, TaskIds
<1>2. TypeOK
  BY IdleIsScan, DetectionAssumption DEF ScanInit, TypeOK
<1>3. OneAtATime /\ ScopesGiven  BY IdleIsScan DEF ScanInit, OneAtATime, ScopesGiven
<1>4. OneOpenSignalPerKey /\ OneTaskPerSignal /\ SuppressionIsExplained
  BY <1>1 DEF OneOpenSignalPerKey, OneTaskPerSignal, SuppressionIsExplained
<1>5. ASSUME NEW s \in Scanners PROVE Reading(s)
  <2>1. scan[s] = NoScan  BY DEF ScanInit
  <2>2. IsFiniteSet({})  BY FS_EmptySet
  <2> QED
    BY <1>1, <2>1, <2>2, IdleIsScan
       DEF Reading, ReadingOpen, ReadingTasks, ReadingHidden, Live
<1> QED  BY <1>2, <1>3, <1>4, <1>5 DEF ScanInv

\* A step of one scan that leaves the tables alone.
LEMMA ScanStep ==
  ASSUME ScanInv, NEW s \in Scanners, NEW q \in Scan, scan' = [scan EXCEPT ![s] = q],
         UNCHANGED <<signals, tasks, hits, rules, scopes, dismissals>>,
         q.at # "idle" => \A t \in Scanners : scan[t].at # "idle" => t = s,
         q.at = "idle" => q = NoScan,
         Reading(s)'
  PROVE  ScanInv'
<1>1. scan'[s] = q /\ \A t \in Scanners \ {s} : scan'[t] = scan[t]
  BY DEF ScanInv, TypeOK
<1>2. TypeOK'  BY DEF ScanInv, TypeOK
<1>3. OneAtATime' /\ ScopesGiven'  BY <1>1 DEF ScanInv, OneAtATime, ScopesGiven
<1>4. (OneOpenSignalPerKey /\ OneTaskPerSignal /\ SuppressionIsExplained)'
  BY
     DEF ScanInv, OneOpenSignalPerKey, OneTaskPerSignal,
         SuppressionIsExplained, EverCovered, CoveredAfter, SignalIds, TaskIds
<1>5. ASSUME NEW t \in Scanners \ {s} PROVE Reading(t)'
  BY <1>1, <1>5
     DEF ScanInv, Reading, ReadingOpen, ReadingTasks, ReadingHidden, EverCovered, Live, Open,
         SignalIds, TaskIds
<1> QED  BY <1>2, <1>3, <1>4, <1>5 DEF ScanInv

\* The steps of a scan: it reads the open signals and active rules,
LEMMA BeginKeeps ==
  ASSUME ScanInv, NEW s \in Scanners, Begin(s)
  PROVE  ScanInv'
<1> DEFINE active == {[rule |-> r, keys |-> ScopeOf(r)] :
                        r \in {v \in Rules : rules[v] = "active"}}
           q == [at |-> "loaded", open |-> OpenKeys, active |-> active,
                 raise |-> {}, hide |-> {}, assign |-> {}]
<1>1. /\ scan' = [scan EXCEPT ![s] = q] /\ UNCHANGED <<signals, tasks, hits, rules, scopes, dismissals>>
      /\ \A t \in Scanners : scan[t].at = "idle"
  BY DEF Begin, MayStart
<1>2. OpenKeys \subseteq Keys
  BY Ids DEF ScanInv, OpenKeys, Signal
<1>0. \A r \in Rules : ScopeOf(r) \subseteq Keys /\ ScopeOf(r) \subseteq scopes[r].ever
  BY DEF ScanInv, ScopesGiven, TypeOK, ScopeOf
<1>3. q \in Scan
  <2>1. active \subseteq [rule : Rules, keys : SUBSET Keys]  BY <1>0
  <2> QED  BY <1>2, <2>1 DEF Scan
<1>4. scan'[s] = q  BY <1>1 DEF ScanInv, TypeOK
<1>5. Reading(s)'
  <2>1. /\ q.assign = {} /\ q.raise = {} /\ q.hide = {} /\ q.open = OpenKeys
        /\ q.active = active /\ q.at = "loaded"
    OBVIOUS
  <2> HIDE DEF q
  <2>2. \A i, j \in SignalIds : Open(i) /\ Open(j) /\ signals[i].key = signals[j].key => i = j
    BY DEF ScanInv, OneOpenSignalPerKey, Open, OpenStatuses
  <2>3. ReadingOpen(s)'
    BY <1>1, <1>4, <2>1, <2>2 DEF ReadingOpen, Live, Open, OpenKeys, SignalIds
  <2>4. ReadingTasks(s)'  BY <1>4, <2>1 DEF ReadingTasks
  <2>5. \A p \in active : /\ rules'[p.rule] \in {"active", "closed"}
                          /\ \A k \in p.keys : CoveredAfter(p.rule, k)
    <3>1. ASSUME NEW r \in Rules, rules[r] = "active"
          PROVE  /\ rules'[r] \in {"active", "closed"}
                 /\ \A k \in ScopeOf(r) : CoveredAfter(r, k)
      BY <1>0, <1>1, <3>1 DEF CoveredAfter, ScopeOf
    <3> QED  BY <3>1
  <2> HIDE DEF active
  <2>6. ReadingHidden(s)'
    BY <1>1, <1>4, <2>1, <2>5, FS_EmptySet DEF ReadingHidden, EverCovered, CoveredAfter
  <2> QED  BY <2>3, <2>4, <2>6 DEF Reading
<1>6. q.at = "loaded"  OBVIOUS
<1> HIDE DEF q
<1> QED  BY <1>1, <1>3, <1>5, <1>6, ScanStep

\* gives up,
LEMMA AbortKeeps ==
  ASSUME ScanInv, NEW s \in Scanners, AbortScan(s)
  PROVE  ScanInv'
<1>1. scan' = [scan EXCEPT ![s] = NoScan] /\ UNCHANGED <<signals, tasks, hits, rules, scopes, dismissals>>
  BY DEF AbortScan
<1>2. scan'[s] = NoScan  BY <1>1 DEF ScanInv, TypeOK
<1>3. ReadingOpen(s)'
  BY <1>1, <1>2, IdleIsScan
     DEF ScanInv, OneOpenSignalPerKey, ReadingOpen, Live, Open, OpenStatuses, SignalIds
<1>4. ReadingTasks(s)' /\ ReadingHidden(s)'
  BY <1>2, IdleIsScan, FS_EmptySet DEF ReadingTasks, ReadingHidden
<1> QED  BY <1>1, <1>3, <1>4, IdleIsScan, ScanStep DEF Reading

\* decides what to raise and what to hide,
LEMMA DetectKeeps ==
  ASSUME ScanInv, NEW s \in Scanners, Detect(s)
  PROVE  ScanInv'
<1>1. PICK found \in {f \in SUBSET Keys : Standing \subseteq f} :
        LET fresh == found \ scan[s].open
            covered == {k \in fresh : Matching(s, k) # {}}
        IN  \E rule \in [covered -> Rules], signal \in [covered -> {0} \cup SignalIds] :
              /\ \A k \in covered : rule[k] \in Matching(s, k) /\ signal[k] \in SuppressedSignal(k)
              /\ scan' = [scan EXCEPT ![s] = [scan[s] EXCEPT
                            !.at = "detected", !.raise = fresh \ covered,
                            !.hide = {[key |-> k, rule |-> rule[k], signal |-> signal[k]] :
                                        k \in covered}]]
  BY DEF Detect
<1> DEFINE fresh == found \ scan[s].open
           covered == {k \in fresh : Matching(s, k) # {}}
<1>0. PICK rule \in [covered -> Rules], signal \in [covered -> {0} \cup SignalIds] :
              /\ \A k \in covered : rule[k] \in Matching(s, k) /\ signal[k] \in SuppressedSignal(k)
              /\ scan' = [scan EXCEPT ![s] = [scan[s] EXCEPT
                            !.at = "detected", !.raise = fresh \ covered,
                            !.hide = {[key |-> k, rule |-> rule[k], signal |-> signal[k]] :
                                        k \in covered}]]
  BY <1>1
<1> DEFINE hide == {[key |-> k, rule |-> rule[k], signal |-> signal[k]] : k \in covered}
           q == [scan[s] EXCEPT !.at = "detected", !.raise = fresh \ covered, !.hide = hide]
<1>2. /\ scan[s].at = "loaded" /\ scan' = [scan EXCEPT ![s] = q]
      /\ UNCHANGED <<signals, tasks, hits, rules, scopes, dismissals>>
  BY <1>0 DEF Detect
<1>3. scan[s] \in Scan /\ scan[s].assign = {}
  BY <1>2 DEF ScanInv, TypeOK, Reading, ReadingOpen
<1>4. hide \in SUBSET [key : Keys, rule : Rules, signal : Nat]
  BY Ids DEF ScanInv
<1>5. /\ q \in Scan /\ q.at = "detected" /\ q.active = scan[s].active /\ q.open = scan[s].open
      /\ q.raise = fresh \ covered /\ q.hide = hide /\ q.assign = {}
  <2> DEFINE raise == fresh \ covered
  <2>1. raise \in SUBSET Keys  OBVIOUS
  <2>2. q = Detected(scan[s], raise, hide)  BY DEF Detected
  <2> HIDE DEF fresh, covered, hide, raise, q
  <2>3. /\ q \in Scan /\ q.at = "detected" /\ q.active = scan[s].active
        /\ q.open = scan[s].open /\ q.raise = raise /\ q.hide = hide
        /\ q.assign = scan[s].assign
    BY <1>3, <1>4, <2>1, <2>2, DetectedIsScan
  <2> QED  BY <1>3, <2>3 DEF raise
<1>6. IsFiniteSet(hide)
  <2>1. IsFiniteSet(covered)
    BY FS_Subset, DetectionAssumption
  <2> DEFINE f == [k \in covered |-> [key |-> k, rule |-> rule[k], signal |-> signal[k]]]
             image == {f[k] : k \in covered}
  <2>2. image = hide  OBVIOUS
  <2>3. f \in Surjection(covered, image)
    BY DEF Surjection
  <2> HIDE DEF f, image, covered
  <2>4. IsFiniteSet(image)  BY <2>1, <2>3, FS_Surjection
  <2> QED  BY <2>2, <2>4
<1>7. \A g \in hide : /\ \E p \in scan[s].active : p.rule = g.rule /\ g.key \in p.keys
                      /\ g.signal = 0 => \A i \in SignalIds :
                            signals[i].key = g.key => signals[i].status # "suppressed"
  <2> SUFFICES ASSUME NEW k \in covered
               PROVE  /\ \E p \in scan[s].active : p.rule = rule[k] /\ k \in p.keys
                      /\ signal[k] = 0 => \A i \in SignalIds :
                            signals[i].key = k => signals[i].status # "suppressed"
    OBVIOUS
  <2>1. rule[k] \in Matching(s, k) /\ signal[k] \in SuppressedSignal(k)  BY <1>0
  <2>2. 0 \notin SignalIds  BY Ids DEF ScanInv
  <2> QED  BY <2>1, <2>2 DEF Matching, SuppressedSignal
<1>8. \A g, h \in hide : g.key = h.key => g = h  OBVIOUS
<1> HIDE DEF q, hide, covered, fresh
<1>9. scan'[s] = q  BY <1>2 DEF ScanInv, TypeOK
<1>10. Reading(s)'
  <2>1. Reading(s)  BY DEF ScanInv
  <2>2. ReadingOpen(s)'
    BY <1>2, <1>3, <1>5, <1>9, <2>1
       DEF Reading, ReadingOpen, Live, Open, SignalIds, fresh
  <2>3. ReadingTasks(s)'  BY <1>5, <1>9 DEF ReadingTasks
  <2>4. ReadingHidden(s)'
    <3>1. IsFiniteSet(scan'[s].hide)  BY <1>5, <1>6, <1>9
    <3>2. \A p \in scan'[s].active : /\ rules'[p.rule] \in {"active", "closed"}
                                     /\ \A k \in p.keys : CoveredAfter(p.rule, k)
      BY <1>2, <1>5, <1>9, <2>1 DEF Reading, ReadingHidden, EverCovered, CoveredAfter
    <3>3. \A g \in scan'[s].hide :
             /\ \E p \in scan'[s].active : p.rule = g.rule /\ g.key \in p.keys
             /\ g.signal = 0 => \A i \in SignalIds' :
                   signals'[i].key = g.key => signals'[i].status # "suppressed"
      <4>1. scan'[s].hide = hide /\ scan'[s].active = scan[s].active  BY <1>5, <1>9
      <4>2. signals' = signals /\ SignalIds' = SignalIds  BY <1>2 DEF SignalIds
      <4> QED  BY <4>1, <4>2, <1>7, Zenon
    <3>4. \A g, h \in scan'[s].hide : g.key = h.key => g = h  BY <1>5, <1>8, <1>9
    <3> QED  BY <3>1, <3>2, <3>3, <3>4 DEF ReadingHidden, EverCovered, CoveredAfter
  <2> QED  BY <2>2, <2>3, <2>4 DEF Reading
<1>11. \A t \in Scanners : scan[t].at # "idle" => t = s  BY <1>2 DEF ScanInv, OneAtATime
<1> QED  BY <1>2, <1>5, <1>10, <1>11, ScanStep

\* and reads what is to be assigned.
LEMMA ReadNewKeeps ==
  ASSUME ScanInv, NEW s \in Scanners, ReadNew(s)
  PROVE  ScanInv'
<1> DEFINE assign == {i \in SignalIds : Unassigned(i)}
           q == [scan[s] EXCEPT !.at = "assigning", !.assign = assign]
<1>1. /\ s \in Taskers /\ scan[s].at = "detected" /\ scan' = [scan EXCEPT ![s] = q]
      /\ UNCHANGED <<signals, tasks, hits, rules, scopes, dismissals>>
  BY DEF ReadNew
<1>2. scan[s] \in Scan  BY DEF ScanInv, TypeOK
<1>3. assign \in SUBSET (Nat \ {0}) /\ \A i \in assign : Open(i) /\ signals[i].status = "new"
  BY Ids DEF ScanInv, Unassigned, Open, OpenStatuses
<1>4. assign \subseteq SignalIds  OBVIOUS
<1> HIDE DEF assign
<1>5. /\ q \in Scan /\ q.at = "assigning" /\ q.active = scan[s].active /\ q.open = scan[s].open
      /\ q.raise = scan[s].raise /\ q.hide = scan[s].hide /\ q.assign = assign
  <2>1. assign \in SUBSET (Nat \ {0})  BY <1>3
  <2> QED  BY <1>2, <2>1, AssigningIsScan, ZenonT(60)
<1> HIDE DEF q
<1>6. scan'[s] = q  BY <1>1 DEF ScanInv, TypeOK
<1>7. Reading(s)'
  <2>1. Reading(s)  BY DEF ScanInv
  <2>2. Live(s)' \subseteq Live(s)
    BY <1>1, <1>3, <1>4, <1>5, <1>6 DEF Live, Open, SignalIds
  <2>3. ReadingOpen(s)'
    BY <1>1, <1>4, <1>5, <1>6, <2>1, <2>2 DEF Reading, ReadingOpen, SignalIds
  <2>4. ReadingTasks(s)'
    BY <1>1, <1>3, <1>5, <1>6 DEF ScanInv, OneTaskPerSignal, ReadingTasks, TaskIds
  <2>5. ReadingHidden(s)'
    BY <1>1, <1>5, <1>6, <2>1 DEF Reading, ReadingHidden, EverCovered, CoveredAfter, SignalIds
  <2> QED  BY <2>3, <2>4, <2>5 DEF Reading
<1>8. \A t \in Scanners : scan[t].at # "idle" => t = s  BY <1>1 DEF ScanInv, OneAtATime
<1> QED  BY <1>1, <1>5, <1>7, <1>8, ScanStep

------------------------------------------------------------------------------
(* The commit.                                                               *)

\* A scan that holds nothing has nothing left that could become untrue.
LEMMA IdleReading ==
  ASSUME NEW s \in Scanners, scan'[s] = NoScan, OneOpenSignalPerKey'
  PROVE  Reading(s)'
<1>1. ReadingOpen(s)'
  BY IdleIsScan
     DEF OneOpenSignalPerKey, ReadingOpen, Live, Open, OpenStatuses,
         SignalIds
<1>2. ReadingTasks(s)' /\ ReadingHidden(s)'
  BY IdleIsScan, FS_EmptySet DEF ReadingTasks, ReadingHidden
<1> QED  BY <1>1, <1>2 DEF Reading

\* What a commit leaves in the tables: the old rows, those it assigns flipped; then the ones
\* it raises; then the ones it hides.  The tasks follow in the same way.
CommitLeaves(s, raised, hidden, assigned) ==
    LET n == Len(signals)
        m == n + Len(raised)
        u == Len(tasks)
        v == u + Len(assigned)
        given == IF s \in Taskers THEN Len(raised) ELSE 0
    IN  /\ signals' \in Seq(Signal) /\ Len(signals') = m + Len(hidden)
        /\ \A i \in 1 .. n : /\ signals'[i].key = signals[i].key
                              /\ signals'[i].status = IF i \in scan[s].assign THEN "tasked"
                                                      ELSE signals[i].status
        /\ \A i \in 1 .. Len(raised) :
               /\ signals'[n + i].key = raised[i]
               /\ signals'[n + i].status = IF s \in Taskers THEN "tasked" ELSE "new"
        /\ \A i \in 1 .. Len(hidden) : /\ signals'[m + i].key = hidden[i].key
                                        /\ signals'[m + i].status = "suppressed"
        /\ tasks' \in Seq(Task) /\ Len(tasks') = v + given
        /\ \A t \in 1 .. u : tasks'[t] = tasks[t]
        /\ \A i \in 1 .. Len(assigned) : tasks'[u + i].signal = assigned[i]
        /\ \A i \in 1 .. given : tasks'[v + i].signal = n + i
        /\ hits' = hits \cup {[rule |-> h.rule, signal |-> h.signal] :
                                h \in {g \in scan[s].hide : g.signal # 0}}
                        \cup {[rule |-> hidden[i].rule, signal |-> m + i] : i \in 1 .. Len(hidden)}
        /\ scan' = [scan EXCEPT ![s] = NoScan]
        /\ UNCHANGED <<rules, scopes, dismissals>>

\* A commit leaves that.
LEMMA CommitEffects ==
  ASSUME ScanInv, NEW s \in Scanners, CommitScan(s)
  PROVE  \E raised \in Orders(scan[s].raise),
            hidden \in Orders({h \in scan[s].hide : h.signal = 0}),
            assigned \in Orders(scan[s].assign) : CommitLeaves(s, raised, hidden, assigned)
<1> DEFINE toHide == {h \in scan[s].hide : h.signal = 0}
<1>1. PICK raised \in Orders(scan[s].raise), hidden \in Orders(toHide),
           assigned \in Orders(scan[s].assign) :
         LET flipped == [i \in SignalIds |-> IF i \in scan[s].assign
                                            THEN [signals[i] EXCEPT !.status = "tasked"]
                                            ELSE signals[i]]
             n == Len(signals)
             m == n + Len(raised)
         IN /\ signals' = flipped
                 \o [i \in DOMAIN raised |->
                       [key |-> raised[i], status |-> IF s \in Taskers THEN "tasked" ELSE "new"]]
                 \o [i \in DOMAIN hidden |-> [key |-> hidden[i].key, status |-> "suppressed"]]
            /\ tasks' = tasks
                 \o [i \in DOMAIN assigned |-> [signal |-> assigned[i], status |-> "open"]]
                 \o IF s \in Taskers
                    THEN [i \in DOMAIN raised |-> [signal |-> n + i, status |-> "open"]]
                    ELSE <<>>
            /\ hits' = hits
                 \cup {[rule |-> h.rule, signal |-> h.signal] :
                         h \in {g \in scan[s].hide : g.signal # 0}}
                 \cup {[rule |-> hidden[i].rule, signal |-> m + i] : i \in DOMAIN hidden}
  BY DEF CommitScan
<1>2. scan' = [scan EXCEPT ![s] = NoScan] /\ UNCHANGED <<rules, scopes, dismissals>>
  BY DEF CommitScan
<1>3. scan[s] \in Scan /\ Reading(s) /\ TypeOK  BY DEF ScanInv, TypeOK
<1> DEFINE n == Len(signals)
           a == [i \in SignalIds |-> IF i \in scan[s].assign
                                     THEN [signals[i] EXCEPT !.status = "tasked"]
                                     ELSE signals[i]]
           b == [i \in DOMAIN raised |->
                       [key |-> raised[i], status |-> IF s \in Taskers THEN "tasked" ELSE "new"]]
           c == [i \in DOMAIN hidden |-> [key |-> hidden[i].key, status |-> "suppressed"]]
           d == [i \in DOMAIN assigned |-> [signal |-> assigned[i], status |-> "open"]]
           e == IF s \in Taskers
                THEN [i \in DOMAIN raised |-> [signal |-> n + i, status |-> "open"]] ELSE <<>>
           given == IF s \in Taskers THEN Len(raised) ELSE 0
<1>4. /\ SignalIds = 1 .. n /\ n \in Nat /\ TaskIds = 1 .. Len(tasks) /\ Len(tasks) \in Nat
      /\ \A i \in SignalIds : signals[i] \in Signal
      /\ signals \in Seq(Signal) /\ tasks \in Seq(Task)
  BY <1>3, Ids DEF TypeOK
<1>5. /\ raised \in Seq(Keys) /\ Len(raised) \in Nat /\ DOMAIN raised = 1 .. Len(raised)
  <2>1. scan[s].raise \subseteq Keys /\ IsFiniteSet(scan[s].raise)
    BY <1>3, FS_Subset, DetectionAssumption DEF Scan
  <2> QED  BY <2>1, OrderIsSeq
<1>6. /\ hidden \in Seq(scan[s].hide) /\ Len(hidden) \in Nat /\ DOMAIN hidden = 1 .. Len(hidden)
      /\ \A i \in 1 .. Len(hidden) : hidden[i] \in scan[s].hide
  <2>1. IsFiniteSet(toHide)  BY <1>3, FS_Subset DEF Reading, ReadingHidden
  <2>2. /\ hidden \in Seq(toHide) /\ Len(hidden) \in Nat /\ DOMAIN hidden = 1 .. Len(hidden)
    BY <2>1, OrderIsSeq
  <2>3. \A i \in 1 .. Len(hidden) : hidden[i] \in toHide  BY <2>2, ElementOfSeq
  <2> QED  BY <2>2, <2>3
<1>7. /\ assigned \in Seq(SignalIds) /\ Len(assigned) \in Nat
      /\ DOMAIN assigned = 1 .. Len(assigned)
      /\ \A i \in 1 .. Len(assigned) : assigned[i] \in Nat \ {0}
  <2>1. scan[s].assign \subseteq SignalIds  BY <1>3 DEF Reading, ReadingOpen
  <2>0. 1 \in Int /\ n \in Int  BY <1>4
  <2>2. IsFiniteSet(1 .. n)  BY <2>0, FS_Interval, Zenon
  <2>3. IsFiniteSet(scan[s].assign)  BY <1>4, <2>1, <2>2, FS_Subset
  <2>4. /\ assigned \in Seq(scan[s].assign) /\ Len(assigned) \in Nat
        /\ DOMAIN assigned = 1 .. Len(assigned)
    BY <2>3, OrderIsSeq
  <2>5. \A i \in 1 .. Len(assigned) : assigned[i] \in SignalIds  BY <2>1, <2>4, ElementOfSeq
  <2>6. assigned \in Seq(SignalIds)  BY <2>1, <2>4
  <2>7. \A i \in 1 .. n : i \in Nat \ {0}  BY <1>4
  <2> QED  BY <1>4, <2>4, <2>5, <2>6, <2>7, Zenon
<1>8. /\ a \in Seq(Signal) /\ Len(a) = n
      /\ \A i \in 1 .. n : /\ a[i].key = signals[i].key
                            /\ a[i].status = IF i \in scan[s].assign THEN "tasked"
                                             ELSE signals[i].status
  BY <1>4 DEF Signal
<1>9. /\ b \in Seq(Signal) /\ Len(b) = Len(raised)
      /\ \A i \in 1 .. Len(raised) : /\ b[i].key = raised[i]
                                      /\ b[i].status = IF s \in Taskers THEN "tasked" ELSE "new"
  <2>1. \A i \in 1 .. Len(raised) : raised[i] \in Keys  BY <1>5, ElementOfSeq
  <2> QED  BY <1>5, <2>1 DEF Signal
<1>10. /\ c \in Seq(Signal) /\ Len(c) = Len(hidden)
       /\ \A i \in 1 .. Len(hidden) : c[i].key = hidden[i].key /\ c[i].status = "suppressed"
  <2>1. \A i \in 1 .. Len(hidden) : hidden[i].key \in Keys  BY <1>3, <1>6 DEF Scan
  <2> QED  BY <1>6, <2>1 DEF Signal
<1>11. /\ d \in Seq(Task) /\ Len(d) = Len(assigned)
       /\ \A i \in 1 .. Len(assigned) : d[i].signal = assigned[i]
  BY <1>7 DEF Task
<1>12. e \in Seq(Task) /\ Len(e) = given /\ \A i \in 1 .. given : e[i].signal = n + i
  <2>1. CASE s \in Taskers  BY <1>4, <1>5, <2>1 DEF Task
  <2>2. CASE s \notin Taskers  BY <2>2
  <2> QED  BY <2>1, <2>2
<1>13. /\ signals' = a \o b \o c /\ tasks' = tasks \o d \o e
       /\ hits' = hits \cup {[rule |-> h.rule, signal |-> h.signal] :
                                h \in {g \in scan[s].hide : g.signal # 0}}
                       \cup {[rule |-> hidden[i].rule, signal |-> n + Len(raised) + i] :
                                i \in 1 .. Len(hidden)}
  BY <1>1, <1>6
<1> HIDE DEF a, b, c, d, e
<1>14. /\ signals' \in Seq(Signal) /\ Len(signals') = n + Len(raised) + Len(hidden)
       /\ \A i \in 1 .. n : signals'[i] = a[i]
       /\ \A i \in 1 .. Len(raised) : signals'[n + i] = b[i]
       /\ \A i \in 1 .. Len(hidden) : signals'[n + Len(raised) + i] = c[i]
  <2>1. InARow(Signal, signals', a, b, c)  BY <1>8, <1>9, <1>10, <1>13, Concat3
  <2> QED  BY <1>8, <1>9, <1>10, <2>1 DEF InARow
<1>15. /\ tasks' \in Seq(Task) /\ Len(tasks') = Len(tasks) + Len(assigned) + given
       /\ \A i \in 1 .. Len(tasks) : tasks'[i] = tasks[i]
       /\ \A i \in 1 .. Len(assigned) : tasks'[Len(tasks) + i] = d[i]
       /\ \A i \in 1 .. given : tasks'[Len(tasks) + Len(assigned) + i] = e[i]
  <2>1. InARow(Task, tasks', tasks, d, e)  BY <1>4, <1>11, <1>12, <1>13, Concat3
  <2> QED  BY <1>11, <1>12, <2>1 DEF InARow
<1>16. CommitLeaves(s, raised, hidden, assigned)
  <2>1. /\ signals' \in Seq(Signal) /\ Len(signals') = n + Len(raised) + Len(hidden)
        /\ \A i \in 1 .. n : /\ signals'[i].key = signals[i].key
                              /\ signals'[i].status = IF i \in scan[s].assign THEN "tasked"
                                                      ELSE signals[i].status
    BY <1>8, <1>14
  <2>2. \A i \in 1 .. Len(raised) :
               /\ signals'[n + i].key = raised[i]
               /\ signals'[n + i].status = IF s \in Taskers THEN "tasked" ELSE "new"
    BY <1>9, <1>14
  <2>3. \A i \in 1 .. Len(hidden) : /\ signals'[n + Len(raised) + i].key = hidden[i].key
                                    /\ signals'[n + Len(raised) + i].status = "suppressed"
    BY <1>10, <1>14
  <2>4. /\ tasks' \in Seq(Task) /\ Len(tasks') = Len(tasks) + Len(assigned) + given
        /\ \A t \in 1 .. Len(tasks) : tasks'[t] = tasks[t]
        /\ \A i \in 1 .. Len(assigned) : tasks'[Len(tasks) + i].signal = assigned[i]
        /\ \A i \in 1 .. given : tasks'[Len(tasks) + Len(assigned) + i].signal = n + i
    BY <1>11, <1>12, <1>15
  <2> QED  BY <1>2, <1>13, <2>1, <2>2, <2>3, <2>4, Zenon DEF CommitLeaves
<1> QED  BY <1>16

\* Where the three parts of a table lie that a commit has appended to.
LEMMA Ranges ==
  ASSUME NEW u \in Nat, NEW a \in Nat, NEW g \in Nat
  PROVE  /\ \A t \in 1 .. u : t \in 1 .. u + a + g
         /\ \A k \in 1 .. a : u + k \in 1 .. u + a + g
         /\ \A k \in 1 .. g : u + a + k \in 1 .. u + a + g
<1>1. \A t \in 1 .. u : t \in 1 .. u + a + g  OBVIOUS
<1>2. \A k \in 1 .. a : u + k \in 1 .. u + a + g  OBVIOUS
<1>3. \A k \in 1 .. g : u + a + k \in 1 .. u + a + g  OBVIOUS
<1> QED  BY <1>1, <1>2, <1>3

\* So it keeps the invariant.
LEMMA CommitKeeps ==
  ASSUME ScanInv, NEW s \in Scanners, CommitScan(s)
  PROVE  ScanInv'
<1> DEFINE toHide == {h \in scan[s].hide : h.signal = 0}
           n == Len(signals)
<1>1. PICK raised \in Orders(scan[s].raise), hidden \in Orders(toHide),
           assigned \in Orders(scan[s].assign) : CommitLeaves(s, raised, hidden, assigned)
  BY CommitEffects
<1> DEFINE m == n + Len(raised)
           u == Len(tasks)
           v == u + Len(assigned)
           given == IF s \in Taskers THEN Len(raised) ELSE 0
<1>2. scan[s] \in Scan /\ Reading(s) /\ TypeOK /\ OneAtATime
  BY DEF ScanInv, TypeOK
<1>3. /\ SignalIds = 1 .. n /\ n \in Nat /\ TaskIds = 1 .. u /\ u \in Nat
      /\ \A i \in SignalIds : signals[i] \in Signal
      /\ \A t \in TaskIds : tasks[t] \in Task
  BY <1>2, Ids
<1>4. /\ Len(raised) \in Nat /\ \A i \in 1 .. Len(raised) : raised[i] \in scan[s].raise
      /\ \A i, j \in 1 .. Len(raised) : raised[i] = raised[j] => i = j
  <2>1. IsFiniteSet(scan[s].raise)
    BY <1>2, FS_Subset, DetectionAssumption DEF Scan
  <2>2. raised \in Seq(scan[s].raise)  BY <2>1, OrderIsSeq
  <2>3. \A i \in 1 .. Len(raised) : raised[i] \in scan[s].raise  BY <2>2, ElementOfSeq
  <2> QED  BY <2>1, <2>3, OrderIsSeq
<1>5. /\ Len(hidden) \in Nat
      /\ \A i \in 1 .. Len(hidden) : hidden[i] \in scan[s].hide /\ hidden[i].signal = 0
      /\ \A i, j \in 1 .. Len(hidden) : hidden[i] = hidden[j] => i = j
  <2>1. IsFiniteSet(toHide)  BY <1>2, FS_Subset DEF Reading, ReadingHidden
  <2>2. hidden \in Seq(toHide)  BY <2>1, OrderIsSeq
  <2>3. \A i \in 1 .. Len(hidden) : hidden[i] \in toHide  BY <2>2, ElementOfSeq
  <2> QED  BY <2>1, <2>3, OrderIsSeq
<1>6. /\ Len(assigned) \in Nat
      /\ \A i \in 1 .. Len(assigned) : assigned[i] \in scan[s].assign
      /\ \A i, j \in 1 .. Len(assigned) : assigned[i] = assigned[j] => i = j
      /\ \A x \in scan[s].assign : \E i \in 1 .. Len(assigned) : assigned[i] = x
      /\ scan[s].assign \subseteq 1 .. n
  <2>1. scan[s].assign \subseteq 1 .. n  BY <1>2, <1>3 DEF Reading, ReadingOpen
  <2>0. 1 \in Int /\ n \in Int  BY <1>3
  <2>2. IsFiniteSet(1 .. n)  BY <2>0, FS_Interval, Zenon
  <2>3. IsFiniteSet(scan[s].assign)  BY <2>1, <2>2, FS_Subset
  <2>4. assigned \in Seq(scan[s].assign)  BY <2>3, OrderIsSeq
  <2>5. \A i \in 1 .. Len(assigned) : assigned[i] \in scan[s].assign  BY <2>4, ElementOfSeq
  <2>6. /\ Len(assigned) \in Nat
        /\ \A i, j \in 1 .. Len(assigned) : assigned[i] = assigned[j] => i = j
        /\ \A x \in scan[s].assign : \E i \in 1 .. Len(assigned) : assigned[i] = x
    BY <2>3, OrderIsSeq
  <2> QED  BY <2>1, <2>5, <2>6, Zenon
<1>7. /\ signals' \in Seq(Signal) /\ SignalIds' = 1 .. m + Len(hidden)
      /\ \A i \in 1 .. n : /\ signals'[i].key = signals[i].key
                            /\ signals'[i].status = IF i \in scan[s].assign THEN "tasked"
                                                    ELSE signals[i].status
      /\ \A i \in 1 .. Len(raised) :
            /\ signals'[n + i].key = raised[i]
            /\ signals'[n + i].status = IF s \in Taskers THEN "tasked" ELSE "new"
      /\ \A i \in 1 .. Len(hidden) : /\ signals'[m + i].key = hidden[i].key
                                      /\ signals'[m + i].status = "suppressed"
  <2>1. /\ signals' \in Seq(Signal) /\ Len(signals') = m + Len(hidden)
        /\ \A i \in 1 .. n : /\ signals'[i].key = signals[i].key
                              /\ signals'[i].status = IF i \in scan[s].assign THEN "tasked"
                                                      ELSE signals[i].status
        /\ \A i \in 1 .. Len(raised) :
              /\ signals'[n + i].key = raised[i]
              /\ signals'[n + i].status = IF s \in Taskers THEN "tasked" ELSE "new"
        /\ \A i \in 1 .. Len(hidden) : /\ signals'[m + i].key = hidden[i].key
                                        /\ signals'[m + i].status = "suppressed"
    BY <1>1, Zenon DEF CommitLeaves
  <2>2. DOMAIN signals' = 1 .. Len(signals')  BY <2>1, LenProperties
  <2> QED  BY <2>1, <2>2, Zenon DEF SignalIds
<1>8. /\ tasks' \in Seq(Task) /\ TaskIds' = 1 .. v + given
      /\ \A t \in 1 .. u : tasks'[t] = tasks[t]
      /\ \A i \in 1 .. Len(assigned) : tasks'[u + i].signal = assigned[i]
      /\ \A i \in 1 .. given : tasks'[v + i].signal = n + i
  <2>1. /\ tasks' \in Seq(Task) /\ Len(tasks') = v + given
        /\ \A t \in 1 .. u : tasks'[t] = tasks[t]
        /\ \A i \in 1 .. Len(assigned) : tasks'[u + i].signal = assigned[i]
        /\ \A i \in 1 .. given : tasks'[v + i].signal = n + i
    BY <1>1, Zenon DEF CommitLeaves
  <2>2. DOMAIN tasks' = 1 .. Len(tasks')  BY <2>1, LenProperties
  <2> QED  BY <2>1, <2>2 DEF TaskIds
<1>9. /\ hits' = hits \cup {[rule |-> h.rule, signal |-> h.signal] :
                                h \in {g \in scan[s].hide : g.signal # 0}}
                      \cup {[rule |-> hidden[i].rule, signal |-> m + i] : i \in 1 .. Len(hidden)}
      /\ scan' = [scan EXCEPT ![s] = NoScan]
      /\ rules' = rules /\ scopes' = scopes /\ dismissals' = dismissals
  BY <1>1 DEF CommitLeaves
<1>10. \A i \in SignalIds' : \/ i \in 1 .. n
                             \/ \E k \in 1 .. Len(raised) : i = n + k
                             \/ \E k \in 1 .. Len(hidden) : i = m + k
  <2> SUFFICES ASSUME NEW i \in 1 .. m + Len(hidden)
               PROVE  \/ i \in 1 .. n
                      \/ \E k \in 1 .. Len(raised) : i = n + k
                      \/ \E k \in 1 .. Len(hidden) : i = m + k
    BY <1>7, Zenon
  <2>0. /\ n \in Nat /\ Len(raised) \in Nat /\ Len(hidden) \in Nat /\ m = n + Len(raised)
        /\ i \in 1 .. m + Len(hidden)
    BY <1>3, <1>4, <1>5
  <2> HIDE DEF n, m
  <2>1. CASE i <= n  BY <2>0, <2>1
  <2>2. CASE i > n /\ i <= m
    <3>1. i - n \in 1 .. Len(raised) /\ i = n + (i - n)  BY <2>0, <2>2
    <3> QED  BY <3>1
  <2>3. CASE i > m
    <3>1. i - m \in 1 .. Len(hidden) /\ i = m + (i - m)  BY <2>0, <2>3
    <3> QED  BY <3>1
  <2> QED  BY <2>0, <2>1, <2>2, <2>3
<1>11. given \in Nat /\ (s \in Taskers => given = Len(raised)) /\ given <= Len(raised)
  BY <1>4
<1>12. \A t \in TaskIds' : \/ t \in 1 .. u
                           \/ \E k \in 1 .. Len(assigned) : t = u + k
                           \/ \E k \in 1 .. given : t = v + k
  <2> SUFFICES ASSUME NEW t \in 1 .. v + given
               PROVE  \/ t \in 1 .. u
                      \/ \E k \in 1 .. Len(assigned) : t = u + k
                      \/ \E k \in 1 .. given : t = v + k
    BY <1>8, Zenon
  <2>0. /\ u \in Nat /\ Len(assigned) \in Nat /\ given \in Nat /\ t \in 1 .. v + given
        /\ v = u + Len(assigned)
    BY <1>3, <1>6, <1>11
  <2> HIDE DEF given, u, v
  <2>1. CASE t <= u  BY <2>0, <2>1
  <2>2. CASE t > u /\ t <= v
    <3>1. t - u \in 1 .. Len(assigned) /\ t = u + (t - u)  BY <2>0, <2>2
    <3> QED  BY <3>1
  <2>3. CASE t > v
    <3>1. t - v \in 1 .. given /\ t = v + (t - v)  BY <2>0, <2>3
    <3> QED  BY <3>1
  <2> QED  BY <2>0, <2>1, <2>2, <2>3
<1>20. /\ \A t \in 1 .. u : t \in TaskIds'
       /\ \A k \in 1 .. Len(assigned) : u + k \in TaskIds'
       /\ \A k \in 1 .. given : v + k \in TaskIds'
  <2>1. u \in Nat /\ Len(assigned) \in Nat /\ given \in Nat  BY <1>3, <1>6, <1>11
  <2>2. TaskIds' = 1 .. u + Len(assigned) + given  BY <1>8
  <2> HIDE DEF u, given
  <2> QED  BY <2>1, <2>2, Ranges, Zenon
<1>13. TypeOK'
  <2>1. hits' \subseteq [rule : Rules, signal : Nat \ {0}]
    <3>1. hits \subseteq [rule : Rules, signal : Nat \ {0}]  BY <1>2 DEF TypeOK
    <3>2. \A g \in scan[s].hide : g.rule \in Rules /\ g.signal \in Nat  BY <1>2 DEF Scan
    <3>3. \A i \in 1 .. Len(hidden) : m + i \in Nat \ {0} /\ hidden[i].rule \in Rules
      BY <1>3, <1>4, <1>5, <3>2
    <3> QED  BY <1>9, <3>1, <3>2, <3>3
  <2>2. scan' \in [Scanners -> Scan]  BY <1>2, <1>9, IdleIsScan DEF TypeOK
  <2> QED  BY <1>2, <1>7, <1>8, <1>9, <2>1, <2>2 DEF TypeOK
<1>14. scan'[s] = NoScan /\ \A t \in Scanners \ {s} : scan'[t] = NoScan
  <2>1. scan[s].at # "idle"  BY DEF CommitScan
  <2> QED  BY <1>2, <1>9, <2>1 DEF OneAtATime, TypeOK
<1>15. OneAtATime' /\ ScopesGiven'
  BY <1>9, <1>14, IdleIsScan DEF ScanInv, OneAtATime, ScopesGiven
<1> HIDE DEF given
<1>16. OneOpenSignalPerKey'
  <2> SUFFICES ASSUME NEW i \in SignalIds', NEW j \in SignalIds',
                      signals'[i].key = signals'[j].key,
                      signals'[i].status \in {"new", "tasked"},
                      signals'[j].status \in {"new", "tasked"}
               PROVE  i = j
    BY DEF OneOpenSignalPerKey
  <2>1. \A k \in 1 .. n : signals'[k].status \in {"new", "tasked"} =>
                            k \in Live(s) /\ signals'[k].key \in scan[s].open
    <3> SUFFICES ASSUME NEW k \in 1 .. n, signals'[k].status \in {"new", "tasked"}
                 PROVE  k \in Live(s) /\ signals'[k].key \in scan[s].open
      OBVIOUS
    <3>1. k \in Live(s)  BY <1>3, <1>7 DEF Live, Open, OpenStatuses
    <3>2. scan[s].at # "idle"  BY DEF CommitScan
    <3> QED  BY <1>2, <1>7, <3>1, <3>2 DEF Reading, ReadingOpen
  <2>2. \A k \in 1 .. Len(raised) : signals'[n + k].key \notin scan[s].open
    BY <1>2, <1>4, <1>7 DEF Reading, ReadingOpen
  <2>3. \A k \in SignalIds' : signals'[k].status \in {"new", "tasked"} =>
           \/ k \in 1 .. n
           \/ \E l \in 1 .. Len(raised) : k = n + l
    <3> SUFFICES ASSUME NEW k \in SignalIds', signals'[k].status \in {"new", "tasked"}
                 PROVE  k \in 1 .. n \/ \E l \in 1 .. Len(raised) : k = n + l
      OBVIOUS
    <3>1. \A l \in 1 .. Len(hidden) : signals'[m + l].status = "suppressed"  BY <1>7, Zenon
    <3>2. \A l \in 1 .. Len(hidden) : k # m + l  BY <3>1, Zenon
    <3> QED  BY <1>10, <3>2, Zenon
  <2>4. CASE i \in 1 .. n /\ j \in 1 .. n
    <3>1. signals[i].key = signals[j].key  BY <1>7, <2>4
    <3>2. i \in Live(s) /\ j \in Live(s)  BY <2>1, <2>4
    <3> QED  BY <1>2, <3>1, <3>2, Zenon DEF Reading, ReadingOpen
  <2>5. CASE i \notin 1 .. n /\ j \notin 1 .. n
    <3>1. PICK k \in 1 .. Len(raised) : i = n + k  BY <2>3, <2>5
    <3>2. PICK l \in 1 .. Len(raised) : j = n + l  BY <2>3, <2>5
    <3>3. raised[k] = raised[l]  BY <1>7, <3>1, <3>2
    <3> QED  BY <1>4, <3>1, <3>2, <3>3
  <2> QED  BY <2>1, <2>2, <2>3, <2>4, <2>5
<1>17. OneTaskPerSignal'
  <2>1. \A t \in 1 .. u : /\ tasks'[t].signal = tasks[t].signal
                          /\ tasks'[t].signal \in 1 .. n
                          /\ tasks'[t].signal \notin scan[s].assign
    BY <1>2, <1>3, <1>8 DEF ScanInv, OneTaskPerSignal, Reading, ReadingTasks
  <2>2. \A t \in TaskIds' : tasks'[t].signal \in SignalIds' /\
                            signals'[tasks'[t].signal].status \in {"tasked", "dismissed"}
    <3> SUFFICES ASSUME NEW t \in TaskIds'
                 PROVE  /\ tasks'[t].signal \in SignalIds'
                        /\ signals'[tasks'[t].signal].status \in {"tasked", "dismissed"}
      OBVIOUS
    <3>1. CASE t \in 1 .. u
      <4>1. signals[tasks[t].signal].status \in {"tasked", "dismissed"}
        BY <1>3, <3>1 DEF ScanInv, OneTaskPerSignal
      <4> QED  BY <1>3, <1>4, <1>5, <1>7, <2>1, <3>1, <4>1, SMTT(60)
    <3>2. ASSUME NEW k \in 1 .. Len(assigned), t = u + k
          PROVE  /\ tasks'[t].signal \in SignalIds'
                 /\ signals'[tasks'[t].signal].status \in {"tasked", "dismissed"}
      <4>1. tasks'[t].signal = assigned[k]  BY <1>8, <3>2
      <4>2. assigned[k] \in 1 .. n /\ assigned[k] \in scan[s].assign  BY <1>6
      <4> QED  BY <1>3, <1>4, <1>5, <1>7, <4>1, <4>2
    <3>3. ASSUME NEW k \in 1 .. given, t = v + k
          PROVE  /\ tasks'[t].signal \in SignalIds'
                 /\ signals'[tasks'[t].signal].status \in {"tasked", "dismissed"}
      <4>1. tasks'[t].signal = n + k  BY <1>8, <3>3
      <4>2. s \in Taskers /\ k \in 1 .. Len(raised)
        BY <1>4, <1>11 DEF given
      <4> QED  BY <1>3, <1>4, <1>5, <1>7, <4>1, <4>2
    <3> QED  BY <1>12, <3>1, <3>2, <3>3
  <2>3. \A t, r \in TaskIds' : tasks'[t].signal = tasks'[r].signal => t = r
    <3> SUFFICES ASSUME NEW t \in TaskIds', NEW r \in TaskIds',
                        tasks'[t].signal = tasks'[r].signal
                 PROVE  t = r
      OBVIOUS
    <3>1. \A k \in 1 .. Len(assigned) : tasks'[u + k].signal \in scan[s].assign
                                        /\ tasks'[u + k].signal \in 1 .. n
      BY <1>6, <1>8
    <3>2. \A k \in 1 .. given : tasks'[v + k].signal \notin 1 .. n
      <4> SUFFICES ASSUME NEW k \in 1 .. given PROVE tasks'[v + k].signal \notin 1 .. n
        OBVIOUS
      <4>1. tasks'[v + k].signal = n + k  BY <1>8
      <4>2. n + k \notin 1 .. n  BY <1>3, <1>11
      <4> QED  BY <4>1, <4>2
    <3>3. CASE t \in 1 .. u
      <4>1. r \in 1 .. u  BY <1>12, <2>1, <3>1, <3>2, <3>3
      <4> QED  BY <1>3, <2>1, <3>3, <4>1 DEF ScanInv, OneTaskPerSignal
    <3>4. ASSUME NEW k \in 1 .. Len(assigned), t = u + k PROVE t = r
      <4>1. r \notin 1 .. u  BY <2>1, <3>1, <3>4
      <4>2. PICK l \in 1 .. Len(assigned) : r = u + l
        BY <1>12, <3>1, <3>2, <3>4, <4>1
      <4>3. assigned[k] = assigned[l]  BY <1>8, <3>4, <4>2
      <4> QED  BY <1>6, <3>4, <4>2, <4>3
    <3>5. ASSUME NEW k \in 1 .. given, t = v + k PROVE t = r
      <4>1. r \notin 1 .. u  BY <2>1, <3>2, <3>5
      <4>2. PICK l \in 1 .. given : r = v + l
        BY <1>12, <3>1, <3>2, <3>5, <4>1
      <4>3. n + k = n + l  BY <1>8, <3>5, <4>2
      <4>4. k = l  BY <1>3, <1>11, <4>3
      <4> QED  BY <3>5, <4>2, <4>4, Zenon
    <3> QED  BY <1>12, <3>3, <3>4, <3>5
  <2>4. \A i \in SignalIds' : signals'[i].status = "tasked" =>
                                \E t \in TaskIds' : tasks'[t].signal = i
    <3> SUFFICES ASSUME NEW i \in SignalIds', signals'[i].status = "tasked"
                 PROVE  \E t \in TaskIds' : tasks'[t].signal = i
      OBVIOUS
    <3>1. CASE i \in 1 .. n /\ i \in scan[s].assign
      <4>1. PICK k \in 1 .. Len(assigned) : assigned[k] = i  BY <1>6, <3>1
      <4>2. u + k \in TaskIds'  BY <1>20, <4>1, Zenon
      <4> QED  BY <1>8, <4>1, <4>2
    <3>2. CASE i \in 1 .. n /\ i \notin scan[s].assign
      <4>1. signals[i].status = "tasked"  BY <1>7, <3>2
      <4>2. PICK t \in TaskIds : tasks[t].signal = i
        BY <1>3, <3>2, <4>1 DEF ScanInv, OneTaskPerSignal
      <4>3. t \in TaskIds'  BY <1>3, <1>20, <4>2, Zenon
      <4> QED  BY <1>3, <2>1, <4>2, <4>3
    <3>3. ASSUME NEW k \in 1 .. Len(raised), i = n + k
          PROVE  \E t \in TaskIds' : tasks'[t].signal = i
      <4>1. s \in Taskers  BY <1>7, <3>3
      <4>2. given = Len(raised)  BY <1>11, <4>1
      <4>3. k \in 1 .. given  BY <3>3, <4>2
      <4>4. v + k \in TaskIds'  BY <1>20, <4>3, Zenon
      <4> QED  BY <1>8, <3>3, <4>3, <4>4
    <3>4. ASSUME NEW k \in 1 .. Len(hidden), i = m + k PROVE FALSE
      <4>1. signals'[m + k].status = "suppressed"  BY <1>7, Zenon
      <4> QED  BY <3>4, <4>1
    <3> QED  BY <1>10, <3>1, <3>2, <3>3, <3>4, Zenon
  <2> QED  BY <2>2, <2>3, <2>4 DEF OneTaskPerSignal
<1>18. SuppressionIsExplained'
  <2> SUFFICES ASSUME NEW i \in SignalIds', signals'[i].status = "suppressed"
               PROVE  /\ \E h \in hits' : /\ h.signal = i
                                         /\ CoveredAfter(h.rule, signals'[i].key)
                                         /\ rules'[h.rule] \in {"active", "closed"}
                      /\ \A j \in SignalIds' : /\ signals'[j].status = "suppressed"
                                               /\ signals'[j].key = signals'[i].key
                                               => j = i
    BY DEF SuppressionIsExplained, EverCovered, CoveredAfter
  <2>1. \A k \in 1 .. n : signals'[k].status = "suppressed" =>
                            signals[k].status = "suppressed" /\ signals'[k].key = signals[k].key
    BY <1>7
  <2>2. \A k \in 1 .. Len(hidden), j \in 1 .. n :
           signals'[m + k].key = signals'[j].key => signals'[j].status # "suppressed"
    <3> SUFFICES ASSUME NEW k \in 1 .. Len(hidden), NEW j \in 1 .. n,
                        signals'[m + k].key = signals'[j].key
                 PROVE  signals'[j].status # "suppressed"
      OBVIOUS
    <3>1. hidden[k].key = signals[j].key  BY <1>7
    <3>2. \A o \in SignalIds : signals[o].key = hidden[k].key => signals[o].status # "suppressed"
      BY <1>2, <1>5 DEF Reading, ReadingHidden
    <3> QED  BY <1>3, <2>1, <3>1, <3>2
  <2>3. \A k, l \in 1 .. Len(hidden) : signals'[m + k].key = signals'[m + l].key => k = l
    <3> SUFFICES ASSUME NEW k \in 1 .. Len(hidden), NEW l \in 1 .. Len(hidden),
                        signals'[m + k].key = signals'[m + l].key
                 PROVE  k = l
      OBVIOUS
    <3>1. hidden[k].key = hidden[l].key  BY <1>7
    <3>2. hidden[k] = hidden[l]  BY <1>2, <1>5, <3>1 DEF Reading, ReadingHidden
    <3> QED  BY <1>5, <3>2
  <2>4. \A k \in SignalIds' : signals'[k].status = "suppressed" =>
           \/ k \in 1 .. n
           \/ \E l \in 1 .. Len(hidden) : k = m + l
    <3> SUFFICES ASSUME NEW k \in SignalIds', signals'[k].status = "suppressed"
                 PROVE  k \in 1 .. n \/ \E l \in 1 .. Len(hidden) : k = m + l
      OBVIOUS
    <3>1. \A l \in 1 .. Len(raised) : signals'[n + l].status # "suppressed"
      <4>1. \A l \in 1 .. Len(raised) :
               signals'[n + l].status = IF s \in Taskers THEN "tasked" ELSE "new"
        BY <1>7, Zenon
      <4> QED  BY <4>1
    <3>2. \A l \in 1 .. Len(raised) : k # n + l  BY <3>1, Zenon
    <3> QED  BY <1>10, <3>2, Zenon
  <2>5. CASE i \in 1 .. n
    <3>1. PICK h \in hits : /\ h.signal = i
                           /\ EverCovered(h.rule, signals[i].key)
                           /\ rules[h.rule] \in {"active", "closed"}
      BY <1>3, <2>1, <2>5 DEF ScanInv, SuppressionIsExplained
    <3>2. \A j \in 1 .. n : /\ signals'[j].status = "suppressed"
                            /\ signals'[j].key = signals'[i].key
                            => j = i
      BY <1>3, <2>1, <2>5 DEF ScanInv, SuppressionIsExplained
    <3>3. signals'[i].key = signals[i].key  BY <1>7, <2>5
    <3>4. /\ h \in hits' /\ rules' = rules
          /\ EverCovered(h.rule, signals[i].key) => CoveredAfter(h.rule, signals'[i].key)
      BY <1>9, <3>3 DEF EverCovered, CoveredAfter
    <3>5. \A j \in SignalIds' : /\ signals'[j].status = "suppressed"
                                     /\ signals'[j].key = signals'[i].key
                                     => j = i
      <4> SUFFICES ASSUME NEW j \in SignalIds', signals'[j].status = "suppressed",
                          signals'[j].key = signals'[i].key
                   PROVE  j = i
        OBVIOUS
      <4>1. CASE j \in 1 .. n  BY <3>2, <4>1, Zenon
      <4>2. ASSUME NEW l \in 1 .. Len(hidden), j = m + l PROVE j = i
        BY <2>2, <2>5, <4>2, Zenon
      <4> QED  BY <2>4, <4>1, <4>2, Zenon
    <3> QED  BY <3>1, <3>3, <3>4, <3>5, Zenon
  <2>6. ASSUME NEW k \in 1 .. Len(hidden), i = m + k
        PROVE  /\ \E h \in hits' : /\ h.signal = i
                                   /\ CoveredAfter(h.rule, signals'[i].key)
                                   /\ rules'[h.rule] \in {"active", "closed"}
               /\ \A j \in SignalIds' : /\ signals'[j].status = "suppressed"
                                        /\ signals'[j].key = signals'[i].key
                                        => j = i
    <3> DEFINE hit == [rule |-> hidden[k].rule, signal |-> m + k]
    <3>1. hit \in hits'  BY <1>9
    <3>2. EverCovered(hidden[k].rule, hidden[k].key) /\ rules[hidden[k].rule] \in {"active", "closed"}
      <4>1. PICK p \in scan[s].active : p.rule = hidden[k].rule /\ hidden[k].key \in p.keys
        BY <1>2, <1>5 DEF Reading, ReadingHidden
      <4> QED  BY <1>2, <4>1 DEF Reading, ReadingHidden
    <3>3. /\ hit.signal = i /\ CoveredAfter(hit.rule, signals'[i].key)
          /\ rules'[hit.rule] \in {"active", "closed"}
      BY <1>7, <1>9, <2>6, <3>2 DEF EverCovered, CoveredAfter
    <3>4. \A j \in SignalIds' : /\ signals'[j].status = "suppressed"
                                /\ signals'[j].key = signals'[i].key
                                => j = i
      BY <2>2, <2>3, <2>4, <2>6
    <3> HIDE DEF hit
    <3> QED  BY <3>1, <3>3, <3>4
  <2> QED  BY <2>4, <2>5, <2>6
<1>19. \A t \in Scanners : Reading(t)'  BY <1>14, <1>16, IdleReading
<1> QED  BY <1>13, <1>15, <1>16, <1>17, <1>18, <1>19 DEF ScanInv

------------------------------------------------------------------------------
(* What users do meanwhile.                                                  *)

\* A request dismisses signals at most, moves tasks, makes rules active or closed and adds to
\* the scopes they had: nothing that a scan has read becomes untrue.
LEMMA RequestKeeps ==
  ASSUME ScanInv, TypeOK', scan' = scan, hits' = hits,
         SignalIds' = SignalIds, TaskIds' = TaskIds,
         \A i \in SignalIds : /\ signals'[i].key = signals[i].key
                              /\ signals'[i].status \in {signals[i].status, "dismissed"},
         \A t \in TaskIds : tasks'[t].signal = tasks[t].signal,
         \A r \in Rules : rules[r] \in {"active", "closed"} => rules'[r] \in {"active", "closed"},
         \A r \in Rules, k \in Keys : EverCovered(r, k) => CoveredAfter(r, k),
         ScopesGiven'
  PROVE  ScanInv'
<1>1. OneAtATime'  BY DEF ScanInv, OneAtATime
<1>2. OneOpenSignalPerKey'  BY DEF ScanInv, OneOpenSignalPerKey
<1>3. OneTaskPerSignal'
  <2>1. \A t, u \in TaskIds' : tasks'[t].signal = tasks'[u].signal => t = u
    BY DEF ScanInv, OneTaskPerSignal
  <2>2. \A t \in TaskIds' : /\ tasks'[t].signal \in SignalIds'
                            /\ signals'[tasks'[t].signal].status \in {"tasked", "dismissed"}
    BY DEF ScanInv, OneTaskPerSignal
  <2>3. \A i \in SignalIds' : signals'[i].status = "tasked" =>
                                \E t \in TaskIds' : tasks'[t].signal = i
    BY DEF ScanInv, OneTaskPerSignal
  <2> QED  BY <2>1, <2>2, <2>3 DEF OneTaskPerSignal
<1>4. SuppressionIsExplained'
  <2> SUFFICES ASSUME NEW i \in SignalIds, signals'[i].status = "suppressed"
               PROVE  /\ \E h \in hits' : /\ h.signal = i
                                         /\ CoveredAfter(h.rule, signals'[i].key)
                                         /\ rules'[h.rule] \in {"active", "closed"}
                      /\ \A j \in SignalIds' : /\ signals'[j].status = "suppressed"
                                               /\ signals'[j].key = signals'[i].key
                                               => j = i
    BY DEF SuppressionIsExplained, EverCovered, CoveredAfter
  <2>1. signals[i].status = "suppressed"  OBVIOUS
  <2>2. PICK h \in hits : /\ h.signal = i /\ EverCovered(h.rule, signals[i].key)
                         /\ rules[h.rule] \in {"active", "closed"}
    BY <2>1 DEF ScanInv, SuppressionIsExplained
  <2>3. h.rule \in Rules /\ signals[i].key \in Keys
    BY <2>2, Ids DEF ScanInv, TypeOK, Signal
  <2>5. CoveredAfter(h.rule, signals[i].key)  BY <2>2, <2>3
  <2>4. \A j \in SignalIds' : /\ signals'[j].status = "suppressed"
                              /\ signals'[j].key = signals'[i].key
                              => j = i
    BY <2>1 DEF ScanInv, SuppressionIsExplained
  <2> QED  BY <2>2, <2>3, <2>4, <2>5 DEF EverCovered, CoveredAfter
<1>5. ASSUME NEW s \in Scanners PROVE Reading(s)'
  <2>1. Reading(s) /\ scan[s] \in Scan  BY DEF ScanInv, TypeOK
  <2>2. Live(s)' \subseteq Live(s)  BY DEF Live, Open, OpenStatuses
  <2>3. ReadingOpen(s)'
    <3>1. Live(s) \subseteq SignalIds  BY <2>1 DEF Reading, ReadingOpen, Live
    <3> QED  BY <2>1, <2>2, <3>1 DEF Reading, ReadingOpen
  <2>4. ReadingTasks(s)'  BY <2>1 DEF Reading, ReadingTasks
  <2>5. ReadingHidden(s)'
    <3>1. \A p \in scan[s].active : /\ rules'[p.rule] \in {"active", "closed"}
                                    /\ \A k \in p.keys : CoveredAfter(p.rule, k)
      <4> SUFFICES ASSUME NEW p \in scan[s].active, NEW k \in p.keys
                   PROVE  CoveredAfter(p.rule, k)
        BY <2>1 DEF Reading, ReadingHidden, Scan
      <4>1. p.rule \in Rules /\ k \in Keys  BY <2>1 DEF Scan
      <4>2. EverCovered(p.rule, k)  BY <2>1 DEF Reading, ReadingHidden
      <4> QED  BY <4>1, <4>2
    <3>2. \A i \in SignalIds' : signals'[i].status = "suppressed" =>
             signals[i].status = "suppressed" /\ signals'[i].key = signals[i].key
      OBVIOUS
    <3> QED  BY <2>1, <3>1, <3>2 DEF Reading, ReadingHidden, EverCovered, CoveredAfter
  <2> QED  BY <2>3, <2>4, <2>5 DEF Reading
<1> QED  BY <1>1, <1>2, <1>3, <1>4, <1>5 DEF ScanInv

\* A dismissal, a moved task and a rule are such requests.
LEMMA DismissKeeps ==
  ASSUME ScanInv, NEW i \in SignalIds, Dismiss(i)
  PROVE  ScanInv'
<1>1. TypeOK /\ signals \in Seq(Signal) /\ tasks \in Seq(Task)
  BY DEF ScanInv, TypeOK
<1>2. /\ signals' = [signals EXCEPT ![i].status = "dismissed"]
      /\ tasks' = [t \in TaskIds |->
                     IF tasks[t].signal = i /\ tasks[t].status \in {"open", "in_progress"}
                     THEN [tasks[t] EXCEPT !.status = "dismissed"] ELSE tasks[t]]
      /\ dismissals < MaxDismissals /\ dismissals' = dismissals + 1
      /\ scan' = scan /\ hits' = hits
  BY DEF Dismiss, DismissedWithTask
<1>3. \A j \in SignalIds : /\ signals[j] \in Signal
                           /\ signals'[j] = IF j = i THEN [signals[j] EXCEPT !.status = "dismissed"]
                                            ELSE signals[j]
  BY <1>1, <1>2, Ids DEF SignalIds
<1>4. \A j \in SignalIds : /\ signals'[j] \in Signal /\ signals'[j].key = signals[j].key
                           /\ signals'[j].status = IF j = i THEN "dismissed" ELSE signals[j].status
  BY <1>3 DEF Signal
<1>5. \A t \in TaskIds : tasks'[t] \in Task /\ tasks'[t].signal = tasks[t].signal
  BY <1>1, <1>2, Ids DEF Task
<1>6. SignalIds' = SignalIds /\ TaskIds' = TaskIds
  BY <1>2 DEF SignalIds, TaskIds
<1>7. signals' \in Seq(Signal)
  <2>1. signals' = [j \in 1 .. Len(signals) |-> signals'[j]]
    BY <1>1, <1>2, Ids DEF SignalIds
  <2>2. SignalIds = 1 .. Len(signals) /\ Len(signals) \in Nat  BY <1>1, Ids
  <2>3. \A j \in 1 .. Len(signals) : signals'[j] \in Signal  BY <1>4, <2>2
  <2> QED  BY <2>1, <2>2, <2>3
<1>8. tasks' \in Seq(Task)
  <2>1. tasks' = [t \in 1 .. Len(tasks) |-> tasks'[t]]
    BY <1>1, <1>2, Ids DEF TaskIds
  <2> QED  BY <1>1, <1>5, <2>1, Ids
<1>9. /\ rules' \in [Rules -> {"none", "pending", "active", "closed"}]
      /\ \A r \in Rules : rules[r] \in {"active", "closed"} => rules'[r] \in {"active", "closed"}
      /\ scopes' \in [Rules -> [now : SUBSET Keys, ever : SUBSET Keys]] /\ ScopesGiven'
      /\ \A r \in Rules, k \in Keys : EverCovered(r, k) => CoveredAfter(r, k)
  <2>0. ScopesGiven  BY DEF ScanInv
  <2>1. CASE UNCHANGED <<rules, scopes>>
    BY <1>1, <2>0, <2>1 DEF TypeOK, ScopesGiven, EverCovered, CoveredAfter
  <2>2. CASE Proposed(i)
    <3>1. PICK r \in Rules, keys \in Scopes, status \in {"pending", "active"} :
             /\ rules[r] = "none" /\ rules' = [rules EXCEPT ![r] = status]
             /\ scopes' = [scopes EXCEPT ![r] = [now |-> keys, ever |-> keys]]
      BY <2>2 DEF Proposed
    <3>2. scopes[r].ever = {} /\ keys \subseteq Keys
      BY <2>0, <3>1, DetectionAssumption DEF ScopesGiven
    <3>3. /\ scopes' \in [Rules -> [now : SUBSET Keys, ever : SUBSET Keys]]
          /\ scopes'[r] = [now |-> keys, ever |-> keys]
          /\ \A q \in Rules \ {r} : scopes'[q] = scopes[q]
      BY <1>1, <3>1, <3>2 DEF TypeOK
    <3>4. ScopesGiven'  BY <1>1, <2>0, <3>1, <3>2, <3>3 DEF TypeOK, ScopesGiven
    <3>5. \A q \in Rules, k \in Keys : EverCovered(q, k) => CoveredAfter(q, k)
      BY <3>2, <3>3 DEF EverCovered, CoveredAfter
    <3> QED  BY <1>1, <3>1, <3>3, <3>4, <3>5 DEF TypeOK
  <2> QED  BY <2>1, <2>2 DEF Dismiss
<1>10. dismissals' \in 0 .. MaxDismissals
  BY <1>1, <1>2, DetectionAssumption DEF TypeOK
<1>11. TypeOK'  BY <1>1, <1>2, <1>7, <1>8, <1>9, <1>10 DEF TypeOK
<1> QED  BY <1>2, <1>4, <1>5, <1>6, <1>9, <1>11, RequestKeeps

LEMMA UpdateTaskKeeps ==
  ASSUME ScanInv, NEW t \in TaskIds, NEW status \in TaskMoves,
         UpdateTask(t, status)
  PROVE  ScanInv'
<1>1. TypeOK /\ tasks \in Seq(Task)  BY DEF ScanInv, TypeOK
<1>2. tasks' = [tasks EXCEPT ![t].status = status]
      /\ UNCHANGED <<signals, hits, rules, scopes, dismissals, scan>>
  BY DEF UpdateTask
<1>3. \A u \in TaskIds : tasks'[u] = IF u = t THEN [tasks[u] EXCEPT !.status = status] ELSE tasks[u]
  BY <1>1, <1>2, Ids DEF TaskIds
<1>4. status \in {"in_progress", "done", "dismissed"}
  BY DetectionAssumption
<1>5. \A u \in TaskIds : tasks'[u] \in Task /\ tasks'[u].signal = tasks[u].signal
  BY <1>1, <1>3, <1>4, Ids DEF Task
<1>6. SignalIds' = SignalIds /\ TaskIds' = TaskIds
  BY <1>2 DEF SignalIds, TaskIds
<1>7. tasks' \in Seq(Task)
  <2>1. tasks' = [u \in 1 .. Len(tasks) |-> tasks'[u]]
    BY <1>1, <1>2, Ids DEF TaskIds
  <2> QED  BY <1>1, <1>5, <2>1, Ids
<1>8. TypeOK'  BY <1>1, <1>2, <1>7 DEF TypeOK
<1>9. /\ ScopesGiven'
      /\ \A r \in Rules, k \in Keys : EverCovered(r, k) => CoveredAfter(r, k)
  BY <1>2 DEF ScanInv, ScopesGiven, EverCovered, CoveredAfter
<1> QED  BY <1>2, <1>5, <1>6, <1>8, <1>9, RequestKeeps

LEMMA RuleKeeps ==
  ASSUME ScanInv, NEW r \in Rules, ApplyRule(r) \/ CloseRule(r)
  PROVE  ScanInv'
<1>1. PICK status \in {"active", "closed"} :
         /\ rules[r] # "none" /\ rules' = [rules EXCEPT ![r] = status]
         /\ UNCHANGED <<signals, tasks, hits, scopes, dismissals, scan>>
  BY DEF ApplyRule, CloseRule
<1>2. TypeOK  BY DEF ScanInv
<1>3. TypeOK'  BY <1>1, <1>2 DEF TypeOK
<1>4. \A q \in Rules : rules[q] \in {"active", "closed"} => rules'[q] \in {"active", "closed"}
  BY <1>1, <1>2 DEF TypeOK
<1>5. SignalIds' = SignalIds /\ TaskIds' = TaskIds
  BY <1>1 DEF SignalIds, TaskIds
<1>6. /\ ScopesGiven'
      /\ \A q \in Rules, k \in Keys : EverCovered(q, k) => CoveredAfter(q, k)
  BY <1>1, <1>2 DEF ScanInv, TypeOK, ScopesGiven, EverCovered, CoveredAfter
<1> QED  BY <1>1, <1>3, <1>4, <1>5, <1>6, RequestKeeps

\* What the old scope covered stays known.
LEMMA EditKeeps ==
  ASSUME ScanInv, NEW r \in Rules, NEW keys \in Scopes, EditScope(r, keys)
  PROVE  ScanInv'
<1>1. /\ rules[r] # "none" /\ scopes' = [scopes EXCEPT ![r] = [now |-> keys, ever |-> @.ever \cup keys]]
      /\ UNCHANGED <<signals, tasks, hits, rules, dismissals, scan>>
  BY DEF EditScope
<1>2. TypeOK /\ scopes[r].ever \subseteq Keys /\ keys \subseteq Keys
  BY DetectionAssumption DEF ScanInv, TypeOK
<1>4. /\ scopes' \in [Rules -> [now : SUBSET Keys, ever : SUBSET Keys]]
      /\ scopes'[r] = [now |-> keys, ever |-> scopes[r].ever \cup keys]
      /\ \A q \in Rules \ {r} : scopes'[q] = scopes[q]
  BY <1>1, <1>2 DEF TypeOK
<1>5. TypeOK'  BY <1>1, <1>2, <1>4 DEF TypeOK
<1>6. ScopesGiven'  BY <1>1, <1>4 DEF ScanInv, ScopesGiven
<1>7. \A q \in Rules, k \in Keys : EverCovered(q, k) => CoveredAfter(q, k)
  BY <1>4 DEF EverCovered, CoveredAfter
<1>8. SignalIds' = SignalIds /\ TaskIds' = TaskIds
  BY <1>1 DEF SignalIds, TaskIds
<1> QED  BY <1>1, <1>5, <1>6, <1>7, <1>8, RequestKeeps

\* So does every step.
LEMMA ScanNextKeeps ==
  ASSUME ScanInv, [ScanNext]_scanVars
  PROVE  ScanInv'
<1>1. ASSUME NEW s \in Scanners, Begin(s) PROVE ScanInv'  BY <1>1, BeginKeeps
<1>2. ASSUME NEW s \in Scanners, Detect(s) PROVE ScanInv'  BY <1>2, DetectKeeps
<1>3. ASSUME NEW s \in Scanners, ReadNew(s) PROVE ScanInv'  BY <1>3, ReadNewKeeps
<1>4. ASSUME NEW s \in Scanners, CommitScan(s) PROVE ScanInv'  BY <1>4, CommitKeeps
<1>5. ASSUME NEW s \in Scanners, AbortScan(s) PROVE ScanInv'  BY <1>5, AbortKeeps
<1>6. ASSUME NEW i \in SignalIds, Dismiss(i) PROVE ScanInv'  BY <1>6, DismissKeeps
<1>7. ASSUME NEW t \in TaskIds, NEW status \in TaskMoves, UpdateTask(t, status) PROVE ScanInv'
  BY <1>7, UpdateTaskKeeps
<1>8. ASSUME NEW r \in Rules, ApplyRule(r) \/ CloseRule(r) PROVE ScanInv'
  BY <1>8, RuleKeeps
<1>9. CASE UNCHANGED scanVars
  <2>1. UNCHANGED <<signals, tasks, hits, rules, scopes, dismissals, scan>>  BY <1>9 DEF scanVars
  <2>2. SignalIds' = SignalIds /\ TaskIds' = TaskIds
    BY <2>1 DEF SignalIds, TaskIds
  <2>3. TypeOK'  BY <2>1 DEF ScanInv, TypeOK
  <2>4. /\ ScopesGiven'
        /\ \A r \in Rules, k \in Keys : EverCovered(r, k) => CoveredAfter(r, k)
    BY <2>1 DEF ScanInv, ScopesGiven, EverCovered, CoveredAfter
  <2> QED  BY <2>1, <2>2, <2>3, <2>4, RequestKeeps
<1>10. ASSUME NEW r \in Rules, NEW keys \in Scopes, EditScope(r, keys) PROVE ScanInv'
  BY <1>10, EditKeeps
<1> QED
  BY <1>1, <1>2, <1>3, <1>4, <1>5, <1>6, <1>7, <1>8, <1>9, <1>10 DEF ScanNext

------------------------------------------------------------------------------
(* Theorems.                                                                 *)

\* Every reachable state satisfies the inductive invariant.
THEOREM ScanInvariant == ScanSpec => []ScanInv
<1>1. ScanInit => ScanInv  BY InitEstablishes
<1>2. ScanInv /\ [ScanNext]_scanVars => ScanInv'  BY ScanNextKeeps
<1> QED  BY <1>1, <1>2, PTL DEF ScanSpec

\* Every table holds rows of its schema, whatever scans and requests interleave.
THEOREM TablesTyped == ScanSpec => []TypeOK
<1>1. ScanInv => TypeOK  BY DEF ScanInv
<1> QED  BY <1>1, ScanInvariant, PTL

\* "Never duplicates open signals": a scan writes at its end what was new at its beginning, and
\* yet no two open signals are about the same thing.
THEOREM OneOpen == ScanSpec => []OneOpenSignalPerKey
<1>1. ScanInv => OneOpenSignalPerKey  BY DEF ScanInv
<1> QED  BY <1>1, ScanInvariant, PTL

\* Every signal that counts as assigned has exactly one task, also when it is dismissed while
\* the scan that assigns it narrates.
THEOREM OneTask == ScanSpec => []OneTaskPerSignal
<1>1. ScanInv => OneTaskPerSignal  BY DEF ScanInv
<1> QED  BY <1>1, ScanInvariant, PTL

\* What is hidden is hidden in one row and explained by a rule that covers it or did before an
\* edit, also when the rule is edited or undone while the scan that applies it runs.
THEOREM Suppression == ScanSpec => []SuppressionIsExplained
<1>1. ScanInv => SuppressionIsExplained  BY DEF ScanInv
<1> QED  BY <1>1, ScanInvariant, PTL

=============================================================================
