--------------------------------- MODULE Ingest ---------------------------------
(***************************************************************************)
(* Imports of the ERP's exports (valeri_api/ingest).  An import runs in    *)
(* one transaction: it loads the files, then upserts customers, articles   *)
(* and invoices, in that order, by their natural keys.  For each of the    *)
(* three it reads the tables into dictionaries and then writes; between a  *)
(* read and a write another import may commit.  Nothing serialises two     *)
(* imports but row locks and the unique indexes, and there is none on the  *)
(* code of a customer.                                                     *)
(*                                                                         *)
(* The session writes only columns that changed.  A DELETE given as text   *)
(* is sent at once, before the UPDATE of its invoice, and deletes the      *)
(* lines that were committed when the statement began, also if it then has *)
(* to wait for another import that deletes them.                           *)
(***************************************************************************)
EXTENDS Integers, SequencesExt

CONSTANTS
    Imports,    \* the runs of the pipeline
    Exports,    \* what the ERP may export: customers, articles, invoices and lines, as read
    Aliases,    \* core.article_alias: the article that an old code stands for now
    Rounded,    \* numeric(14, 2): what is stored of the amounts with more decimals
    None

Blank == ""                     \* an empty cell, or one that does not parse
Tables == {"legal_entity", "customer", "customer_rep", "article", "invoice", "invoice_line"}
Files == {"kupci", "artikli", "fakture", "stavke"}
Phases == <<"customers", "articles", "invoices">>
Keyed == {"customer", "article", "invoice"}      \* the tables with a natural key

ASSUME IngestAssumption ==
    /\ \A e \in Exports :
          DOMAIN e = Files /\ \A f \in Files : Len(e[f]) \in Nat /\ DOMAIN e[f] = 1 .. Len(e[f])
    /\ None \notin Imports
    /\ \A amount \in DOMAIN Rounded : Rounded[amount] \notin DOMAIN Rounded

VARIABLES
    core,        \* the committed rows of each table
    tx,          \* the transaction of each import
    overlaps,    \* history: the pairs of imports that ran at the same time
    last         \* history: the newest import that committed

vars == <<core, tx, overlaps, last>>

NoRows == [t \in Tables |-> {}]
Idle == [pc |-> "idle", export |-> None, phase |-> 0, seen |-> NoRows, ins |-> NoRows,
         upd |-> {}, del |-> {}, doomed |-> {}, report |-> None]
Running(i) == tx[i].pc \in {"reading", "writing", "waiting", "written"}

------------------------------------------------------------------------------
(* The session: what it reads, and what it writes of what the pass wants.    *)

\* A row with the columns that an import has updated.
Patched(row, updates) ==
    LET mine == {u \in updates : u.id = row.id}
    IN  [f \in DOMAIN row |-> IF \E u \in mine : f \in u.columns
                              THEN (CHOOSE u \in mine : f \in u.columns).row[f] ELSE row[f]]
Visible(i, t) ==
    {Patched(row, tx[i].upd) : row \in {r \in core[t] : r.id \notin tx[i].del}} \cup tx[i].ins[t]

\* The dictionaries: one row for each natural key, whichever the SELECT gives last.
OnePerKey(rows) ==
    {chosen \in SUBSET rows :
        /\ {r.key : r \in chosen} = {r.key : r \in rows}
        /\ \A r, s \in chosen : r.key = s.key => r = s}
Reads(i) ==
    {[t \in Tables |-> IF t = "customer" THEN customers ELSE Visible(i, t)] :
        customers \in OnePerKey(Visible(i, "customer"))}

\* The flush rounds a total; until then the session has it as it was parsed.
InCents(amount) == IF amount \in DOMAIN Rounded THEN Rounded[amount] ELSE amount
Stored(row) == IF "total" \in DOMAIN row THEN [row EXCEPT !.total = InCents(row.total)] ELSE row

Update(old, new) == [id |-> old.id, row |-> Stored(new),
                     columns |-> {f \in DOMAIN old : old[f] # new[f]}]
RowById(rows, id) == CHOOSE r \in rows : r.id = id
Has(rows, id) == \E r \in rows : r.id = id

------------------------------------------------------------------------------
(* The passes over the staged rows.                                          *)

Replaced(rows, row) == {r \in rows : r.id # row.id} \cup {row}
Find(rows, key) == {r \in rows : r.key = key}
OrKeep(cell, value) == IF cell = Blank THEN value ELSE cell
The(rows) == CHOOSE r \in rows : TRUE

\* Legal entities by tax id: a new one, or the name that the export spells.
UpsertEntity(i, want, row) ==
    LET known == Find(want["legal_entity"], row.jib)
        name == OrKeep(row.naziv_pravnog_lica, row.naziv)
    IN  IF row.jib = Blank THEN want
        ELSE [want EXCEPT !["legal_entity"] =
                IF known = {} THEN @ \cup {[id |-> <<i, "jib", row.jib, 0>>, key |-> row.jib,
                                           name |-> name]}
                ELSE Replaced(@, [The(known) EXCEPT !.name = OrKeep(row.naziv_pravnog_lica, @)])]

\* A customer without a tax id gets a legal entity of its own; a blank name is kept, a blank
\* segment is cleared, and a representative is only given to a customer that has none.
NeverAssigned(want, id) == FALSE             \* mutant: every import assigns
Assigned(want, id) == \E r \in want["customer_rep"] : r.customer = id
UpsertCustomer(i, want, row) ==
    LET entity == IF row.jib = Blank THEN {} ELSE Find(want["legal_entity"], row.jib)
        known == Find(want["customer"], row.sifra)
        own == [id |-> <<i, "own", row.sifra, 0>>, key |-> Blank,
                name |-> OrKeep(row.naziv, row.sifra)]
        customer ==
            IF known = {}
            THEN [id |-> <<i, "customer", row.sifra, 0>>, key |-> row.sifra,
                  name |-> OrKeep(row.naziv, row.sifra), segment |-> row.segment,
                  entity |-> IF entity = {} THEN own.id ELSE The(entity).id]
            ELSE [The(known) EXCEPT
                    !.name = OrKeep(row.naziv, @), !.segment = row.segment,
                    !.entity = IF entity = {} THEN @ ELSE The(entity).id]
    IN  IF row.sifra = Blank THEN want
        ELSE [want EXCEPT
                !["customer"] = Replaced(@, customer),
                !["legal_entity"] = IF known = {} /\ entity = {} THEN @ \cup {own} ELSE @,
                !["customer_rep"] =
                    IF row.komercijalista = Blank \/ Assigned(want, customer.id) THEN @
                    ELSE @ \cup {[id |-> <<i, "rep", row.sifra, 0>>, customer |-> customer.id,
                                  rep |-> row.komercijalista]}]

\* The first row of a code counts.
UpsertArticle(i, acc, row) ==
    LET known == Find(acc.want["article"], row.sifra)
        article ==
            IF known = {} THEN [id |-> <<i, "article", row.sifra, 0>>, key |-> row.sifra,
                                name |-> OrKeep(row.naziv, row.sifra), active |-> row.aktivan]
            ELSE [The(known) EXCEPT !.name = OrKeep(row.naziv, @), !.active = row.aktivan]
    IN  IF row.sifra = Blank \/ row.sifra \in acc.codes THEN acc
        ELSE [want |-> [acc.want EXCEPT !["article"] = Replaced(@, article)],
              codes |-> acc.codes \cup {row.sifra}]

\* The staged lines of an invoice whose article is known, by its code or by an alias.
NoAliases(want, code) == {r.id : r \in Find(want["article"], code)}
                                                       \* mutant: an alias is not followed
ArticleIds(want, code) ==
    LET direct == Find(want["article"], code)
    IN  {r.id : r \in IF direct = {} /\ code \in DOMAIN Aliases
                      THEN Find(want["article"], Aliases[code]) ELSE direct}
Lines(i, invoice, want, stavke) ==
    LET good == {k \in DOMAIN stavke :
                    /\ stavke[k].broj_fakture = invoice.key /\ stavke[k].iznos # Blank
                    /\ ArticleIds(want, stavke[k].sifra_artikla) # {}}
    IN  {[id |-> <<i, "line", invoice.key, k>>, invoice |-> invoice.id, by |-> i,
          article |-> The(ArticleIds(want, stavke[k].sifra_artikla)),
          amount |-> InCents(stavke[k].iznos)] : k \in good}
KeepAll(want, id) == want["invoice_line"]              \* mutant: the old lines stay
WithoutLines(want, id) == {l \in want["invoice_line"] : l.invoice # id}

\* An invoice whose header did not change keeps its lines; one that did has them replaced.  The
\* total that was read has two decimals, the one of the export as many as it has.
UpsertInvoice(i, acc, row, stavke) ==
    LET want == acc.want
        known == Find(want["invoice"], row.broj_fakture)
        customer == {c.id : c \in Find(want["customer"], row.sifra_kupca)}
        header == [id |-> IF known = {} THEN <<i, "invoice", row.broj_fakture, 0>>
                                        ELSE The(known).id,
                   key |-> row.broj_fakture, customer |-> The(customer), total |-> row.ukupno]
        lines == Lines(i, header, want, stavke)
    IN  IF row.broj_fakture = Blank \/ row.ukupno = Blank \/ customer = {} THEN acc
        ELSE IF row.broj_fakture \in acc.fresh THEN [acc EXCEPT !.clash = TRUE]
        ELSE IF header \in known THEN acc
        ELSE [acc EXCEPT
                !.want["invoice"] = Replaced(@, header),
                !.want["invoice_line"] = WithoutLines(want, header.id) \cup lines,
                !.fresh = @ \cup (IF known = {} THEN {row.broj_fakture} ELSE {})]

\* Each pass takes the rows in the order of the file: the entities of all customers first.
UpsertEntities(i, seen, kupci) ==
    FoldLeft(LAMBDA want, row : UpsertEntity(i, want, row), seen, kupci)
UpsertCustomers(i, seen, kupci) ==
    FoldLeft(LAMBDA want, row : UpsertCustomer(i, want, row), UpsertEntities(i, seen, kupci), kupci)
UpsertArticles(i, seen, artikli) ==
    FoldLeft(LAMBDA acc, row : UpsertArticle(i, acc, row), [want |-> seen, codes |-> {}],
             artikli).want
UpsertInvoices(i, seen, fakture, stavke) ==
    FoldLeft(LAMBDA acc, row : UpsertInvoice(i, acc, row, stavke),
             [want |-> seen, fresh |-> {}, clash |-> FALSE], fakture)

\* What the pass of the phase makes of the rows it has read.
After(i, seen) ==
    LET export == tx[i].export
    IN  CASE Phases[tx[i].phase] = "customers" ->
                [want |-> UpsertCustomers(i, seen, export.kupci), clash |-> FALSE]
          [] Phases[tx[i].phase] = "articles" ->
                [want |-> UpsertArticles(i, seen, export.artikli), clash |-> FALSE]
          [] Phases[tx[i].phase] = "invoices" ->
                UpsertInvoices(i, seen, export.fakture, export.stavke)

------------------------------------------------------------------------------
(* The quality report, of the staged rows and of what was committed before.  *)

\* _orphan_lines: no such invoice in the export, or an article that nobody knows.  An empty
\* cell is staged as NULL, which joins with nothing.
Invoices(e) == {row.broj_fakture : row \in ToSet(e.fakture)} \ {Blank}
KnownArticles(e) ==
    ({row.sifra : row \in ToSet(e.artikli)} \cup {a.key : a \in core["article"]}
        \cup DOMAIN Aliases) \ {Blank}
OrphanLines(e) ==
    {k \in DOMAIN e.stavke : \/ e.stavke[k].broj_fakture \notin Invoices(e)
                            \/ e.stavke[k].sifra_artikla \notin KnownArticles(e)}

\* _duplicate_codes: codes with more than one name
DuplicateCodes(rows) ==
    {row.sifra : row \in {r \in ToSet(rows) : /\ Blank \notin {r.sifra, r.naziv}
        /\ \E s \in ToSet(rows) : s.sifra = r.sifra /\ s.naziv \notin {Blank, r.naziv}}}

\* _renamed_articles: another name than the committed one
RenamedArticles(e) ==
    {a.key : a \in {b \in core["article"] : \E row \in ToSet(e.artikli) :
                       row.sifra = b.key /\ row.naziv \notin {Blank, b.name}}}

\* _missing_segments
MissingSegments(e) == {row.sifra : row \in {r \in ToSet(e.kupci) : r.segment = Blank}}

Report(e) ==
    [orphans |-> OrphanLines(e), renamed |-> RenamedArticles(e),
     duplicates |-> DuplicateCodes(e.artikli), unsegmented |-> MissingSegments(e)]

------------------------------------------------------------------------------
(* The actions.                                                              *)

\* create_import_run, load_to_staging and build_quality_report
Start(i, e) ==
    /\ tx[i].pc = "idle"
    /\ tx' = [tx EXCEPT ![i] = [Idle EXCEPT !.pc = "reading", !.export = e, !.phase = 1,
                                            !.report = Report(e)]]
    /\ overlaps' = overlaps \cup {{i, j} : j \in {k \in Imports \ {i} : Running(k)}}
    /\ UNCHANGED <<core, last>>

Read(i) ==
    /\ tx[i].pc = "reading"
    /\ \E seen \in Reads(i) : tx' = [tx EXCEPT ![i].pc = "writing", ![i].seen = seen]
    /\ UNCHANGED <<core, overlaps, last>>

\* The lines that a DELETE sees: those of now, or of when it began to wait.
Now(i) == [tx[i].seen EXCEPT !["invoice_line"] =
              IF tx[i].pc = "waiting" THEN tx[i].doomed ELSE Visible(i, "invoice_line")]
Want(i) == After(i, Now(i)).want

Inserted(i, t) == {Stored(row) : row \in {r \in Want(i)[t] : ~Has(Now(i)[t], r.id)}}
Updated(i) ==
    {u \in UNION {{Update(RowById(Now(i)[t], row.id), row) :
                      row \in {r \in Want(i)[t] : Has(Now(i)[t], r.id)}} : t \in Tables} :
        u.columns # {}}
Deleted(i) == {l.id : l \in Now(i)["invoice_line"] \ Want(i)["invoice_line"]}

\* The locks of another import: rows it has written, keys it has inserted.
WithoutInvoiceIndex == {"legal_entity", "article"}      \* mutant: the number is not unique
UniquelyIndexed == {"legal_entity", "article", "invoice"}
Taken(i, t) == {row.key : row \in {r \in Inserted(i, t) : r.key # Blank}}
LockedBy(i, j) ==
    /\ i # j /\ Running(j)
    /\ \/ {u.id : u \in Updated(i)} \cap {u.id : u \in tx[j].upd} # {}
       \/ Deleted(i) \cap tx[j].del # {}
       \/ \E t \in UniquelyIndexed : Taken(i, t) \cap {row.key : row \in tx[j].ins[t]} # {}
Locked(i) == \E j \in Imports : LockedBy(i, j)

\* A statement that waits to delete lines has its snapshot of them.
Wait(i) ==
    /\ tx[i].pc = "writing"
    /\ \E j \in Imports : j # i /\ Running(j) /\ Deleted(i) \cap tx[j].del # {}
    /\ tx' = [tx EXCEPT ![i].pc = "waiting", ![i].doomed = Visible(i, "invoice_line")]
    /\ UNCHANGED <<core, overlaps, last>>

\* A number that is twice in the export, or that another import has committed meanwhile.
Violates(i) ==
    \/ After(i, Now(i)).clash
    \/ \E t \in UniquelyIndexed : Taken(i, t) \cap {row.key : row \in core[t]} # {}

Write(i) ==
    /\ tx[i].pc \in {"writing", "waiting"}
    /\ ~Locked(i) /\ ~Violates(i)
    /\ tx' = [tx EXCEPT ![i] = [tx[i] EXCEPT
                !.ins = [t \in Tables |-> @[t] \cup Inserted(i, t)],
                !.upd = @ \cup Updated(i),
                !.del = @ \cup Deleted(i),
                !.seen = NoRows, !.doomed = {},
                !.phase = IF @ < Len(Phases) THEN @ + 1 ELSE @,
                !.pc = IF tx[i].phase < Len(Phases) THEN "reading" ELSE "written"]]
    /\ UNCHANGED <<core, overlaps, last>>

\* recompute_all, the run's report and the commit.
Commit(i) ==
    /\ tx[i].pc = "written"
    /\ core' = [t \in Tables |->
                   {Patched(row, tx[i].upd) : row \in {r \in core[t] : r.id \notin tx[i].del}}
                      \cup tx[i].ins[t]]
    /\ tx' = [tx EXCEPT ![i] = [Idle EXCEPT !.pc = "completed", !.export = tx[i].export]]
    /\ last' = i
    /\ UNCHANGED overlaps

\* Any error rolls everything back: a violated index, a deadlock, a file, a crash.  Nothing
\* of the run is left, not even its row.
Abort(i) ==
    /\ Running(i)
    /\ tx' = [tx EXCEPT ![i] = [Idle EXCEPT !.pc = "failed"]]
    /\ UNCHANGED <<core, overlaps, last>>

------------------------------------------------------------------------------

\* The seeds: the articles that old codes stand for.
Init ==
    /\ core = [NoRows EXCEPT !["article"] =
                  {[id |-> <<None, "article", Aliases[c], 0>>, key |-> Aliases[c],
                    name |-> Aliases[c], active |-> "da"] : c \in DOMAIN Aliases}]
    /\ tx = [i \in Imports |-> Idle]
    /\ overlaps = {}
    /\ last = None

Next ==
    \E i \in Imports :
        \/ \E e \in Exports : Start(i, e)
        \/ Read(i) \/ Wait(i) \/ Write(i) \/ Commit(i) \/ Abort(i)

Spec == Init /\ [][Next]_vars

------------------------------------------------------------------------------
(* Properties.                                                               *)

\* A natural key has one row: always for articles and invoices, and for customers unless the
\* imports that created the rows ran at the same time (upsert.py:78-86, no index on the code).
OneRowPerKey ==
    \A t \in Keyed : \A r, s \in core[t] :
        r.key = s.key /\ r # s => t = "customer" /\ {r.id[1], s.id[1]} \in overlaps

\* The lines of an invoice come from one import, whatever was imported in which order, unless
\* two imports that replaced them ran at the same time (upsert.py:307-321).
LinesOfOneImport ==
    \A l, m \in core["invoice_line"] :
        l.invoice = m.invoice /\ l.by # m.by => {l.by, m.by} \in overlaps

\* What an import drops or overwrites can be seen in its report (upsert.py:166, 184, 346-348,
\* quality.py:120-165):
\*  - a line that can be read, and whose invoice this import creates or replaces or the export
\*    does not have, is inserted or listed;
\*  - an article that gets another name is listed, and so is one of whose two names the import
\*    ignores one, unless another import ran at the same time;
\*  - a customer that loses its segment is listed.
LinesAreFlagged(i) ==
    LET export == tx[i].export
        done == {row.key : row \in tx[i].ins["invoice"]}
                    \cup {u.row.key : u \in {v \in tx[i].upd : v.id[2] = "invoice"}}
    IN  \A k \in DOMAIN export.stavke :
           LET line == export.stavke[k]
           IN  line.iznos # Blank /\ (line.broj_fakture \in done \/ line.broj_fakture \notin Invoices(export))
               => \/ k \in tx[i].report.orphans
                  \/ Has(tx[i].ins["invoice_line"], <<i, "line", line.broj_fakture, k>>)
Alone(i) == \A pair \in overlaps : i \notin pair
NamesAreFlagged(i) ==
    /\ \A u \in tx[i].upd : u.id[2] = "article" /\ "name" \in u.columns =>
          u.row.key \in tx[i].report.renamed
    /\ \A row \in ToSet(tx[i].export.artikli) : Blank \notin {row.sifra, row.naziv} =>
          \/ row.sifra \in tx[i].report.duplicates
          \/ \E a \in Visible(i, "article") : a.key = row.sifra /\ a.name = row.naziv
          \/ \E first \in ToSet(tx[i].export.artikli) :
                first.sifra = row.sifra /\ first.naziv = Blank
SegmentsAreFlagged(i) ==
    \A u \in tx[i].upd : u.id[2] = "customer" /\ "segment" \in u.columns =>
        u.row.segment # Blank \/ u.row.key \in tx[i].report.unsegmented
ReportShowsWhatIsLost ==
    \A i \in Imports : tx[i].pc = "written" =>
        /\ LinesAreFlagged(i) /\ SegmentsAreFlagged(i)
        /\ Alone(i) => NamesAreFlagged(i)

\* Importing the same export again touches nothing (upsert.py:4-6), if no two imports ever ran
\* at the same time, no invoice is in the export twice - then its lines are replaced by equal
\* ones each time - and no total has more than two decimals.
InExportOnce(e) ==
    \A j, k \in DOMAIN e.fakture :
        e.fakture[j].broj_fakture = e.fakture[k].broj_fakture => j = k
Consistent(e) ==
    InExportOnce(e) /\ \A k \in DOMAIN e.fakture : e.fakture[k].ukupno \notin DOMAIN Rounded
Reimported(i) ==
    /\ tx[i].pc = "written" /\ tx'[i].pc = "completed"
    /\ overlaps = {} /\ last # None /\ tx[last].export = tx[i].export
ReimportTouchesNothing ==
    [][\A i \in Imports : Reimported(i) /\ Consistent(tx[i].export) => core' = core]_vars
=============================================================================
