-------------------------------- MODULE Detection --------------------------------
(***************************************************************************)
(* Scans and signals (valeri_api/scanner, rules/engine.py, signals).  A    *)
(* scan is one long transaction under READ COMMITTED: it loads the active  *)
(* suppressions and the open signals, runs the detection rules, turns new  *)
(* signals into tasks - one language-model call each - and commits.  The   *)
(* API requests that commit meanwhile are single steps here, because each  *)
(* of them touches a row in one statement: a row that the scan has already *)
(* updated makes the request wait for the scan's commit.                   *)
(*                                                                         *)
(* Two scans never overlap: both begin with recompute_all, whose ANALYZE   *)
(* keeps its self-conflicting table locks until the transaction ends.      *)
(***************************************************************************)
EXTENDS Naturals, Sequences, FiniteSets, Functions

CONSTANTS
    Keys,          \* what a detection is about: its dedup_key
    Standing,      \* the keys whose data make every scan detect them
    Rules,         \* learned suppression rules
    Scopes,        \* the keys a rule's scope may match, see find_suppression
    Taskers,       \* the scans that create tasks: the daily and the weekly job
    Admins,        \* the scans that do not: POST /admin/scan
    TaskMoves,     \* the statuses a representative sets on a task
    MaxDismissals  \* bound on dismissals

Scanners == Taskers \cup Admins

ASSUME DetectionAssumption ==
    /\ IsFiniteSet(Keys) /\ Standing \subseteq Keys
    /\ Scopes \subseteq SUBSET Keys
    /\ TaskMoves \subseteq {"in_progress", "done", "dismissed"}
    /\ MaxDismissals \in Nat

VARIABLES
    signals,     \* app.signal: the key and the status of each, by id
    tasks,       \* app.task: the signal and the status of each, by id
    hits,        \* app.suppression_hit, without multiplicity
    rules,       \* app.learned_rule.status
    scopes,      \* app.learned_rule.scope: the keys it matches `now`, and those it `ever` did,
                 \* with the old scopes that the decisions on its edits record
    dismissals,  \* how many signals were dismissed, bounds the model
    scan         \* per scanner: how far its transaction is, and what it has read

scanVars == <<signals, tasks, hits, rules, scopes, dismissals, scan>>

SignalIds == DOMAIN signals
TaskIds == DOMAIN tasks

NoScan == [at |-> "idle", active |-> {}, open |-> {}, raise |-> {}, hide |-> {}, assign |-> {}]

------------------------------------------------------------------------------
(* The scan.                                                                 *)

\* open_signal_keys: the statuses that make a re-detection a duplicate.
OpenAndDismissed == {"new", "tasked", "dismissed"}   \* mutant: dismissed counts as open
OnlyNew == {"new"}                                   \* mutant: tasked does not count
OpenStatuses == {"new", "tasked"}

Open(i) == signals[i].status \in OpenStatuses
OpenKeys == {signals[i].key : i \in {j \in SignalIds : Open(j)}}

\* recompute_all: the lock that keeps the scans apart.
MayStart(s) == \A t \in Scanners : scan[t].at = "idle"

\* learned_rule.scope, as the keys it matches now.  A scope that names a category matches by the
\* segment of the customer, which an import may change: here what a scope matches stays.
ScopeOf(r) == scopes[r].now

\* run_scan up to the rules: the suppressions, with the scopes they have now, and the open
\* keys are read once.
Begin(s) ==
    /\ MayStart(s)
    /\ scan' = [scan EXCEPT ![s] =
                   [at |-> "loaded", open |-> OpenKeys,
                    active |-> {[rule |-> r, keys |-> ScopeOf(r)] :
                                  r \in {q \in Rules : rules[q] = "active"}},
                    raise |-> {}, hide |-> {}, assign |-> {}]]
    /\ UNCHANGED <<signals, tasks, hits, rules, scopes, dismissals>>

\* find_suppression: any of the loaded rules that match, in no particular order.
Matching(s, k) == {p.rule : p \in {q \in scan[s].active : k \in q.keys}}

\* suppressed_signal_keys, read by insert_signals: the persisted suppressed signal of a
\* key, 0 when it has none yet.
SuppressedSignal(k) ==
    LET ids == {i \in SignalIds : signals[i].key = k /\ signals[i].status = "suppressed"} IN
    IF ids = {} THEN {0} ELSE ids

\* insert_signals over what the rules detected: an open key is a duplicate; a key that a
\* loaded rule covers is hidden, with a hit; the rest become new signals.
Detect(s) ==
    /\ scan[s].at = "loaded"
    /\ \E found \in {f \in SUBSET Keys : Standing \subseteq f} :
         LET fresh == found \ scan[s].open
             covered == {k \in fresh : Matching(s, k) # {}}
         IN \E rule \in [covered -> Rules], signal \in [covered -> {0} \cup SignalIds] :
              /\ \A k \in covered : rule[k] \in Matching(s, k) /\ signal[k] \in SuppressedSignal(k)
              /\ scan' = [scan EXCEPT ![s] = [scan[s] EXCEPT
                            !.at = "detected", !.raise = fresh \ covered,
                            !.hide = {[key |-> k, rule |-> rule[k], signal |-> signal[k]] :
                                        k \in covered}]]
    /\ UNCHANGED <<signals, tasks, hits, rules, scopes, dismissals>>

\* create_tasks_from_signals reads the new signals, its own aside, before narrating the
\* first of them.
AllOpen(i) == Open(i)                                \* mutant: the tasked ones again
Unassigned(i) == signals[i].status = "new"
ReadNew(s) ==
    /\ s \in Taskers
    /\ scan[s].at = "detected"
    /\ scan' = [scan EXCEPT ![s] = [scan[s] EXCEPT
                   !.at = "assigning", !.assign = {i \in SignalIds : Unassigned(i)}]]
    /\ UNCHANGED <<signals, tasks, hits, rules, scopes, dismissals>>

\* Ids are given out in some order.
Orders(S) == Bijection(1..Cardinality(S), S)

\* The commit: every signal of `assign` is flipped to tasked whatever its status has become,
\* the raised ones are inserted, tasked already when this scan creates tasks.
CommitScan(s) ==
    /\ scan[s].at = IF s \in Taskers THEN "assigning" ELSE "detected"
    /\ \E raised \in Orders(scan[s].raise),
          hidden \in Orders({h \in scan[s].hide : h.signal = 0}),
          assigned \in Orders(scan[s].assign) :
         LET flipped == [i \in SignalIds |-> IF i \in scan[s].assign
                                            THEN [signals[i] EXCEPT !.status = "tasked"]
                                            ELSE signals[i]]
             n == Len(signals)
             m == n + Len(raised)
         IN /\ signals' = flipped
                 \o [i \in DOMAIN raised |->
                       [key |-> raised[i], status |-> IF s \in Taskers THEN "tasked" ELSE "new"]]
                 \o [i \in DOMAIN hidden |-> [key |-> hidden[i].key, status |-> "suppressed"]]
            /\ tasks' = tasks
                 \o [i \in DOMAIN assigned |-> [signal |-> assigned[i], status |-> "open"]]
                 \o IF s \in Taskers
                    THEN [i \in DOMAIN raised |-> [signal |-> n + i, status |-> "open"]]
                    ELSE <<>>
            /\ hits' = hits
                 \cup {[rule |-> h.rule, signal |-> h.signal] :
                         h \in {g \in scan[s].hide : g.signal # 0}}
                 \cup {[rule |-> hidden[i].rule, signal |-> m + i] : i \in DOMAIN hidden}
    /\ scan' = [scan EXCEPT ![s] = NoScan]
    /\ UNCHANGED <<rules, scopes, dismissals>>

\* An exception or a crash rolls the transaction back.
AbortScan(s) ==
    /\ scan[s].at # "idle"
    /\ scan' = [scan EXCEPT ![s] = NoScan]
    /\ UNCHANGED <<signals, tasks, hits, rules, scopes, dismissals>>

------------------------------------------------------------------------------
(* What users do meanwhile.                                                  *)

\* _dismiss_signal_and_task: whatever the signal's status is, and its task too if nobody is
\* done with it.
DismissedWithTask(i) ==
    /\ signals' = [signals EXCEPT ![i].status = "dismissed"]
    /\ tasks' = [t \in TaskIds |->
                   IF tasks[t].signal = i /\ tasks[t].status \in {"open", "in_progress"}
                   THEN [tasks[t] EXCEPT !.status = "dismissed"] ELSE tasks[t]]

\* propose_from_dismissal: the proposal becomes a rule that is pending or applied at once.
Proposed(i) ==
    \E r \in Rules, keys \in Scopes, status \in {"pending", "active"} :
        /\ rules[r] = "none"
        /\ signals[i].key \in keys
        /\ rules' = [rules EXCEPT ![r] = status]
        /\ scopes' = [scopes EXCEPT ![r] = [now |-> keys, ever |-> keys]]

\* dismiss_signal: a proposal that fails leaves the dismissal standing.
Dismiss(i) ==
    /\ dismissals < MaxDismissals
    /\ dismissals' = dismissals + 1
    /\ DismissedWithTask(i)
    /\ UNCHANGED <<rules, scopes>> \/ Proposed(i)
    /\ UNCHANGED <<hits, scan>>

\* update_status has no guard on the status a task is in.
UpdateTask(t, status) ==
    /\ tasks' = [tasks EXCEPT ![t].status = status]
    /\ UNCHANGED <<signals, hits, rules, scopes, dismissals, scan>>

\* apply_rule, and undo_rule or expire_rules; LearnedRules has the whole of them.
ApplyRule(r) ==
    /\ rules[r] = "pending"
    /\ rules' = [rules EXCEPT ![r] = "active"]
    /\ UNCHANGED <<signals, tasks, hits, scopes, dismissals, scan>>

CloseRule(r) ==
    /\ rules[r] \in {"pending", "active"}
    /\ rules' = [rules EXCEPT ![r] = "closed"]
    /\ UNCHANGED <<signals, tasks, hits, scopes, dismissals, scan>>

\* mutant: the decision does not record the old scope
EditForgets(r, keys) ==
    /\ rules[r] \in {"pending", "active"}
    /\ scopes' = [scopes EXCEPT ![r] = [now |-> keys, ever |-> keys]]
    /\ UNCHANGED <<signals, tasks, hits, rules, dismissals, scan>>
\* edit_scope: any scope for any other; what the old one hid stays hidden.
EditScope(r, keys) ==
    /\ rules[r] \in {"pending", "active"}
    /\ scopes' = [scopes EXCEPT ![r] = [now |-> keys, ever |-> @.ever \cup keys]]
    /\ UNCHANGED <<signals, tasks, hits, rules, dismissals, scan>>

------------------------------------------------------------------------------
ScanInit ==
    /\ signals = <<>>
    /\ tasks = <<>>
    /\ hits = {}
    /\ rules = [r \in Rules |-> "none"]
    /\ scopes = [r \in Rules |-> [now |-> {}, ever |-> {}]]
    /\ dismissals = 0
    /\ scan = [s \in Scanners |-> NoScan]

ScanNext ==
    \/ \E s \in Scanners : Begin(s)
    \/ \E s \in Scanners : Detect(s)
    \/ \E s \in Scanners : ReadNew(s)
    \/ \E s \in Scanners : CommitScan(s)
    \/ \E s \in Scanners : AbortScan(s)
    \/ \E i \in SignalIds : Dismiss(i)
    \/ \E t \in TaskIds, status \in TaskMoves : UpdateTask(t, status)
    \/ \E r \in Rules : ApplyRule(r)
    \/ \E r \in Rules : CloseRule(r)
    \/ \E r \in Rules, keys \in Scopes : EditScope(r, keys)

ScanSpec == ScanInit /\ [][ScanNext]_scanVars

\* The scheduler starts the jobs again and again and PostgreSQL queues them for the lock,
\* so no job waits forever; a scan goes on until it ends, and not every scan fails: a step
\* that jobs reach again and again is not cut off by an exception every time.
Fairness ==
    /\ \A s \in Taskers : /\ SF_scanVars(Begin(s)) /\ SF_scanVars(Detect(s))
                          /\ SF_scanVars(ReadNew(s)) /\ SF_scanVars(CommitScan(s))
    /\ \A s \in Admins : WF_scanVars(Detect(s) \/ CommitScan(s))

FairSpec == ScanSpec /\ Fairness
------------------------------------------------------------------------------
(* Properties.                                                               *)

Signal == [key : Keys, status : {"new", "tasked", "dismissed", "suppressed"}]
Task == [signal : Nat \ {0}, status : {"open", "in_progress", "done", "dismissed"}]
Scan == [at : {"idle", "loaded", "detected", "assigning"},
         active : SUBSET [rule : Rules, keys : SUBSET Keys], open : SUBSET Keys, raise : SUBSET Keys,
         hide : SUBSET [key : Keys, rule : Rules, signal : Nat],
         assign : SUBSET (Nat \ {0})]

\* Every table holds rows of its schema.
TypeOK ==
    /\ signals \in Seq(Signal)
    /\ tasks \in Seq(Task)
    /\ hits \subseteq [rule : Rules, signal : Nat \ {0}]
    /\ rules \in [Rules -> {"none", "pending", "active", "closed"}]
    /\ scopes \in [Rules -> [now : SUBSET Keys, ever : SUBSET Keys]]
    /\ dismissals \in 0..MaxDismissals
    /\ scan \in [Scanners -> Scan]

\* scan.py: "never duplicates open signals": no two open signals are about the same thing,
\* whatever is dismissed, re-detected or flipped while scans run.
OneOpenSignalPerKey ==
    \A i, j \in SignalIds :
      /\ signals[i].key = signals[j].key
      /\ signals[i].status \in {"new", "tasked"} /\ signals[j].status \in {"new", "tasked"}
      => i = j

\* "Every new signal becomes exactly one assigned task": a tasked signal has one task, no
\* signal has two, and those that are new or suppressed have none.
OneTaskPerSignal ==
    /\ \A t, u \in TaskIds : tasks[t].signal = tasks[u].signal => t = u
    /\ \A t \in TaskIds : /\ tasks[t].signal \in SignalIds
                          /\ signals[tasks[t].signal].status \in {"tasked", "dismissed"}
    /\ \A i \in SignalIds : signals[i].status = "tasked" => \E t \in TaskIds : tasks[t].signal = i

\* A scope that the rule has, or that the decision on an edit records as its old one.
EverCovered(r, k) == k \in scopes[r].ever

\* "Suppressed drafts are persisted and every suppression writes a hit": what is hidden is
\* kept in one row and explained by a hit, whose rule no longer waits for a human and covers
\* the thing, or did before its scope was edited.
SuppressionIsExplained ==
    \A i \in SignalIds : signals[i].status = "suppressed" =>
      /\ \E h \in hits : /\ h.signal = i
                         /\ EverCovered(h.rule, signals[i].key)
                         /\ rules[h.rule] \in {"active", "closed"}
      /\ \A j \in SignalIds : signals[j].status = "suppressed" /\ signals[j].key = signals[i].key
                                => j = i

\* What every scan detects is never lost: again and again it is on the board, as an open
\* signal or as a suppressed one, even after it was dismissed or its rule undone.
Handled(k) == \E i \in SignalIds : signals[i].key = k /\ signals[i].status # "dismissed"
StandingKeysAreHandled == \A k \in Standing : []<>Handled(k)
=============================================================================
