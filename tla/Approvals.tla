-------------------------------- MODULE Approvals --------------------------------
(***************************************************************************)
(* What waits for a human: the customer messages that the weekly report    *)
(* drafts (valeri_api/approvals, reports/builder.py) and the metrics that  *)
(* the chat drafts (valeri_api/capabilities).                              *)
(*                                                                         *)
(* A request reads a row, checks its status in Python and updates the row  *)
(* by its id: under READ COMMITTED, without a lock, a version or a         *)
(* condition on the UPDATE, other requests commit between the two.  From   *)
(* the first UPDATE to the commit a request holds the row's lock, so that  *)
(* what it writes is one step, and the decisions about a row are in the    *)
(* order in which their requests held its lock.  (Their ids may not be: a  *)
(* rejection or an undo of a metric inserts its decision before it has the *)
(* lock.)  The report is written in one transaction with the scan that     *)
(* precedes it, see Detection.                                             *)
(***************************************************************************)
EXTENDS Naturals, Sequences, FiniteSets, Functions

CONSTANTS
    Requests,      \* the API's request threads
    Names,         \* names of metrics
    MaxWeeks,      \* bound on the weeks
    MaxTasks,      \* bound on app.task
    MaxMetrics,    \* bound on app.capability_proposal
    MaxDecisions   \* bound on app.decision

ASSUME ApprovalsAssumption ==
    /\ MaxWeeks \in Nat /\ MaxTasks \in Nat /\ MaxMetrics \in Nat /\ MaxDecisions \in Nat

VARIABLES
    week,       \* the current week
    tasks,      \* app.task, those of the win-back rules: week of creation, still open?
    reports,    \* the weeks app.owner_report has a report for
    job,        \* the weekly job: the tasks it drafts messages for
    drafts,     \* app.approval: the task and the status of each message
    sent,       \* the messages that left through send_customer_message
    metrics,    \* app.capability_proposal: name, status and decision_id of each
    decisions,  \* app.decision, append-only, in the order of its commits
    request     \* what each request is about to do to which row (for a new metric: under
                \* which name), and the decision_id it has read there

scans == <<week, tasks, reports, job>>
vars == <<scans, drafts, sent, metrics, decisions, request>>

TaskIds == DOMAIN tasks
DraftIds == DOMAIN drafts
MetricIds == DOMAIN metrics
DecisionIds == DOMAIN decisions

------------------------------------------------------------------------------
(* The weekly report drafts messages.                                        *)

Waiting == [at |-> "idle", todo |-> {}, fresh |-> 0]

\* _DRAFT_CANDIDATES_SQL: this week's open tasks that have no message yet.
HasMessage(t) == \E d \in DraftIds : drafts[d].task = t
EveryOpenTask(t) == tasks[t].open                     \* mutant: those that have a message too
Candidate(t) == tasks[t].open /\ tasks[t].week = week /\ ~HasMessage(t)

\* A daily scan, or a weekly one that finds its report written, commits a task.  Scans
\* never overlap, see Detection.
NewTask ==
    /\ job.at = "idle"
    /\ Len(tasks) < MaxTasks
    /\ tasks' = Append(tasks, [week |-> week, open |-> TRUE])
    /\ UNCHANGED <<week, reports, job, drafts, sent, metrics, decisions, request>>

\* A representative works on a task.
TakeUp(t) ==
    /\ tasks' = [tasks EXCEPT ![t].open = FALSE]
    /\ UNCHANGED <<week, reports, job, drafts, sent, metrics, decisions, request>>

NextWeek ==
    /\ week < MaxWeeks
    /\ job.at = "idle"
    /\ week' = week + 1
    /\ UNCHANGED <<tasks, reports, job, drafts, sent, metrics, decisions, request>>

\* build_weekly_report: a week has one report.  generate_customer_drafts reads its
\* candidates, among them the tasks its own scan has made, before it writes any message.
BuildReport(fresh) ==
    /\ job.at = "idle"
    /\ week \notin reports
    /\ Len(tasks) + fresh <= MaxTasks
    /\ job' = [at |-> "drafting", todo |-> {t \in TaskIds : Candidate(t)}, fresh |-> fresh]
    /\ UNCHANGED <<week, tasks, reports, drafts, sent, metrics, decisions, request>>

\* ORDER BY t.id
InOrder(S) == {o \in Bijection(1..Cardinality(S), S) :
                 \A i, j \in DOMAIN o : i < j => o[i] < o[j]}

\* create_draft and submit_for_approval
Submitted(t) == [task |-> t, status |-> "pending_approval"]

\* The cycle commits, the new tasks of its scan and their messages included.
CommitReport ==
    /\ job.at = "drafting"
    /\ tasks' = tasks \o [i \in 1..job.fresh |-> [week |-> week, open |-> TRUE]]
    /\ \E order \in InOrder(job.todo \cup Len(tasks) + 1 .. Len(tasks) + job.fresh) :
         drafts' = drafts \o [i \in DOMAIN order |-> Submitted(order[i])]
    /\ reports' = reports \cup {week}
    /\ job' = Waiting
    /\ UNCHANGED <<week, sent, metrics, decisions, request>>

\* Any exception rolls the whole cycle back, the scan's tasks included.
AbortReport ==
    /\ job.at = "drafting"
    /\ job' = Waiting
    /\ UNCHANGED <<week, tasks, reports, drafts, sent, metrics, decisions, request>>

------------------------------------------------------------------------------
(* Requests: the row is read and its status checked.                         *)

Free == [op |-> "none", item |-> 0, decision |-> 0]

Read(p, op, i, d) ==
    /\ request[p] = Free
    /\ request' = [request EXCEPT ![p] = [op |-> op, item |-> i, decision |-> d]]
    /\ UNCHANGED <<scans, drafts, sent, metrics, decisions>>

\* decide: a deferral changes nothing.
Decidable(d) == drafts[d].status = "pending_approval"
ReadDraft(p, op, d) ==
    /\ op \in {"approve", "reject"}
    /\ Decidable(d)
    /\ Read(p, op, d, 0)

\* send_customer_message: the gate.
NotRejected(d) == drafts[d].status # "rejected"       \* mutant: the gate lets drafts pass
MaySend(d) == drafts[d].status = "approved"
ReadApproved(p, d) == MaySend(d) /\ Read(p, "send", d, 0)

\* create_proposal: refused when a metric of that name is active.
ReadNames(p, name) ==
    /\ \A m \in MetricIds : metrics[m].name = name => metrics[m].status # "active"
    /\ Read(p, "propose", name, 0)

\* approve_proposal and reject_proposal, undo_proposal; the row's decision_id is what an
\* undo will say it reverts.
Allowed(m, op) == metrics[m].status = IF op = "undo" THEN "active" ELSE "proposed"
ReadMetric(p, op, m) ==
    /\ op \in {"activate", "discard", "undo"}
    /\ Allowed(m, op)
    /\ Read(p, op, m, metrics[m].decision)

------------------------------------------------------------------------------
(* Requests: what they write is committed.                                   *)

\* log_decision
Log(kind, on, i, ref) ==
    /\ Len(decisions) < MaxDecisions
    /\ decisions' = Append(decisions, [kind |-> kind, on |-> on, item |-> i, ref |-> ref])

Done(p) == request' = [request EXCEPT ![p] = Free]

Swapped(p) == IF request[p].op = "approve" THEN "rejected" ELSE "approved"   \* mutant
Verdict(p) == IF request[p].op = "approve" THEN "approved" ELSE "rejected"
Decide(p) ==
    LET d == request[p].item IN
    /\ request[p].op \in {"approve", "reject"}
    /\ drafts' = [drafts EXCEPT ![d].status = Verdict(p)]
    /\ Log(IF request[p].op = "approve" THEN "approval" ELSE "rejection", "draft", d, 0)
    /\ Done(p)
    /\ UNCHANGED <<scans, sent, metrics>>

Send(p) ==
    LET d == request[p].item IN
    /\ request[p].op = "send"
    /\ drafts' = [drafts EXCEPT ![d].status = "sent"]
    /\ sent' = sent \cup {d}
    /\ Done(p)
    /\ UNCHANGED <<scans, metrics, decisions>>

\* create_proposal: a draft is inert.
BornActive == "active"                                \* mutant: no human in between
Born == "proposed"
Propose(p) ==
    /\ request[p].op = "propose"
    /\ Len(metrics) < MaxMetrics
    /\ metrics' = Append(metrics, [name |-> request[p].item, status |-> Born, decision |-> 0])
    /\ Done(p)
    /\ UNCHANGED <<scans, drafts, sent, decisions>>

\* The row's status, its decision_id and the decision are written together.
Settle(p, op, status, kind, ref) ==
    LET m == request[p].item IN
    /\ request[p].op = op
    /\ metrics' = [metrics EXCEPT ![m].status = status, ![m].decision = Len(decisions) + 1]
    /\ Log(kind, "metric", m, ref)
    /\ Done(p)
    /\ UNCHANGED <<scans, drafts, sent>>

Activate(p) == Settle(p, "activate", "active", "approval", 0)
Discard(p) == Settle(p, "discard", "rejected", "rejection", 0)

ReadAfterLog(p) == Len(decisions) + 1                 \* mutant: decision_id read too late
Reverted(p) == request[p].decision
Deactivate(p) == Settle(p, "undo", "reverted", "undo", Reverted(p))

\* The SQL of a metric fails its validation, or the request fails: nothing is committed.
Refuse(p) ==
    /\ request[p] # Free
    /\ Done(p)
    /\ UNCHANGED <<scans, drafts, sent, metrics, decisions>>

------------------------------------------------------------------------------
Init ==
    /\ week = 1 /\ tasks = <<>> /\ reports = {} /\ job = Waiting
    /\ drafts = <<>> /\ sent = {} /\ metrics = <<>> /\ decisions = <<>>
    /\ request = [p \in Requests |-> Free]

Next == \/ NewTask
        \/ \E t \in TaskIds : TakeUp(t)
        \/ NextWeek
        \/ \E fresh \in {0, 1} : BuildReport(fresh)
        \/ CommitReport
        \/ AbortReport
        \/ \E p \in Requests, d \in DraftIds, op \in {"approve", "reject"} : ReadDraft(p, op, d)
        \/ \E p \in Requests, d \in DraftIds : ReadApproved(p, d)
        \/ \E p \in Requests, name \in Names : ReadNames(p, name)
        \/ \E p \in Requests, m \in MetricIds, op \in {"activate", "discard", "undo"} :
             ReadMetric(p, op, m)
        \/ \E p \in Requests : Decide(p)
        \/ \E p \in Requests : Send(p)
        \/ \E p \in Requests : Propose(p)
        \/ \E p \in Requests : Activate(p)
        \/ \E p \in Requests : Discard(p)
        \/ \E p \in Requests : Deactivate(p)
        \/ \E p \in Requests : Refuse(p)

Spec == Init /\ [][Next]_vars
------------------------------------------------------------------------------
(* Properties.                                                               *)

Draft == [task : Nat \ {0}, status : {"pending_approval", "approved", "rejected", "sent"}]
Metric == [name : Names, status : {"proposed", "active", "rejected", "reverted"}, decision : Nat]
Decision == [kind : {"approval", "rejection", "undo"}, on : {"draft", "metric"},
             item : Nat \ {0}, ref : Nat]
Request == [op : {"none", "approve", "reject", "send", "propose", "activate", "discard", "undo"},
            item : Names \cup Nat, decision : Nat]

\* Every table holds rows of its schema.
TypeOK ==
    /\ week \in Nat
    /\ tasks \in Seq([week : Nat, open : BOOLEAN])
    /\ reports \subseteq Nat
    /\ job \in [at : {"idle", "drafting"}, todo : SUBSET TaskIds, fresh : Nat]
    /\ drafts \in Seq(Draft)
    /\ sent \subseteq DraftIds
    /\ metrics \in Seq(Metric)
    /\ decisions \in Seq(Decision)
    /\ request \in [Requests -> Request]

\* The decisions about one row.
About(on, i) == {n \in DecisionIds : decisions[n].on = on /\ decisions[n].item = i}
Approved(on) == {decisions[n].item : n \in {k \in DecisionIds : decisions[k].kind = "approval"
                                                             /\ decisions[k].on = on}}

\* "No customer-facing item is ever sent without explicit human approval": the messages
\* implement the gate, also when requests overlap and the status a request has checked is
\* not the status the row has any more.
MessageGate == INSTANCE HumanGate WITH
    approved <- Approved("draft"), inEffect <- sent
MessagesAreGated == MessageGate!Spec

\* "A proposal is INERT until approved": so do the metrics, which an undo withdraws.
MetricGate == INSTANCE HumanGate WITH
    approved <- Approved("metric"), inEffect <- {m \in MetricIds : metrics[m].status = "active"}
MetricsAreGated == MetricGate!Spec

\* The status of a row is what the log says of it last, whoever overwrote whom: the owner
\* never finds a message approved, or a metric in force, whose last decision was to refuse.
Latest(on, i, n) == n \in About(on, i) /\ \A k \in About(on, i) : k <= n
DraftDecided(d) ==
    /\ drafts[d].status = "pending_approval" <=> About("draft", d) = {}
    /\ \A n \in DecisionIds : Latest("draft", d, n) =>
         CASE drafts[d].status = "approved" -> decisions[n].kind = "approval"
           [] drafts[d].status = "rejected" -> decisions[n].kind = "rejection"
           [] OTHER -> d \in sent
MetricDecided(m) ==
    /\ metrics[m].status = "proposed" <=> About("metric", m) = {}
    /\ \A n \in DecisionIds : Latest("metric", m, n) =>
         /\ metrics[m].decision = n
         /\ decisions[n].kind = CASE metrics[m].status = "active"   -> "approval"
                                  [] metrics[m].status = "rejected" -> "rejection"
                                  [] OTHER                          -> "undo"
StatusIsDecided ==
    /\ \A d \in DraftIds : DraftDecided(d)
    /\ \A m \in MetricIds : MetricDecided(m)

\* "A NEW undo decision (append-only)" refers to the approval that it takes back.
UndoRevertsAnApproval ==
    \A n \in DecisionIds : decisions[n].kind = "undo" =>
      /\ decisions[n].ref \in DecisionIds /\ decisions[n].ref < n
      /\ decisions[decisions[n].ref].kind = "approval"
      /\ decisions[decisions[n].ref].on = "metric"
      /\ decisions[decisions[n].ref].item = decisions[n].item

\* A customer is written to once about one task, however often reports are built, retried
\* after a failure, or cross a week.
OneMessagePerTask ==
    /\ \A d, e \in DraftIds : drafts[d].task = drafts[e].task => d = e
    /\ \A d \in DraftIds : drafts[d].task \in TaskIds
=============================================================================
