# VALERI in TLA+

VALERI watches a distributor's sales data. Deterministic rules detect signals (a
customer declines, an article was lost), signals become tasks for the sales
representatives, owners dismiss signals and thereby teach the system rules of its
own, a weekly report drafts messages to customers, an agent investigates
questions over several steps, and a chat answers over the same tools. The backend
(`src/apps/api/valeri_api`) is FastAPI and SQLAlchemy over PostgreSQL, with an
APScheduler worker beside it; the web client keeps no state of its own.

This directory holds TLA+ modules of the parts of the backend that have a state and
a protocol, the TLC configurations that check them, and proofs for TLAPS.

    tlc -workers 2 -config Approvals.cfg MCApprovals.tla    # a run
    tlapm Approvals_proofs.tla                              # the proofs of a module

`PROJECT.json` has the runs, the source lines of every definition, the hazards and
the findings. Paths below are relative to `src/apps/api/valeri_api`.

## How the program runs, and what a step is

Three facts of the code decide what is atomic.

* **One session per request or job** (`db.py:27-49`). It commits when the handler
  ends and rolls back on any exception, so a handler takes effect as a whole or not
  at all. The investigation agent is the exception: each node of its graph has a
  session of its own and LangGraph saves a checkpoint in yet another one.
* **READ COMMITTED, and no locks of the code's own.** There is no `FOR UPDATE`, no
  version column and no condition on the status in an `UPDATE`. A handler that reads
  a status, checks it in Python and then writes the row may write over a status it
  never saw. PostgreSQL's row locks order the writes, nothing orders a check with the
  write that depends on it.
* **Scans exclude each other by accident.** Both kinds of scan begin with
  `recompute_all` (`metrics/recompute.py:33-59`), whose `ANALYZE` holds a lock that
  conflicts with itself until the transaction ends.

| module | a step is | why that grain |
|---|---|---|
| `LearnedRules` | a whole transaction | the rules, the thresholds and the log change by long sequences of calls; overlap is left to a later module (see the plan) |
| `Detection` | a stage of the scan's transaction; a whole request | a scan lasts minutes, because it calls a language model once per task, and requests commit while it runs |
| `Approvals` | a request's read, then its commit; the weekly job's read, then its commit | the check of a status and the write it guards are what other requests come between |
| `Knowledge` | an answer's read, then its update; any other request, or a capture, whole | an answer updates what it found earlier, whatever has become of it |
| `Investigation` | one database transaction or one checkpoint of one node | the process may die, fail or meet a second answer between any two |
| `LlmCascade` | what the loop does between two answers of the gateway | a question waits only there; settings change meanwhile |
| `Narration` | the question, then the reply | one reply at a time; what matters is what is let through |
| `Chat` | a post's transaction from one call of the model to the next; its commit; its capture | two tabs or a retried request overlap at those calls |
| `Ingest` | an import's read of its dictionaries, then its writes, per kind of row; its commit | nothing but row locks and unique indexes orders two imports |
| `Crm` | a patch's read, then its commit; each of the five queries of the pipeline page | a patch decides from what it read; each query sees its own moment |

## Inventory

| component (directory) | state | operations | what is hard, and what makes it correct | module |
|---|---|---|---|---|
| learned rules, thresholds, decision log (`selfconfig`, `audit`, `api/settings.py`) | `app.learned_rule`, `app.rule_config`, `app.decision` | propose, auto-apply, confirm, undo, edit, keep, expire, audit, patch of a threshold | long sequences of legal calls: the log must explain every value in force, an undo must restore, an alarm is raised once and not repeated | `LearnedRules` |
| scan and signals (`scanner`, `rules/engine.py`, `signals`) | `app.signal`, `app.suppression_hit`, `app.task` | scan, suppress, create tasks, dismiss, status of a task | a long transaction works with what it read at its start: no duplicate, no lost pattern, one task per signal | `Detection` |
| investigation agent (`investigation`) | `app.investigation`, `app.investigation_step`, checkpoints | create, poll, run, interrupt, resume, fail | crashes, two answers, exceptions at any point: nothing happens without approval, every run settles | `Investigation` |
| approvals of customer messages (`approvals`, `reports/builder.py`) | `app.approval`, `app.owner_report`, `app.decision` | draft, approve, reject, defer, send | overlapping decisions and sendings; one message per task | `Approvals`, `HumanGate` |
| capability proposals (`capabilities`) | `app.capability_proposal`, `app.decision` | propose, approve, reject, undo | overlapping decisions; a metric is inert until approved | `Approvals`, `HumanGate` |
| client knowledge (`kb`) | `app.client_fact`, `commercial_event`, `client_relationship`, `clarification`, `customer_alias` | capture, merge, supersede, confirm, reject, edit, answer | nothing in the review queue looks at a status: one active fact per slot, no loop of supersessions, no record that nobody asks about | `Knowledge` |
| language-model access (`llm`) | `audit.ai_log`, `audit.llm_route_log`, the router's settings | ask, retry, hold back, escalate, fall back, refuse; change settings | budgets multiply and their limits move; an output that is held back must be neither lost nor logged twice | `LlmCascade`, `ModelCall` |
| masking and the number contract (`llm/masking.py`, `llm/validators.py`, `conversation/resolution.py`, `answer.py`, `assistant.py`) | the pseudonyms of one question | resolve, mask, redact, validate, rehydrate, fall back to a template | only pseudonyms leave, only numbers of the data come back | `Masking`, `Narration` |
| chat and tools (`conversation`, `tools`, `api/chat.py`) | `app.message`, `app.tool_call_log`, `app.conversation` | post, classify, dispatch, agent's loop, reply, capture | overlapping posts read each other's rows; a tool that fails after it wrote is committed with the message | `Chat` |
| ingest (`ingest`) | `core.*`, `staging.*` | load, upsert customers, articles, invoices; report | repeated, changed, contradictory and overlapping imports | `Ingest` |
| opportunities, users (`crm`, `api/opportunities.py`, `auth`, `api/settings.py`) | `app.opportunity`, `opportunity_stage_history`, `app_user` | create, patch, list the pipeline, change a user, set default probabilities | history and stage agree however patches overlap; five queries of one page agree | `Crm` |
| events of an investigation (`api/investigations.py`) | a cursor per listener | poll rows, poll status | rows committed between the two reads | planned |
| detection rules, metrics, dashboards, semantic layer, documents, schema, web client | | | read-only queries, tables without a protocol, or a view; see "Not modelled" | no |

How they interact: a scan reads the active suppressions of `selfconfig` and writes the
hits its audit counts; a dismissal writes the signal, its task and a proposal in one
request; the weekly job is scan, report, messages and audit in one transaction; every
decision of a human lands in the one log `app.decision`; the agent and the chat call the
same tools, and both may only propose what a human approves; every text goes to the
language model through `llm`, masked, and comes back through the number contract. In the
models, `Detection` sees a rule of `LearnedRules` as a status, `LearnedRules` sees a scan as
a number of hits, `Approvals` sees a scan as the tasks it commits, `Chat` and `Narration`
both extend `Masking`, and everybody else sees a call of the model as an answer or a failure,
which is what `ModelCall` promises.

## The modules

### LearnedRules

`config` is `app.rule_config`, `rules` is `app.learned_rule`, `decisions` is the
append-only `app.decision` (an id is an index). Actions: `Propose` (`proposer.py` with
`autonomy.py`'s boundary: pending, or applied at once), `ProposeRefused` (the same from a
chat post when the threshold change is refused after the rule was made active: the tool
registry swallows the exception and the post commits the rule), `Apply`, `Undo`, `EditScope`,
`Keep` (`applier.py`), `PatchConfig` (`api/settings.py`), `ExpireRules` and `Audit`
(`auditor.py`), `Scan` (hits), and `SetExpiry`, the operator's `UPDATE` of a column the
code only reads.

A threshold rule writes `app.rule_config` and records the value it replaced; `Restored`
is what an undo or an expiry writes back. `ExpireRules` restores one value after the
other in every order PostgreSQL may return the rows. What the language model proposes is
any record of `Proposals`, because the schema (`selfconfig/schemas.py`) lets it combine
any type with any kind of scope. `Levels` abstracts the drift of a suppressed metric to
"how much worse", zero included.

* `LogExplainsConfig`: the value in force is what the log's latest change says.
* `OldValuesChain`: each change recorded the value that its predecessor had written; this
  is what undo relies on.
* `StatusMatchesLog`, `ClosingIsFinal`: a rule waits for a human only without an apply
  decision, is in force with exactly one (with none exactly when a chat post kept a refused
  threshold change), is closed exactly when a decision says so, once; and nothing is decided
  about a rule after that.
* `NestedUndoRestores`: rules undone last-in-first-out restore the value of before.
* `AtMostOneOpenFlag`: what the rule list shows as unanswered (a query of its own, `OnReview`)
  is the one flag that a keep would answer.
* `ReflagOnlyWhenWorse`: the same kind of drift is flagged again only when it has become
  worse than the one kept.

### Detection

`scan[s]` is what a scan's transaction has read: the suppressions and the open keys (`Begin`),
what its rules detected (`Detect`), the new signals it will assign (`ReadNew`). `CommitScan`
writes all of it at once, including the flip to `tasked` of whatever it had read as new.
`AbortScan` is any exception or crash. Between those steps users dismiss, work on tasks,
confirm, edit and undo rules. `scopes[r]` is what the rule's scope matches now, and what it
ever did, which stays known because the decision on an edit records the old scope
(`EditScope`). A scan goes by the scope it has read, and what an older scope hid stays hidden.
A scope matches a set of keys; one that names a category matches by the customer's segment,
which an import may change, and this the model leaves out. Daily and weekly jobs are
`Taskers`, `POST /admin/scan` is an `Admins` scan, which leaves its signals new. A request
touches each row by one statement, so it is one step: where the scan has updated the row
already, the request waits for the commit and is ordered after it.

* `OneOpenSignalPerKey`, `OneTaskPerSignal`: no duplicate signals, one task for each.
* `SuppressionIsExplained`: what is hidden is kept in one row and explained by a hit of a rule
  that a human or the boundary let pass and that covers it, or did before its scope was edited.
* `StandingKeysAreHandled` (liveness): a pattern that every scan detects is, again and
  again, on the board or suppressed.

### Investigation

`runner[p]` is the program counter of the worker or of an API request, with the state its
graph holds in memory; `thread` is the latest checkpoint; `trace` the committed rows.
`Number` (the `MAX(step_no)` read) and the commit that uses it are separate steps, as are
a node's commit and its `Save`. `Resume`, `Enter`, `Update`, `Load` are the four steps of
an answer: check of the status, commit of `running` with its row, `update_state`,
`invoke(None)`. `Fail` is an exception anywhere in the graph, `Refuse` one before the
answer is committed, `Kill` the death of the process at any step.

* `ActionsNeedApproval`: nothing is executed before somebody approved.
* `DecisionIsHonoured`: with one answer, a finished run executed each proposal once, or
  none.
* `DoneIsComplete`: a run that is done has its report and was answered if it had to be.
* `RunsSettleUnlessKilled` (liveness): whatever is queued or running comes to a result, a
  question or a recorded failure, unless a process died on it.
* `ApprovedActionsRunOnce`: what a test of the repository expects and overlapping answers
  break, see "Findings".

### Approvals and HumanGate

`request[p]` is what a request has read and is about to write: `ReadDraft`, `ReadApproved`,
`ReadNames`, `ReadMetric` check a status, and `Decide`, `Send`, `Propose`, `Activate`,
`Discard`, `Deactivate` write, whatever the status has become. `Refuse` is a request that
fails in between. `BuildReport`, `CommitReport`, `AbortReport` are the weekly job: it reads
its candidates, narrates, commits, or is rolled back and tried again; it may reach into
the next week's tasks only by committing them itself. `job.fresh` is the number of tasks
its own scan made.

`HumanGate` is the abstract specification, the promise of principle 10: items are approved,
only approved ones take effect, and an approval stays on record. It is stated once and
implemented twice, by the messages (in effect = sent) and by the metrics (in effect =
active): `MessagesAreGated` and `MetricsAreGated` are `HumanGate!Spec` under the two
refinement mappings.

* `StatusIsDecided`: the status of each row is what its latest decision says.
* `UndoRevertsAnApproval`: an undo refers to an earlier approval of the same metric.
* `OneMessagePerTask`: a task has at most one message, over failures, retries and weeks.

The gate holds although the check of the status is not atomic with the write. What does not
hold with overlapping requests is "there is no un-approve transition"
(`approvals/workflow.py:104-106`): a rejection that read `pending_approval` may overwrite
`approved`, or even `sent`. `StatusIsDecided` shows that the log tells all of it; it orders
decisions by their commits, which for a metric may differ from the order of their ids,
since a rejection or an undo inserts its decision before its `UPDATE` waits for the row.

### Knowledge

`records` are the facts, the events and the edges, in one table with one sequence of ids;
`questions` are the clarifications, `aliases` what answers have taught. `Capture` is
`run_capture` after the language model has answered: what it extracted is any of
`Captures`, and `seen` is the alias it looked up, which may be that of before an answer
that has committed since. A capture looks each name up once in the model; in the code it
does so for each item. `Confirm`, `Reject`, `Edit` are the review queue. An answer is
`ReadQuestion`, which collects the records the question covers, then `Link`, `Decline` or
`Refuse`; what it collected is kept in `request`, as the session of the request keeps it.
`PendingRecords`, `PendingQuestions` and `KnownFacts` are what the queue and the panel of a
customer show.

`Activate` is the one place where records take effect: the activations of a request happen
in turn, each one pushes out what is active in its slot, or was activated earlier in the
same request. Both unique indexes appear as guards, as the database applies them.

* `OneActivePerSlot`: whatever the review queue does, a customer's panel shows one active
  fact per slot.
* `ChainsEnd`: `superseded_by` leads from each superseded fact to one that was not replaced.
* `ConsequentialIsConfirmed`: what is active was confirmed, linked by an answer, or safe,
  resolved and logged when it was saved.
* `QuestionsStayOpen`: a record that waits for its customer is asked about, or somebody has
  refused a match of its name. It holds because every capture asks anew: if a capture relied
  on a question that is open already (the mutant `AskedOnce`), an answer in progress could
  close that question without the record.

What does not hold: that an answer only links records without an owner
(`kb/service.py:245-246`), when an edit gave one an owner in between; that an ambiguous
record stays proposed until the question is answered (`docs/specs/ci1-knowledge.md:150`),
since it can be confirmed, without an owner, from the queue.

### LlmCascade and ModelCall

`req[r]` is the loop of `narrate_structured` and of `narrate_task`: the tier it was routed to,
the attempts left, the output it holds back and the threshold it read. `Start` routes a
question, `Answered` is what follows an answer of the gateway: the gateway failed
(`Unavailable`), the validators rejected the output and the tier is tried again, the output is
accepted, or it is held back because its self-confidence is low (`Hold`) and the next tier is
asked (`Climbed`); after the last attempt the question escalates, falls back to what is held,
or fails. `Patch` is an administrator's change of the router's settings, with its decisions,
between any two calls. `patch_rule_config` takes any value, so a setting may be one that
`load_router_config` cannot convert (`IllTyped`): no question can then start, and one under
way raises where it reads the settings again (`RejectedRaises`, `HoldRaises`). `aiLog` and
`routeLog` are the rows of the two logs.

* `EffortIsBounded`: one retry budget for each tier the question was routed to; a tier that has
  no name is never left for another, and none above the strongest is reached, though each
  escalation reads the settings again.
* `EveryCallIsAccounted`: each attempt is in one of the two logs, but for the last one of a
  question that raised; none is in `ai_log` twice, and the one that counts as accepted is what
  the caller was given.
* `RoutesAreAStaircase`: the routing decisions of a question climb one tier at a time and end
  where the question is.
* `OnlyValidatedOutput`: the loop implements `ModelCall`, the abstract specification of a
  question: only the newest validated output leaves it, a question is refused only if it
  has none or the gateway was down, and an exception ends it without an answer.
* `EveryQuestionEnds` (liveness).

### Masking and Narration

`Masking` holds operators: `Resolve` recognises customers in a text (`Claim` takes the longest
name first, `ByLength`, and each at its first occurrence), `MaskText` replaces them by
pseudonyms and redacts what else looks like a name: the loop over the words of a text, which
goes from run to run, is the set of the words where a run begins (`BeginsRun`). `MaskFields`
masks the output of a tool, `Violations` is the number contract and `Rehydrate` puts names back.
A text is a sequence of words that have a stem, a capital and the end of a sentence; a number
has its digits before and after the point, because the contract compares variants of them.
`Narration` is one reply of the chat: the data are masked, the model replies anything, and the
reply is shown or replaced by a template. The contract searches every string of the payload,
so the digits of the pseudonyms in it (`DigitsOf`) are allowed numbers. The template of a
proposed rule is not a fixed text: it carries a description that the model wrote and the
contract has passed, and the rule's effect (`ShowProposal`).

* `NumbersComeFromTheData`: what the validator's comment claims and the code does not keep,
  see "Findings".

### Chat

A post stores the user's message (`Store`), then `Handle` takes it from call to call of the
language model: rules or the model classify it, a tool is dispatched or the agent's loop runs
up to its `MaxSteps`, and the reply is committed with the tool log and with whatever the tools
wrote. `Abort` rolls all of it back; after the commit the capture looks for the newest message
of the user in a transaction of its own (`Capture`), or is lost (`LoseCapture`). Ids are drawn
when a row is flushed and rows are seen when they are committed, so `History`, which skips the
newest row because it takes it for its own, may skip another's. A metric that does not declare
customers drops the one it is asked about, so `MetricRows` may show any customer in the scope of
the user. The lock on the conversation
that a first message holds, because it sets the title, is modelled.

* `CustomersWereNamed`: by a pseudonym or by the focus, a tool is only run about a customer that
  this conversation named.
* `EffectsAreLogged`: what a tool wrote is in the log of its calls; what no decision records is
  an investigation, a task or a rule whose call the log shows as failed.
* `CaptureFollowsTheMessage`: knowledge is attributed to the message it was read from, or to a
  later one of the same conversation that was committed meanwhile.
* `OnlySentenceStartersSurvive`: what resolution leaves behind, the redaction catches, in the
  message and in the history.

### Ingest

`core` are the committed rows, `tx[i]` what the transaction of import `i` has read and will
write. `Read` fills the dictionaries of a pass, `Write` applies `UpsertCustomer`,
`UpsertArticle` or `UpsertInvoice` row by row as the session would flush them, `Wait` is an
import that meets a lock or a unique key of another one, `Commit` and `Abort` end it. The
quality report (`report`) is computed from the staged rows by queries of its own. A total is
compared as it was parsed and stored with two decimals: `Rounded` says which totals of the
exports change by that, and `Stored` is the row after the flush. Amounts that are not finite
are left out. An empty cell
is staged as NULL, which no row of a join matches: a line without a number or an article is an
orphan even if the files have such rows (`Invoices`, `KnownArticles`).

* `OneRowPerKey`: a natural key has one row; for customers, whose code has no index, unless
  two imports overlapped.
* `LinesOfOneImport`: the lines of an invoice come from one import, unless two overlapped.
* `ReportShowsWhatIsLost`: a line with a readable amount, whose invoice this import creates,
  replaces or does not know, is inserted or listed; customers that lose their segment are
  listed, and so are, if no other import ran meanwhile, articles that get another name and
  names that are ignored, unless the first row of the code had none.
* `ReimportTouchesNothing` (an action property): importing the same export again changes no row,
  unless two imports overlapped, an invoice is in the export twice or a total has more than two
  decimals.

### Crm

`Open` reads an opportunity and `Patch` writes the columns that differ from what was read,
with a row of the history if the stage does; `Create`, `SetDefaults` and `UpdateUser` are
whole requests. `View`, `Query`, `Respond` are the pipeline page: five statements, each of
which sees what is committed then; a page under which something is committed is `torn`. Values
are whole cents and a probability is one of `Parts` equal parts (four decimals); `Cents` is the
rounding of the SQL, of each column's weighted value and of the total.

* `HistoryEndsAtStage`: the history ends at the stage the opportunity is in.
* `RepeatsNeedOverlap`: a stage follows itself only if two patches overlapped.
* `PipelineAgrees`: counts, cards and closed figures of a page agree, in any scope, and the
  weighted values of its columns miss the weighted total by two cents at most. They need not
  add up exactly: half a cent in each of two columns is shown as two cents, in the total as one.

## Runs

| run | instance | states | shows |
|---|---|---|---|
| `rules_thresholds` | one threshold with values 1 to 3, 2 rules, 5 decisions | 439 000 | log and configuration agree; nested undos restore |
| `rules_audit` | two suppression rules, 4 hits each, drift levels 0 to 2, 4 decisions | 443 000 | flags, keeps and re-flags |
| `detection` | keys `k1` (every scan finds it) and `k2`, one rule with 2 scopes, a daily and an admin scan, 2 dismissals | 326 000 | scans against requests, with liveness |
| `investigation` | one investigation, worker and 2 requests, 2 steps, 1 proposal, 2 answers, 1 death | 487 000 | the agent, with liveness |
| `approvals` | 2 interchangeable requests, 2 weeks, 2 tasks, one metric, 4 decisions | 1 535 000 | the gate, twice, with overlapping requests |
| `knowledge` | 3 records, 2 questions, one customer, one ambiguous name, one slot, one answer under way | 627 000 | the review queue against captures and answers |
| `cascade` | 2 questions of 2 roles, 2 attempts per tier, 3 confidences, one of 6 changes of the settings | 53 000 | retries and escalations, their logs and their end; refinement of `ModelCall` |
| `chat` | 2 posts in one or two conversations, 2 customers with overlapping names, history of 2, 5 tools | 1 110 000 | overlapping posts, tools and captures |
| `ingest` | 3 imports, 3 exports | 55 000 | repeated, changed, contradictory and overlapping imports |
| `crm` | 2 opportunities, one user, 2 requests, 3 rows of history each | 1 237 000 | overlapping patches and the pipeline page |
| `investigation_two_answers`, `narration_numbers` | as above without a death; 2 customers, 2 outputs of tools, 7 replies | until the error | a documented claim that the code does not keep, see "Findings" |

Why the bounds are enough to be of interest:

* Threshold rules interact only on one row, so one row is the hard case. Two rules and five
  decisions allow apply, apply, undo, undo with an administrator's change between; three
  values keep the seed, and what either rule writes, apart. A scope that names no row is
  among the proposals.
* A keep followed by a worse drift, and by the other kind of drift, takes a flag, a keep,
  a flag and a keep; with four decisions each rule gets there while the other one moves.
  `VolumeFactor` and `MinHits` are 2, so that counts lie below, at and above both limits.
* In `detection` a second key exists so that signals can be found by some scans and not by
  others, and two dismissals let a key be dismissed again after it has come back. No bound
  limits scans, their failures or the edits of a scope. The scopes are one key or both, so an
  edit narrows or widens what a rule covers. Task moves are limited to `dismissed`: the others
  differ only in whether a later dismissal closes the task.
* In `investigation` two requests are the least that can overlap; two steps let the critic
  ask for more once before the budget ends the loop; one death at any step, of any process.
* In `approvals` a row can be decided by both requests at once and undone; two weeks with a
  rollback let a message be drafted late, twice, or not at all.
* In `knowledge` three facts of one slot are the least that can form a chain that turns back;
  the captures make facts, an event and an edge, alone and together, and repeat an edge. A
  second question about the name can be asked while the first is being answered. One
  answer is under way at a time; the other requests commit between its read and its update.
* In `cascade` two attempts tell a retry from an escalation; the confidences lie below, at and
  above the seeded threshold, and one of the changes raises it; the changes also raise the
  number of escalations past the ladder, switch the cascade off, name a tier that is not one,
  and leave values that cannot be converted. Questions share nothing but the settings, so two
  are enough.
* In `chat` two posts are the least that can overlap; one of them may take two steps of the
  agent and the other none; one customer's name is the beginning of the other's, and a text
  has two capitalised words that nobody knows before a name. Five of the tools are those that
  differ in what they write, log or need.
* In `ingest` three imports can run one after the other or two at once. The exports have a
  code with two names, a firm with two objects, an alias, an unknown article, an unreadable
  amount, a line without an invoice, a changed total, one with three decimals, a lost segment and
  a number twice.
* In `crm` three rows of history leave room for a repeat after a change. One of the two
  customers is assigned to a representative and the user's role and link change, so every
  scope occurs: all, some, none. The defaults are told apart from any probability given. The
  values are a cent, so that half a cent occurs in one column, in two and in the total. Nobody
  wins in the instance; it differs from losing in the conversion only.

`CHECK_DEADLOCK FALSE` stands where the system may come to rest: in `LearnedRules`,
`Approvals` and `Crm` when the bounds on logs, rules and histories are used up, in
`Investigation`, `LlmCascade`, `Chat`, `Ingest` and `Narration` when everything that was asked
is done and nobody asks again. `Detection` and `Knowledge` are checked for deadlock.

Symmetry is used in runs without liveness, for sets whose members no operator tells apart: the
requests of `Approvals`, the conversations of `Chat`, the opportunities and the requests of
`Crm`.

### Fairness

* `Detection`: the scheduler starts its jobs for ever and PostgreSQL queues them for the lock,
  and a scan may fail, but not at the same stage every time: strong fairness for each stage of
  the jobs. An administrator need not start a scan, but one that runs ends (weak fairness).
  Nothing is assumed of users.
* `Investigation`: the poll job runs every ten seconds (`max_instances=1`), and a process
  that lives goes on: weak fairness of `Poll` and of each runner's steps. Nobody has to
  create, to answer or to die.
* `LlmCascade`: the loop waits only for the gateway, and each call has a timeout in the client:
  weak fairness of `Answered`. Nobody has to ask, and nothing is assumed of administrators.

`LearnedRules`, `Approvals`, `Knowledge`, `Chat`, `Ingest` and `Crm` promise nothing that must
happen: a pending item may wait for ever, a request may fail.

## Findings

Each is a run that TLC ends with a counterexample; `PROJECT.json` quotes the claims.

1. **An action executed twice** (`investigation_two_answers`, `investigation/runner.py:133`).
   Two approvals both find `needs_input` and both continue from the checkpoint before
   `execute_action`.
2. **A number that is not in the data** (`narration_numbers`, `llm/validators.py:72`). Numbers
   are compared by variants, and the integer part alone is a variant of both sides: 12.9 passes
   where the data say 12.50.

### Known divergences without a run

Met while modelling; the models do what the code does, and the properties the passing runs check
are stated with these exceptions.

Learned rules and detection:
* Threshold rules undone in the order of their application leave the value of the first in
  force (`selfconfig/applier.py:130`, against line 5); `NestedUndoRestores` is what remains.
* A threshold proposal with a narrow scope is applied without a confirmation
  (`selfconfig/autonomy.py:31`): the boundary looks at the kind of the scope, the change at the
  type of the rule. If its threshold does not exist, a chat post keeps the rule, active by then,
  without a decision (`tools/catalog.py:119`), though `selfconfig/applier.py:3-4` says that every
  state change writes one; the trace is `ProposeRefused` alone.
* After a keep of the other kind of drift, the first kind is flagged again, no worse
  (`selfconfig/auditor.py:196`: only the latest resolved flag is compared).
* An expired rule with an open flag is shown as "Na provjeri" for ever (`api/rules.py:50-59`):
  only an approval or an undo answers a flag, and neither is possible for an expired rule,
  though the auditor calls the flag resolvable.
* A signal dismissed while the scan narrates is tasked again (`signals/pipeline.py:137`).

Investigation:
* A run whose process died stays `running`: `poll_queued` takes queued ones only
  (`investigation/runner.py:220`), although the checkpoint is there.
* The event stream may say `done` without the last rows (`api/investigations.py:172`).

Language model and masking:
* An output held back for low confidence has no row in `ai_log` unless it becomes the answer
  (`llm/structured.py:154-173`, against `llm/narration.py:3-4`); the route log names it.
* What is held is lost when the gateway fails on the next tier (`llm/structured.py:96-103`).
* An attempt after which the settings cannot be read has no row in either log if its output was
  to be held back (`llm/router/router.py:100`): the exception leaves before anything is written.
* The digits of a pseudonym in the payload pass as bare numbers of a reply
  (`llm/masking.py:241-254`); those of a pseudonym that is not are rejected with an ending and
  pass without one.
* Names are looked for at their first occurrence only; pseudonyms have 24 bits, so two
  customers may share one (`llm/masking.py:26`). The model has no collisions.

Chat:
* `start_investigation` writes no decision at all, though `tools/base.py:68` wants one for every
  write.
* A customer given by its number passes unchecked to a tool, which then applies the scope
  (`conversation/service.py:338`).
* The history skips the newest row, which may be another post's; a title may be written twice;
  a capture is attributed to a later message, or lost in a crash (`api/chat.py:161-179`).

Ingest:
* A total with more than two decimals never equals the stored one, which has two
  (`ingest/upsert.py:303`), so each import of the same export deletes and inserts the invoice's
  lines again, against "re-importing identical data touches zero core rows"
  (`ingest/upsert.py:5-6`).
* Two overlapping imports that replace the lines of one invoice keep both sets; a new invoice
  number that is twice in an export fails the import; changed lines under an unchanged header
  are ignored; lines that cannot be parsed (`ingest/upsert.py:348`) and articles that differ in
  `aktivan` only are not reported.

Sales and users:
* Two overlapping patches to one stage append it twice; the figures of a page may be of
  different moments; two users created at once with one e-mail end in a server error.

## Proofs

TLAPS proves the following for every value of the constants, from the assumptions on
constants named in each module (finite bounds, well-formed inputs) and nothing else.

`LearnedRules_proofs`:

| theorem | property |
|---|---|
| `TypeCorrect` | its type invariant |
| `ConfigExplained` | `LogExplainsConfig` |
| `ChainUnbroken` | `OldValuesChain` |
| `StatusFollowsLog` | `StatusMatchesLog` |
| `ClosedForGood` | `ClosingIsFinal` |
| `OneFlagOpen` | `AtMostOneOpenFlag` |
| `KeepIsRespected` | `ReflagOnlyWhenWorse` |
| `NestedUndo` | `NestedUndoRestores` |

`LogExplainsConfig` is inductive only with `OldValuesChain` and the types: an expiry that
restores several values is explained only if the old values it finds in the log are values of
the right row. The second invariant is `StatusInv`: a decision refers to a rule that exists
(`RuleRefs`), the status of a rule follows from its decisions, and nothing follows a closing
one; each of the three needs the others, since an action that closes a rule is guarded by its
status and must leave no later decision behind. `Stranded` names the exception, a rule whose
threshold does not exist: it never had a decision, and its undo or expiry adds no application.
The third, `FlagInv`, says that between two
flags of a rule comes an answer (`FlagsAnswered`) and that a keep answers a flag
(`KeepsAnswer`). The fourth, `TraceInv`, says of each entry which action wrote it and, of an
undo or an expiry, that it restored what its rule's own application had replaced. That nested
undos restore the value of before (`NestedRestores`) is then true of any log with these
invariants, by the earliest entry that would say otherwise.

`Approvals_proofs`:

| theorem | property |
|---|---|
| `TypeCorrect` | its type invariant |
| `MessagesGated` | `MessagesAreGated`: the messages implement `HumanGate` |
| `NothingSentUnapproved` | what `HumanGate` says of the messages that were sent |
| `MetricsGated` | `MetricsAreGated`: the metrics implement `HumanGate` |
| `UndoReverts` | `UndoRevertsAnApproval` |
| `StatusDecided` | `StatusIsDecided` |
| `OneMessage` | `OneMessagePerTask` |

The gate is not inductive by itself, because a request acts on what it read. `Recorded` is
the strengthening: a request that is about to send has an approval of its message in the
log, and so has a message that is approved or sent. The log only grows (`LogGrows`), which
is why a stale read is harmless here. In the same way `Undoable` says that the
`decision_id` carried by a request that will undo is an approval of that metric, and `Undone`
that an undo in the log refers to one; `DraftingInv` says that the tasks the weekly job
holds have no message yet, which stays true because nobody else drafts. The lemmas
`DraftStep`, `MetricStep` and `RequestStep` say once which actions touch which table, so that
each invariant has to look only at those.

`LlmCascade_proofs`:

| theorem | property |
|---|---|
| `TypeCorrect` | its type invariant |
| `EffortBounded` | `EffortIsBounded` |
| `CallsAccounted` | `EveryCallIsAccounted` |
| `RoutesClimb` | `RoutesAreAStaircase` |
| `Refines` | `OnlyValidatedOutput`: the loop implements `ModelCall` |

Questions share only the settings, which no invariant speaks of (they may have any value), so the
invariant is a predicate of one question, `Sound`: its budget (`Budget`), that what is held is
its newest valid output (`Held`), and that its rows are of its calls (`OfCalls`). The
refinement takes one step of the loop to one step of the promise, by the cases of `Answered`.

`Investigation_proofs`:

| theorem | property |
|---|---|
| `TypeCorrect` | its type invariant |
| `NothingUnapproved` | `ActionsNeedApproval` |
| `OneAnswerHonoured` | `DecisionIsHonoured` |
| `NothingCutShort` | `DoneIsComplete` |

Investigations share nothing, so the invariant is a predicate of one, `Good(i)`, over what the
rows of the trace, the latest checkpoint and every process that runs it hold. `Gate` is what
makes an approval safe: a checkpoint or a runner's memory holds an approval only if the trace
does, so that whatever a process resumes from, it executes nothing unapproved, however often one
dies. `Phases` says where the worker, the requests and the checkpoint can be: before anybody has
answered the requests are not past their check of the status, and afterwards the loop is over
for good. `OneAnswer` is about investigations whose trace has one answer: only the request that
gave it is past its check, and it finds its own decision and its own checkpoints. The property
is stated for those; with a second answer two processes run past the gate, which is finding 1.

`Knowledge_proofs`:

| theorem | property |
|---|---|
| `TypeCorrect` | its type invariant |
| `OneFactPerSlot` | `OneActivePerSlot` |
| `SupersessionsEnd` | `ChainsEnd` |
| `NothingSilent` | `ConsequentialIsConfirmed` |
| `NothingFallsThrough` | `QuestionsStayOpen` |

The lemmas about `Activate` come first: it leaves one active fact in each slot if there was at
most one, for any records that are activated in turn, and it starts no loop, because of the
records it pushes out the one that was activated last is superseded by one that stays. `Chained`
adds to `ChainsEnd` that what is superseded names another record that exists. `Settling` is the
strengthening of `QuestionsStayOpen`: a record that waits is asked about by an open question
with which every answer under way has found it, so that an answer that closes the question
settles the record too.

`Chat_proofs`:

| theorem | property |
|---|---|
| `OnlyNamedCustomers` | `CustomersWereNamed` |
| `EffectsLogged` | `EffectsAreLogged` |
| `CapturesFollow` | `CaptureFollowsTheMessage` |
| `OnlyStartersSurvive` | `OnlySentenceStartersSurvive` |

Two posts share the sequence of ids and the committed messages, and nothing else: `Good(p)` is
a predicate of one post, `StepKeeps` says once that a step of post `p` has to look only at
`Good(p)`, and `OthersKeep` why. `InContext` is the strengthening of `CustomersWereNamed`: what
a pseudonym may stand for was named in the conversation or shown by an earlier call.
`Numbered` (an id is drawn once) makes the newest row of a conversation the message itself or
a later one.

`OnlyStartersSurvive` rests on `RedactionLeaves`, which is about `RedactNames` alone and any
list of words. The redaction removes each run but its first word; the lemmas say that runs end
(`RunEnds`), that each word like a name is in one (`InARun`), that the beginnings of runs are
never removed (`WhatIsLeft`), and that what is left is in its order (`KeptInOrder`). Hence the
word before one that is left and was spared ended a sentence, or its run did, and a redacted run
keeps the end of its last word. What resolution and pseudonyms make of a text need only be a
list of words whose customers exist (`ResolveFinds`, `UnredactedIsAList`): `ByLength` has every
rank taken (`EveryRank`), and `FoldExists` with `FoldInduction` unfold the two folds. That
customers have names is an assumption that the import justifies: where the export has none it
stores the code (`ingest/upsert.py:95-106`).

`Crm_proofs`:

| theorem | property |
|---|---|
| `TypeCorrect` | its type invariant |
| `HistoryEnds` | `HistoryEndsAtStage` |
| `RepeatsOverlap` | `RepeatsNeedOverlap` |
| `PagesAgree` | `PipelineAgrees` |

A patch compares the new stage with the one it read. `PatchesReadTheHistory` makes the first two
inductive: what a patch has read is the stage that the history had come to then. `PagesAgree`
has an invariant of its own, `PInv`: the rows are finitely many (`RowsFinite`) and a page that
is being read, untorn, holds for each of its queries what that query would give now (`ReadNow`).
That the figures then agree is about sums over finite sets: what `Weighted` computes is a sum
(`WeightedIsTotal`), and the sum over the open rows is that of the sums over the four columns
(`TotalOfUnion`). Each rounding moves a sum by half a cent at most, four columns and the total
make two and a half, and the difference is whole: two cents.

`IngestDetection_proofs`, the part about `Ingest`:

| theorem | property |
|---|---|
| `OneRow` | `OneRowPerKey` |
| `LinesTogether` | `LinesOfOneImport` |
| `LossesShown` | `ReportShowsWhatIsLost` |
| `ReimportIsNoChange` | `ReimportTouchesNothing` |

Two imports share the committed tables and the locks. `Committed` says of the tables that ids are
unique, that each row is of an import that has completed, and the two properties themselves;
`Good(i)` is a predicate of one import, about what it has written (`Written`), that no key it
inserts is anybody else's (`KeysApart`), that the lines it is about to replace are deleted or of
an import that overlapped (`ReplacesLines`, `Doomed`), and what its report covers (`Reported`).
None of it would be inductive without `Snapshot` and `ReadReported`: what the dictionaries of a
pass held when they were read is still there, and a customer that they miss is of an import that
overlapped. `GoodBeside` says once what the steps of one import leave to another.

The step that matters is `Write`, which applies a whole pass. A pass is a fold, so it is
first shown to be a sequence of states, one after each row of the file (`PassStates`, from
`PassExists` and `CountingUp`); then an invariant of each pass (`CustomersPass`, `ArticlesPass`,
`InvoicesPass`, `LinesPass`) is carried from one state to the next by the lemma for one row
(`CustomerStep`, `ArticleStep`, `InvoiceStep`). `Extends` is their common part: what was read
keeps its id and its key, and what is new has a key that nothing had. From what the pass ends
with follows what the transaction inserts, updates and deletes (`InsertedRows`, `UpdatedRows`,
`DeletedLines`), and from that each part of `Good` (`WriteKeys`, `WriteReplacesLines`,
`WriteReported`). The commit then puts rows together that were apart (`CommitKeepsIInv`).

That each line is inserted or listed needs what the SQL does with empty cells: were a line
without an article joined with an article without a code, it would be neither.

`ReimportIsNoChange` is about two imports, so it needs more than `IInv`: `SInv` says, as long as
no two imports have run at the same time, that what is committed is settled for the last export
(`LastSettled`) and that what an import sees, the committed tables with its own writes on top
(`Sees`), is settled for its own as far as it has come (`Serial`), and is what is committed if
the last export was the same. A table is settled for a file if the pass over the file leaves it
as it is (`SettledCustomers`, `SettledArticles`, `SettledInvoices`). That a pass leaves it so is
the argument proper: a row of articles counts only the first time its code comes, so what it
made lasts to the end (`ArticlesSettle`); an invoice's second pass finds it as the first made it
if its number is in the file once (`InvoicesSettle`); but a customer may be in the file twice
with two names, so the second pass does change it in between, and only its last row decides.
`Toward` relates the second pass to the first, column by column: what is not yet as in the end
is as the first pass had it after the same row. `PassSettles` adds that later passes write other
tables (`Grown`), `SeesWhatItWants` that what is flushed is the stored form of what was
wanted; the two are the same if no total is rounded (`Exact`, `InvoicesAreExact`).

`IngestDetection_proofs`, the part about `Detection`:

| theorem | property |
|---|---|
| `TablesTyped` | its type invariant |
| `OneOpen` | `OneOpenSignalPerKey` |
| `OneTask` | `OneTaskPerSignal` |
| `Suppression` | `SuppressionIsExplained` |

A scan writes at its end what was true at its beginning. The strengthening says what of it
stays true meanwhile: only one scan is past its start (`OneAtATime`, from the lock), every key that
is open now was open when it read (`ReadingOpen`), what it will assign has no task
(`ReadingTasks`), and what it will hide is covered by rules that were let pass and has no row,
or the row it found (`ReadingHidden`). `RequestKeeps` is why: requests only dismiss signals,
move tasks, make rules active or closed, and edit scopes, so that what a rule ever covered stays
so (`EditKeeps`, `CoveredAfter`). `CommitEffects` says what a commit makes of each
row and `CommitLeaves` what it leaves alone. The assumption is that the keys are finitely many,
so that the orders in which PostgreSQL hands out ids exist.

### Arguments by induction

Where a proof needs induction over numbers, finite sets or what a fold has taken, it takes the
smallest counterexample: a set of natural numbers has a least element (`LeastOne`), hence what
passes from the subsets with one element less to a finite set holds of it
(`SubsetInduction`), what passes from each number to the next holds up to any (`CountingUp`), and
a fold of the libraries is the unique function with its recursion (`FoldsAgree`, `FoldExists`,
`PassExists`). The library's induction theorems themselves take an operator as
a parameter and cannot be used.

### Only model-checked

* Liveness, which is out of the prover's reach: `StandingKeysAreHandled`,
  `RunsSettleUnlessKilled`, `EveryQuestionEnds`.
* What does not hold: `ApprovedActionsRunOnce`, `NumbersComeFromTheData`.

## What the models leave out

* Texts: narrations, prompts, formats. A language model's answer is any value its schema
  allows, or a failure; masking works on words, not characters.
* Data of the detections: which keys a scan finds is any set that contains `Standing`.
* Multiplicity of suppression hits in `Detection` (a set there, a count in `LearnedRules`).
* Rows of feedback, which nothing reads back, and listings.
* In `Investigation`, the caps on tokens and seconds: they may end the loop at any time, as
  the critic may.
* In `Knowledge` the values of facts, the profile summaries, the relevance gate, questions that
  refer to a single record (nothing raises them any more), and requests of the review queue
  that overlap one another.
* In `Chat` the contents of tools' answers beyond the customers they show, and the steps of a
  narration, which are `LlmCascade` and `Narration`.
* In `Ingest` columns that no other row refers to and no report reads, dates, and the check for
  swapped codes (`_code_swap_candidates`), which only adds to the report.
* In `Crm` activities and notes.
* Two transactions of `LearnedRules` that overlap. The checks there have the same shape as
  those in `Approvals`, see the plan.

Not modelled, and why: the detection rules, the metrics and the sections of the owner report
are SQL over derived tables without steps of their own; the semantic layer is a read-only
vocabulary; documents and the schema have no protocol, and the sessions and passwords of users
none beyond a lookup; the drafting of a metric is one call of the model whose outcome is an
input of `Approvals`; the web client is a view over the API.

## Plan

The order is that of the damage an error does: first what changes the system's own behaviour
or reaches a customer (built), then what humans decide about (built), then what the system
believes (built), then how it is told and what it is told (built). What is left:

1. The event stream as a reader composed with `Investigation`; a listener multiplies its states
   by the positions of a cursor, so it needs an instance with one request.
2. A transaction-level `LearnedRules`, in which confirms, undos, expiries and audits overlap.
3. `kb/graph.py`'s components and the detection rules as pure operators, checked against a
   reference definition.
