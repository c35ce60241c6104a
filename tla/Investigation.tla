------------------------------ MODULE Investigation ------------------------------
(***************************************************************************)
(* The investigation agent (valeri_api/investigation): the runner, which   *)
(* owns the status and the report of app.investigation, the graph          *)
(* plan -> act <-> critic -> [human] -> execute_action -> synthesize, and   *)
(* its checkpoints.                                                        *)
(*                                                                         *)
(* The worker runs one queued investigation at a time; the human's decision*)
(* is carried out by the API request that brings it, so that two requests  *)
(* can work on one investigation.  Every node works in a transaction of    *)
(* its own; LangGraph then saves a checkpoint.  A process can die between  *)
(* any two steps; nothing in the code looks for the runs it leaves behind. *)
(***************************************************************************)
EXTENDS Naturals, Sequences, FiniteSets

CONSTANTS
    MaxInvestigations,  \* bound on app.investigation; an id is a number
    Worker,             \* the worker's poll job, max_instances=1
    Requests,           \* the API's request threads
    MaxSteps,           \* rule_config investigation.max_steps
    MaxProposed,        \* bound on the actions the model proposes in one run
    MaxAnswers,         \* bound on the answers given to one investigation
    MaxKills            \* bound on the deaths of processes

ASSUME InvestigationAssumption ==
    /\ MaxInvestigations \in Nat /\ MaxSteps \in Nat /\ MaxProposed \in Nat
    /\ MaxAnswers \in Nat /\ MaxKills \in Nat
    /\ Worker \notin Requests

Runners == {Worker} \cup Requests
Decisions == {"approve", "reject"}
NoDecision == "none"
Nodes == {"plan", "act", "critic", "execute_action", "synthesize"}

VARIABLES
    status,   \* app.investigation.status, by id
    report,   \* whether app.investigation.report is written, by id
    trace,    \* app.investigation_step: the rows of each investigation, as committed
    thread,   \* the latest checkpoint of each investigation's thread
    runner,   \* what the worker and the requests are doing
    killed    \* the investigations a process died on, in the order of the deaths

vars == <<status, report, trace, thread, runner, killed>>

Ids == DOMAIN status

\* InvestigationState, as far as it steers the graph: the node to run next, the accounting
\* of the loop, the actions proposed, the human's decision, whether there is a report.
Fresh == [next |-> "plan", acts |-> 0, proposed |-> 0, decision |-> NoDecision, report |-> FALSE]

Idle == [at |-> "idle", inv |-> 0, base |-> 0, decision |-> NoDecision,
         state |-> Fresh, resumed |-> FALSE, interrupted |-> FALSE]

\* One row of the trace; action is the index of the proposal an execute_action row ran.
Row(no, node, action, decision) ==
    [no |-> no, node |-> node, action |-> action, decision |-> decision]

Holds(p, at) == runner[p].at = at
Goto(p, at) == runner' = [runner EXCEPT ![p].at = at]

------------------------------------------------------------------------------
(* The life of an investigation: runner.py.                                  *)

\* create_investigation, from the API or from the chat's start_investigation tool.
Create ==
    /\ Len(status) < MaxInvestigations
    /\ status' = Append(status, "queued")
    /\ report' = Append(report, FALSE)
    /\ trace' = Append(trace, <<>>)
    /\ thread' = Append(thread, Fresh)
    /\ UNCHANGED <<runner, killed>>

\* poll_queued and run_investigation: the oldest queued one starts from a fresh state.
Queued == {i \in Ids : status[i] = "queued"}
Poll ==
    /\ Holds(Worker, "idle")
    /\ \E i \in Queued :
         /\ \A j \in Queued : i <= j
         /\ status' = [status EXCEPT ![i] = "running"]
         /\ runner' = [runner EXCEPT ![Worker] = [Idle EXCEPT !.at = "running", !.inv = i]]
    /\ UNCHANGED <<report, trace, thread, killed>>

\* The answers given so far, and those that are about to be.
Answers(i) == {j \in DOMAIN trace[i] : trace[i][j].node = "hitl"}
Answering(i) == {r \in Requests : runner[r].at \in {"deciding", "entering"} /\ runner[r].inv = i}

\* resume_investigation reads the row; anything but needs_input is refused.
AwaitsDecision(i) == status[i] = "needs_input"
Resume(r, i, decision) ==
    /\ Holds(r, "idle")
    /\ AwaitsDecision(i)
    /\ Cardinality(Answers(i)) + Cardinality(Answering(i)) < MaxAnswers
    /\ runner' = [runner EXCEPT ![r] = [Idle EXCEPT !.at = "deciding", !.inv = i,
                                                    !.decision = decision]]
    /\ UNCHANGED <<status, report, trace, thread, killed>>

\* record_step reads MAX(step_no) before the row is inserted and committed.
LastNo(i) == IF trace[i] = <<>> THEN 0
             ELSE CHOOSE n \in {trace[i][j].no : j \in DOMAIN trace[i]} :
                    \A j \in DOMAIN trace[i] : trace[i][j].no <= n

\* The graph stops before execute_action, except at the node it was resumed at.
Interrupts(p) == runner[p].state.next = "execute_action" /\ ~runner[p].resumed
Finished(p) == runner[p].state.next = "end" \/ Interrupts(p)

Number(p) ==
    /\ \/ Holds(p, "deciding")
       \/ Holds(p, "running") /\ ~Finished(p)
    /\ runner' = [runner EXCEPT ![p].base = LastNo(runner[p].inv),
                                ![p].at = IF Holds(p, "deciding") THEN "entering" ELSE "writing"]
    /\ UNCHANGED <<status, report, trace, thread, killed>>

\* The decision's transaction commits: running again, with a hitl row in the trace.
Enter(p) ==
    /\ Holds(p, "entering")
    /\ LET i == runner[p].inv IN
         /\ status' = [status EXCEPT ![i] = "running"]
         /\ trace' = [trace EXCEPT ![i] =
                        Append(@, Row(runner[p].base + 1, "hitl", 0, runner[p].decision))]
    /\ Goto(p, "updating")
    /\ UNCHANGED <<report, thread, killed>>

\* graph.update_state: the decision goes into the latest checkpoint; the routing of the
\* node that made it is repeated, with the same outcome.
Undecided(state, decision) == state                   \* mutant: update_state forgotten
Decided(state, decision) == [state EXCEPT !.decision = decision]
Update(p) ==
    /\ Holds(p, "updating")
    /\ thread' = [thread EXCEPT ![runner[p].inv] = Decided(@, runner[p].decision)]
    /\ Goto(p, "loading")
    /\ UNCHANGED <<status, report, trace, killed>>

\* graph.invoke(None): continue from the latest checkpoint.
Load(p) ==
    /\ Holds(p, "loading")
    /\ runner' = [runner EXCEPT ![p].state = thread[runner[p].inv], ![p].resumed = TRUE,
                                ![p].at = "running"]
    /\ UNCHANGED <<status, report, trace, thread, killed>>

\* graph.get_state, read after invoke has returned: is there a node left to run?
GetState(p) ==
    /\ Holds(p, "running") /\ Finished(p)
    /\ runner' = [runner EXCEPT ![p].interrupted = thread[runner[p].inv].next # "end",
                                ![p].at = "closing"]
    /\ UNCHANGED <<status, report, trace, thread, killed>>

\* The outcome becomes the status, and the report of this run is stored.
AlwaysDone(p) == "done"                               \* mutant: the interrupt is not looked at
Outcome(p) == IF runner[p].interrupted THEN "needs_input" ELSE "done"
Close(p) ==
    /\ Holds(p, "closing")
    /\ status' = [status EXCEPT ![runner[p].inv] = Outcome(p)]
    /\ report' = IF Outcome(p) = "done"
                 THEN [report EXCEPT ![runner[p].inv] = runner[p].state.report] ELSE report
    /\ runner' = [runner EXCEPT ![p] = Idle]
    /\ UNCHANGED <<trace, thread, killed>>

\* An exception before the decision is committed rolls it back and the request fails.
Refuse(p) ==
    /\ runner[p].at \in {"deciding", "entering"}
    /\ runner' = [runner EXCEPT ![p] = Idle]
    /\ UNCHANGED <<status, report, trace, thread, killed>>

\* An exception anywhere in the graph: what the node did is rolled back, and the failure
\* is recorded whatever the status has become.
Unrecorded == "running"                               \* mutant: the handler only logs
Failure == "failed"
Fail(p) ==
    /\ runner[p].at \in {"updating", "loading", "running", "writing", "saving"}
    /\ LET i == runner[p].inv IN
         /\ status' = [status EXCEPT ![i] = Failure]
         /\ trace' = [trace EXCEPT ![i] = Append(@, Row(LastNo(i) + 1, "error", 0, NoDecision))]
    /\ runner' = [runner EXCEPT ![p] = Idle]
    /\ UNCHANGED <<report, thread, killed>>

\* The process dies, or raises outside the handler of Fail: its transaction is rolled back,
\* the rest stays as it is.
Kill(p) ==
    /\ ~Holds(p, "idle")
    /\ Len(killed) < MaxKills
    /\ killed' = Append(killed, runner[p].inv)
    /\ runner' = [runner EXCEPT ![p] = Idle]
    /\ UNCHANGED <<status, report, trace, thread>>

------------------------------------------------------------------------------
(* The nodes: nodes.py, wired by graph.py.                                   *)

\* A node's transaction commits its rows, and the graph goes on in the state it returns.
Ran(p, node, rows, state) ==
    /\ Holds(p, "writing")
    /\ runner[p].state.next = node
    /\ trace' = [trace EXCEPT ![runner[p].inv] = @ \o rows]
    /\ runner' = [runner EXCEPT ![p].state = state, ![p].resumed = FALSE, ![p].at = "saving"]
    /\ UNCHANGED <<status, report, thread, killed>>

One(p, node) == <<Row(runner[p].base + 1, node, 0, NoDecision)>>

Plan(p) == Ran(p, "plan", One(p, "plan"), [runner[p].state EXCEPT !.next = "act"])

\* act_node: a tool call, a refusal, a failed choice, "enough" - or a proposed action.
Act(p) ==
    LET state == runner[p].state IN
    \E more \in {0, 1} :
      /\ state.proposed + more <= MaxProposed
      /\ Ran(p, "act", One(p, "act"),
             [state EXCEPT !.next = "critic", !.acts = @ + 1, !.proposed = @ + more])

\* over_budget, for the cap on steps; the caps on tokens and seconds may strike at any time.
OverBudget(state) == state.acts >= MaxSteps

\* route_after_critic
Route(state, verdict) ==
    CASE verdict = "treba_jos" -> "act"
      [] verdict = "dovoljno" /\ state.proposed > 0 -> "execute_action"
      [] OTHER -> "synthesize"

\* critic_node: over budget, or with a critic that fails, what there is has to do.
Critic(p) ==
    LET state == runner[p].state IN
    \E verdict \in {"dovoljno", "treba_jos"} :
      /\ OverBudget(state) => verdict = "dovoljno"
      /\ Ran(p, "critic", One(p, "critic"), [state EXCEPT !.next = Route(state, verdict)])

\* execute_action_node: the approved proposals in turn, one row each; or one row that says
\* that they were skipped.
AnyDecision(decision) == TRUE                         \* mutant: a rejection is an answer too
Approved(decision) == decision = "approve"
ExecuteAction(p) ==
    LET state == runner[p].state
        rows == IF Approved(state.decision)
                THEN [k \in 1..state.proposed |->
                        Row(runner[p].base + k, "execute_action", k, NoDecision)]
                ELSE One(p, "execute_action")
    IN Ran(p, "execute_action", rows, [state EXCEPT !.next = "synthesize"])

\* synthesize_node writes a report in any case: the model's, or the template's.
Synthesize(p) ==
    Ran(p, "synthesize", One(p, "synthesize"),
        [runner[p].state EXCEPT !.next = "end", !.report = TRUE])

\* The checkpointer saves the state the node returned.
Save(p) ==
    /\ Holds(p, "saving")
    /\ thread' = [thread EXCEPT ![runner[p].inv] = runner[p].state]
    /\ Goto(p, "running")
    /\ UNCHANGED <<status, report, trace, killed>>

------------------------------------------------------------------------------
Init ==
    /\ status = <<>> /\ report = <<>> /\ trace = <<>> /\ thread = <<>>
    /\ runner = [p \in Runners |-> Idle]
    /\ killed = <<>>

Node(p) == Plan(p) \/ Act(p) \/ Critic(p) \/ ExecuteAction(p) \/ Synthesize(p)
Step(p) == Number(p) \/ Enter(p) \/ Update(p) \/ Load(p) \/ Node(p) \/ Save(p)
                     \/ GetState(p) \/ Close(p)

Next == \/ Create
        \/ Poll
        \/ \E r \in Requests, i \in Ids, decision \in Decisions : Resume(r, i, decision)
        \/ \E p \in Runners : Step(p)
        \/ \E p \in Runners : Refuse(p)
        \/ \E p \in Runners : Fail(p)
        \/ \E p \in Runners : Kill(p)

Spec == Init /\ [][Next]_vars

\* The poll job runs every few seconds, and a process that lives goes on.  Nobody has to
\* create an investigation, to answer one, or to die.
Fairness == WF_vars(Poll) /\ \A p \in Runners : WF_vars(Step(p))

FairSpec == Spec /\ Fairness
------------------------------------------------------------------------------
(* Properties.                                                               *)

\* The budget is looked at after an act, so that the first one runs even if the cap is 0.
ActCap == IF MaxSteps = 0 THEN 1 ELSE MaxSteps

State == [next : Nodes \cup {"end"}, acts : 0..ActCap, proposed : 0..MaxProposed,
          decision : Decisions \cup {NoDecision}, report : BOOLEAN]
Runner == [at : {"idle", "deciding", "entering", "updating", "loading", "running", "writing",
                 "saving", "closing"},
           inv : Nat, base : Nat, decision : Decisions \cup {NoDecision}, state : State,
           resumed : BOOLEAN, interrupted : BOOLEAN]
Step_Row == [no : Nat \ {0}, node : Nodes \cup {"hitl", "error"}, action : Nat,
             decision : Decisions \cup {NoDecision}]

\* The state is well formed; that acts stays below the cap says that no critic, whatever
\* it wants, keeps the agent in its loop for longer than the configured budget.
TypeOK ==
    /\ status \in Seq({"queued", "running", "needs_input", "done", "failed"})
    /\ report \in Seq(BOOLEAN)
    /\ trace \in Seq(Seq(Step_Row))
    /\ thread \in Seq(State)
    /\ Len(report) = Len(status) /\ Len(trace) = Len(status) /\ Len(thread) = Len(status)
    /\ runner \in [Runners -> Runner]
    /\ killed \in Seq(Nat)

Executed(i, k) == {j \in DOMAIN trace[i] : trace[i][j].node = "execute_action"
                                            /\ trace[i][j].action = k}
Proposals(i) == 1..thread[i].proposed

\* "Tasks and drafts never happen without POST /resume {approve}": an action is executed
\* only after somebody approved, however many requests, failures and deaths there are.
ActionsNeedApproval ==
    \A i \in Ids : \A k \in 1..MaxProposed : \A j \in Executed(i, k) :
      \E h \in Answers(i) : h < j /\ trace[i][h].decision = "approve"

\* "Approve executes the proposed actions, reject discards them; either way the graph
\* continues to synthesize": an investigation that was answered once and is done has
\* executed each proposal once, or none of them.
DecisionIsHonoured ==
    \A i \in Ids : status[i] = "done" /\ Cardinality(Answers(i)) = 1 =>
      \A h \in Answers(i), k \in Proposals(i) :
        Cardinality(Executed(i, k)) = IF trace[i][h].decision = "approve" THEN 1 ELSE 0

\* What is done was not cut short: it has its report, and if it proposed actions it was
\* answered before it could be done.
DoneIsComplete ==
    \A i \in Ids : status[i] = "done" =>
      /\ report[i]
      /\ Proposals(i) # {} => Answers(i) # {}

Settled(i) == i \in Ids /\ status[i] \in {"needs_input", "done", "failed"}
Started(i) == i \in Ids /\ status[i] \in {"queued", "running"}

\* "A failed run must never die silently": whatever is queued or running comes to a result
\* or to a question, unless a process died on it - also after an answer, and whatever a
\* second answer makes of it meanwhile.
RunsSettleUnlessKilled ==
    \A i \in 1..MaxInvestigations :
      Started(i) ~> (Settled(i) \/ \E n \in DOMAIN killed : killed[n] = i)

\* test_resume_after_simulated_restart: "only the approved action's dispatch was added":
\* an approved proposal is executed once.
ApprovedActionsRunOnce ==
    \A i \in Ids : \A k \in 1..MaxProposed : Cardinality(Executed(i, k)) <= 1
=============================================================================
