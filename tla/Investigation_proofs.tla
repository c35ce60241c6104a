-------------------------- MODULE Investigation_proofs --------------------------
(***************************************************************************)
(* Proofs about Investigation, for any number of investigations, requests, *)
(* steps, proposals, answers and deaths: nothing is executed that nobody   *)
(* approved, one answer is honoured, and what is done is complete.         *)
(*                                                                         *)
(* A runner works on what it has loaded while others write.  The invariant *)
(* says, for each investigation, what its rows, its checkpoint and the     *)
(* runners that are busy with it have to do with one another.              *)
(***************************************************************************)
EXTENDS Investigation, SequenceTheorems, FiniteSetTheorems, WellFoundedInduction, TLAPS

------------------------------------------------------------------------------
(* Numbers and sequences.                                                    *)

\* A set of natural numbers has a least element.
LEMMA LeastOne ==
  ASSUME NEW T, T \subseteq Nat, T # {}
  PROVE  \E x \in T : \A y \in T : x <= y
<1> DEFINE R == OpToRel(<, Nat)
<1>1. IsWellFoundedOn(R, Nat)  BY NatLessThanWellFounded
<1>2. \A x, y \in Nat : y < x => <<y, x>> \in R  BY DEF OpToRel
<1> HIDE DEF R
<1>3. \E x \in T : \A y \in T : ~(<<y, x>> \in R)  BY <1>1, WFMin
<1>4. PICK x \in T : \A y \in T : ~(<<y, x>> \in R)  BY <1>3
<1>5. ASSUME NEW y \in T PROVE x <= y
  <2>1. x \in Nat /\ y \in Nat  OBVIOUS
  <2>2. ~(y < x)  BY <1>2, <1>4, <2>1
  <2> QED  BY <2>1, <2>2
<1> QED  BY <1>5

\* Finitely many natural numbers have a bound.
LEMMA Bounded ==
  ASSUME NEW n \in Nat, NEW f \in [1..n -> Nat]
  PROVE  \E b \in Nat : \A j \in 1..n : f[j] <= b
<1> DEFINE Good == {m \in 0..n : \E b \in Nat : \A j \in 1..m : f[j] <= b}
           Bad == (0..n) \ Good
<1>1. 0 \in Good  OBVIOUS
<1>2. ASSUME NEW m \in 1..n, m - 1 \in Good PROVE m \in Good
  <2>1. PICK b \in Nat : \A j \in 1..m - 1 : f[j] <= b  BY <1>2
  <2>2. f[m] \in Nat /\ b + f[m] \in Nat  OBVIOUS
  <2>3. ASSUME NEW j \in 1..m PROVE f[j] <= b + f[m]
    <3>1. f[j] \in Nat  OBVIOUS
    <3>2. CASE j = m  BY <2>2, <3>1, <3>2
    <3>3. CASE j # m
      <4>1. j \in 1..m - 1  BY <3>3
      <4> QED  BY <2>1, <2>2, <3>1, <4>1
    <3> QED  BY <3>2, <3>3
  <2> QED  BY <2>2, <2>3, SMTT(30)
<1> HIDE DEF Good
<1>3. CASE Bad = {}
  <2>1. n \in Good  BY <1>3
  <2> QED  BY <2>1 DEF Good
<1>4. CASE Bad # {}
  <2>0. Bad \subseteq Nat  OBVIOUS
  <2>1. PICK m \in Bad : \A k \in Bad : m <= k  BY <1>4, <2>0, LeastOne
  <2>2. m \in 1..n  BY <1>1, <2>1
  <2>3. m - 1 \in Good  BY <2>1, <2>2
  <2> QED  BY <1>2, <2>1, <2>2, <2>3
<1> QED  BY <1>3, <1>4

\* Finitely many natural numbers, at least one, have a greatest.
LEMMA Greatest ==
  ASSUME NEW n \in Nat, n # 0, NEW f \in [1..n -> Nat]
  PROVE  \E j \in 1..n : \A k \in 1..n : f[k] <= f[j]
<1> DEFINE Bounds == {b \in Nat : \A j \in 1..n : f[j] <= b}
<1>1. Bounds # {}  BY Bounded
<1>2. PICK b \in Bounds : \A c \in Bounds : b <= c
  BY <1>1, LeastOne
<1>3. CASE \E j \in 1..n : f[j] = b
  BY <1>2, <1>3
<1>4. CASE \A j \in 1..n : f[j] # b
  <2>1. \A j \in 1..n : f[j] < b  BY <1>2, <1>4
  <2>2. 1 \in 1..n /\ f[1] \in Nat  OBVIOUS
  <2>3. b - 1 \in Bounds  BY <2>1, <2>2
  <2> QED  BY <1>2, <2>3
<1> QED  BY <1>3, <1>4

\* A row is updated.
LEMMA Replaced ==
  ASSUME NEW S, NEW s \in Seq(S), NEW i \in DOMAIN s, NEW e \in S
  PROVE  /\ [s EXCEPT ![i] = e] \in Seq(S)
         /\ Len([s EXCEPT ![i] = e]) = Len(s)
         /\ DOMAIN [s EXCEPT ![i] = e] = DOMAIN s
         /\ [s EXCEPT ![i] = e][i] = e
         /\ \A j \in DOMAIN s : j # i => [s EXCEPT ![i] = e][j] = s[j]
BY ExceptSeq, LenProperties

\* A row is inserted.
LEMMA Inserted ==
  ASSUME NEW S, NEW s \in Seq(S), NEW e \in S
  PROVE  /\ Append(s, e) \in Seq(S)
         /\ Len(Append(s, e)) = Len(s) + 1
         /\ DOMAIN s = 1..Len(s) /\ Len(s) \in Nat
         /\ DOMAIN Append(s, e) = 1..Len(s) + 1
         /\ \A k \in DOMAIN s : Append(s, e)[k] = s[k]
         /\ Append(s, e)[Len(s) + 1] = e
BY AppendProperties, LenProperties

\* Rows are inserted.
LEMMA Joined ==
  ASSUME NEW S, NEW s \in Seq(S), NEW e \in Seq(S)
  PROVE  /\ s \o e \in Seq(S)
         /\ DOMAIN s = 1..Len(s) /\ Len(s) \in Nat
         /\ DOMAIN e = 1..Len(e) /\ Len(e) \in Nat
         /\ DOMAIN (s \o e) = 1..Len(s) + Len(e)
         /\ \A k \in DOMAIN s : (s \o e)[k] = s[k]
         /\ \A k \in DOMAIN e : (s \o e)[Len(s) + k] = e[k]
<1>1. /\ s \o e \in Seq(S)
      /\ Len(s \o e) = Len(s) + Len(e)
      /\ \A k \in 1..Len(s) + Len(e) :
           (s \o e)[k] = IF k <= Len(s) THEN s[k] ELSE e[k - Len(s)]
  BY ConcatProperties
<1>2. /\ DOMAIN s = 1..Len(s) /\ Len(s) \in Nat
      /\ DOMAIN e = 1..Len(e) /\ Len(e) \in Nat
      /\ DOMAIN (s \o e) = 1..Len(s \o e)
  BY <1>1, LenProperties
<1> QED  BY <1>1, <1>2

------------------------------------------------------------------------------
(* What a step touches.                                                      *)

Status == {"queued", "running", "needs_input", "done", "failed"}

\* The states that a graph can be in: the loop stays within the budget, and the end has a
\* report.
Shaped ==
    {state \in State : /\ state.next = "plan" => state.acts = 0
                       /\ state.next = "act" => state.acts < ActCap
                       /\ state.next = "end" => state.report}

Typed ==
    /\ TypeOK
    /\ \A i \in Ids : thread[i] \in Shaped
    /\ \A p \in Runners :
          /\ runner[p].state \in Shaped
          /\ IF Holds(p, "idle") THEN runner[p] = Idle ELSE runner[p].inv \in Ids

\* A step of runner p, which is busy with investigation i before it or after it.
Touches(p, i) ==
    /\ p \in Runners /\ i \in Ids
    /\ Len(status') = Len(status) /\ Len(report') = Len(report)
    /\ Len(trace') = Len(trace) /\ Len(thread') = Len(thread)
    /\ \A j \in Ids : j # i =>
          status'[j] = status[j] /\ report'[j] = report[j] /\ trace'[j] = trace[j]
            /\ thread'[j] = thread[j]
    /\ \A q \in Runners : q # p => runner'[q] = runner[q]
    /\ runner[p].inv \in {0, i} /\ runner'[p].inv \in {0, i}

\* What a well-formed step leaves well-formed.
TouchesWell(p, i) ==
    /\ Touches(p, i)
    /\ status' \in Seq(Status) /\ report' \in Seq(BOOLEAN)
    /\ trace' \in Seq(Seq(Step_Row)) /\ thread' \in Seq(State)
    /\ runner' \in [Runners -> Runner] /\ killed' \in Seq(Nat)
    /\ thread'[i] \in Shaped /\ runner'[p].state \in Shaped
    /\ IF runner'[p].at = "idle" THEN runner'[p] = Idle ELSE runner'[p].inv = i

LEMMA TableIds ==
  ASSUME Typed
  PROVE  /\ Ids = 1..Len(status) /\ Len(status) \in Nat
         /\ DOMAIN report = Ids /\ DOMAIN trace = Ids /\ DOMAIN thread = Ids
         /\ 0 \notin Ids
         /\ \A i \in Ids : /\ status[i] \in Status /\ report[i] \in BOOLEAN
                           /\ trace[i] \in Seq(Step_Row) /\ thread[i] \in State
         /\ Ids' = DOMAIN status'
BY LenProperties, ElementOfSeq DEF Typed, TypeOK, Ids, Status

LEMMA TouchedTyped ==
  ASSUME Typed, NEW p, NEW i, TouchesWell(p, i)
  PROVE  Typed' /\ Ids' = Ids
<1>1. Ids' = Ids
  BY TableIds, LenProperties DEF TouchesWell, Touches, Ids
<1>2. TypeOK'
  BY TableIds DEF TouchesWell, Touches, Typed, TypeOK, Status
<1>3. \A j \in Ids : thread'[j] \in Shaped
  BY DEF TouchesWell, Touches, Typed
<1>4. ASSUME NEW q \in Runners
      PROVE  /\ runner'[q].state \in Shaped
             /\ IF runner'[q].at = "idle" THEN runner'[q] = Idle ELSE runner'[q].inv \in Ids
  BY DEF TouchesWell, Touches, Typed, Holds
<1> QED  BY <1>1, <1>2, <1>3, <1>4 DEF Typed, Holds

------------------------------------------------------------------------------
(* The invariant, by investigation.                                          *)

Entering == {"deciding", "entering"}
Working == {"running", "writing", "saving", "closing"}
Entered == {"updating", "loading"} \cup Working

\* Where the graph is after the loop.
Past == {"execute_action", "synthesize", "end"}

Approval(i) == \E h \in Answers(i) : trace[i][h].decision = "approve"
NothingExecuted(i) == \A k \in 1..MaxProposed : Executed(i, k) = {}

\* An approval that is held somewhere is in the trace, and what is executed comes after one.
Gate(i) ==
    /\ thread[i].decision = "approve" => Approval(i)
    /\ \A p \in Runners : runner[p].inv = i =>
          /\ runner[p].state.decision = "approve" => Approval(i)
          /\ runner[p].at \in Entered /\ runner[p].decision = "approve" => Approval(i)
    /\ \A k \in 1..MaxProposed : \A j \in Executed(i, k) :
          \E h \in Answers(i) : h < j /\ trace[i][h].decision = "approve"

\* What the worker is at is running, and its checkpoints are those of its own run.
WorkerRuns(i) ==
    LET w == runner[Worker]
    IN  w.inv = i =>
          /\ Answers(i) = {} /\ status[i] = "running"
          /\ w.at \in Working /\ ~w.resumed
          /\ w.state.decision = NoDecision
          /\ w.state.next \in {"synthesize", "end"} => w.state.proposed = 0
          /\ w.at # "saving" => thread[i] = w.state
          /\ w.at = "writing" => w.state.next # "execute_action"
          /\ w.at = "closing" => /\ w.state.next \in {"end", "execute_action"}
                                 /\ w.interrupted = (w.state.next # "end")

\* While nobody has answered, requests have not come far, and nothing is executed; what needs
\* an answer waits before its actions.
Unanswered(i) ==
    Answers(i) = {} =>
      /\ NothingExecuted(i)
      /\ thread[i].decision = NoDecision
      /\ thread[i].next \in {"synthesize", "end"} => thread[i].proposed = 0
      /\ status[i] = "needs_input" => thread[i].next = "execute_action"
      /\ status[i] = "done" => thread[i].next = "end"
      /\ \A r \in Requests : runner[r].inv = i =>
            runner[r].at \in Entering /\ status[i] = "needs_input"

\* Once somebody has answered, the loop is over for good.
AnsweredOnce(i) ==
    /\ status[i] = "queued" => Answers(i) = {} /\ thread[i] = Fresh
    /\ Answers(i) # {} => thread[i].next \in Past
    /\ \A r \in Requests : runner[r].inv = i =>
          /\ runner[r].at \in Entering \cup Entered
          /\ runner[r].decision \in Decisions
          /\ runner[r].at \in Working =>
                /\ runner[r].state.next \in Past
                /\ runner[r].state.next = "execute_action" =>
                      runner[r].resumed /\ runner[r].at \in {"running", "writing"}
                /\ runner[r].at = "closing" => runner[r].state.next = "end"

Phases(i) == WorkerRuns(i) /\ Unanswered(i) /\ AnsweredOnce(i)

Complete(i) ==
    status[i] = "done" => report[i] /\ (Proposals(i) # {} => Answers(i) # {})

\* Each of the first n proposals is executed once, or none is.
Honoured(i, n, decision) ==
    \A k \in 1..n : Cardinality(Executed(i, k)) = IF decision = "approve" THEN 1 ELSE 0

\* The only request that has answered finds its own decision and its own checkpoints.
Alone(i, r) == \A p \in Requests : runner[p].inv = i /\ runner[p].at \in Entered => p = r
Carries(i, decision, r) ==
    LET q == runner[r]
    IN  /\ status[i] = "running" /\ q.decision = decision
        /\ q.at \in {"updating", "loading"} =>
              thread[i].next = "execute_action" /\ NothingExecuted(i)
        /\ q.at # "updating" => thread[i].decision = decision
        /\ q.at \in Working =>
              /\ q.state.decision = decision /\ q.state.proposed = thread[i].proposed
              /\ IF q.state.next = "execute_action" THEN NothingExecuted(i)
                 ELSE Honoured(i, q.state.proposed, decision)
        /\ q.at \in Working \ {"saving"} => thread[i] = q.state
        /\ q.at = "closing" => ~q.interrupted

OneAnswer(i) ==
    \A h \in Answers(i), d \in Decisions \cup {NoDecision} :
      Answers(i) = {h} /\ trace[i][h].decision = d =>
        /\ status[i] = "done" => Honoured(i, thread[i].proposed, d)
        /\ \A r \in Requests : runner[r].inv = i /\ runner[r].at \in Entered =>
              Alone(i, r) /\ Carries(i, d, r)

Good(i) == Gate(i) /\ Phases(i) /\ Complete(i) /\ OneAnswer(i)
IInv == Typed /\ \A i \in Ids : Good(i)

------------------------------------------------------------------------------
(* What each action does.                                                    *)

SameAnswers(i) == Answers(i)' = Answers(i) /\ \A h \in Answers(i) : trace'[i][h] = trace[i][h]
SameExecuted(i) == \A k \in 1..MaxProposed : Executed(i, k)' = Executed(i, k)

\* The trace has grown by rows.
Grown(i, rows) ==
    /\ DOMAIN trace[i] = 1..Len(trace[i]) /\ Len(trace[i]) \in Nat
    /\ DOMAIN rows = 1..Len(rows) /\ Len(rows) \in Nat
    /\ DOMAIN trace'[i] = 1..Len(trace[i]) + Len(rows)
    /\ \A j \in DOMAIN trace[i] : trace'[i][j] = trace[i][j]
    /\ \A j \in DOMAIN rows : trace'[i][Len(trace[i]) + j] = rows[j]

LEMMA IdsOfGrown ==
  ASSUME NEW i, NEW rows, Grown(i, rows), NEW j
  PROVE  j \in DOMAIN trace'[i] <=>
           j \in DOMAIN trace[i] \/ \E k \in DOMAIN rows : j = Len(trace[i]) + k
<1>1. ASSUME j \in DOMAIN trace'[i], j \notin DOMAIN trace[i]
      PROVE  \E k \in DOMAIN rows : j = Len(trace[i]) + k
  <2>1. j \in 1..Len(trace[i]) + Len(rows) /\ ~(j \in 1..Len(trace[i]))
    BY <1>1 DEF Grown
  <2>2. j - Len(trace[i]) \in 1..Len(rows) /\ j = Len(trace[i]) + (j - Len(trace[i]))
    BY <2>1 DEF Grown
  <2> QED  BY <2>2 DEF Grown
<1>2. ASSUME j \in DOMAIN trace[i] PROVE j \in DOMAIN trace'[i]
  BY <1>2 DEF Grown
<1>3. ASSUME NEW k \in DOMAIN rows, j = Len(trace[i]) + k PROVE j \in DOMAIN trace'[i]
  BY <1>3 DEF Grown
<1> QED  BY <1>1, <1>2, <1>3

\* Rows that are no answers and execute nothing.
LEMMA GrownPlainly ==
  ASSUME NEW i, NEW rows, Grown(i, rows),
         \A k \in DOMAIN rows : rows[k].node # "hitl"
  PROVE  SameAnswers(i)
<1>1. ASSUME NEW j PROVE j \in Answers(i)' <=> j \in Answers(i)
  <2>1. CASE j \in DOMAIN trace[i]
    <3>1. trace'[i][j] = trace[i][j] /\ j \in DOMAIN trace'[i]  BY <2>1, IdsOfGrown DEF Grown
    <3> QED  BY <2>1, <3>1 DEF Answers
  <2>2. CASE j \notin DOMAIN trace[i] /\ j \in DOMAIN trace'[i]
    <3>1. PICK k \in DOMAIN rows : j = Len(trace[i]) + k  BY <2>2, IdsOfGrown
    <3>2. trace'[i][j] = rows[k]  BY <3>1 DEF Grown
    <3> QED  BY <2>2, <3>2 DEF Answers
  <2>3. CASE j \notin DOMAIN trace[i] /\ j \notin DOMAIN trace'[i]
    BY <2>3 DEF Answers
  <2> QED  BY <2>1, <2>2, <2>3
<1> QED  BY <1>1 DEF SameAnswers, Grown, Answers

LEMMA GrownIdly ==
  ASSUME NEW i, NEW rows, Grown(i, rows),
         \A k \in DOMAIN rows : rows[k].node = "execute_action" => rows[k].action = 0
  PROVE  SameExecuted(i)
<1> SUFFICES ASSUME NEW n \in 1..MaxProposed PROVE Executed(i, n)' = Executed(i, n)
  BY DEF SameExecuted
<1>1. n # 0  BY InvestigationAssumption
<1>2. ASSUME NEW j PROVE j \in Executed(i, n)' <=> j \in Executed(i, n)
  <2>1. CASE j \in DOMAIN trace[i]
    <3>1. trace'[i][j] = trace[i][j] /\ j \in DOMAIN trace'[i]  BY <2>1, IdsOfGrown DEF Grown
    <3> QED  BY <2>1, <3>1 DEF Executed
  <2>2. CASE j \notin DOMAIN trace[i] /\ j \in DOMAIN trace'[i]
    <3>1. PICK k \in DOMAIN rows : j = Len(trace[i]) + k  BY <2>2, IdsOfGrown
    <3>2. trace'[i][j] = rows[k]  BY <3>1 DEF Grown
    <3> QED  BY <1>1, <2>2, <3>2 DEF Executed
  <2>3. CASE j \notin DOMAIN trace[i] /\ j \notin DOMAIN trace'[i]
    BY <2>3 DEF Executed
  <2> QED  BY <2>1, <2>2, <2>3
<1> QED  BY <1>2

\* A trace that is left alone.
LEMMA TraceKept ==
  ASSUME NEW i, trace'[i] = trace[i]
  PROVE  SameAnswers(i) /\ SameExecuted(i)
BY DEF SameAnswers, SameExecuted, Answers, Executed

\* The tables of investigation i, of which the others are not touched.
Untouched(i) ==
    /\ status' \in Seq(Status) /\ Len(status') = Len(status)
    /\ \A j \in Ids : j # i => status'[j] = status[j]
    /\ report' \in Seq(BOOLEAN) /\ Len(report') = Len(report)
    /\ \A j \in Ids : j # i => report'[j] = report[j]
    /\ thread' \in Seq(State) /\ Len(thread') = Len(thread) /\ thread'[i] \in Shaped
    /\ \A j \in Ids : j # i => thread'[j] = thread[j]
    /\ killed' \in Seq(Nat)
TraceOf(i) ==
    /\ trace' \in Seq(Seq(Step_Row)) /\ Len(trace') = Len(trace)
    /\ \A j \in Ids : j # i => trace'[j] = trace[j]

\* One investigation gets new rows.
LEMMA TraceGrows ==
  ASSUME Typed, NEW i \in Ids, NEW rows \in Seq(Step_Row),
         trace' = [trace EXCEPT ![i] = @ \o rows]
  PROVE  TraceOf(i) /\ Grown(i, rows)
<1>1. trace \in Seq(Seq(Step_Row)) /\ i \in DOMAIN trace /\ trace[i] \in Seq(Step_Row)
  BY TableIds DEF Typed, TypeOK
<1>2. trace[i] \o rows \in Seq(Step_Row)  BY <1>1, Joined
<1>3. /\ trace' \in Seq(Seq(Step_Row)) /\ Len(trace') = Len(trace)
      /\ \A j \in Ids : j # i => trace'[j] = trace[j]
      /\ trace'[i] = trace[i] \o rows
  BY <1>1, <1>2, Replaced, TableIds
<1>4. Grown(i, rows)  BY <1>1, <1>3, Joined DEF Grown
<1> QED  BY <1>3, <1>4 DEF TraceOf

LEMMA AppendIsJoin ==
  ASSUME NEW S, NEW s \in Seq(S), NEW e \in S
  PROVE  Append(s, e) = s \o <<e>> /\ <<e>> \in Seq(S)
OBVIOUS

\* The values that steps write are of their types.
LEMMA FreshTypes ==
  /\ Fresh \in Shaped /\ Idle \in Runner
  /\ Idle.state = Fresh /\ Idle.inv = 0 /\ Idle.at = "idle" /\ ~Idle.resumed
  /\ Idle.decision = NoDecision
<1>1. ActCap \in Nat /\ MaxProposed \in Nat  BY InvestigationAssumption DEF ActCap
<1> QED
  BY <1>1 DEF Fresh, Idle, Shaped, State, Runner, Nodes, NoDecision, Decisions

LEMMA RowTypes ==
  ASSUME NEW no \in Nat \ {0}, NEW node \in Nodes \cup {"hitl", "error"}, NEW action \in Nat,
         NEW decision \in Decisions \cup {NoDecision}
  PROVE  Row(no, node, action, decision) \in Step_Row
BY DEF Row, Step_Row

LEMMA RunnerTypes ==
  ASSUME Typed, NEW p \in Runners
  PROVE  /\ runner[p] \in Runner /\ runner[p].state \in Shaped
         /\ runner[p].at # "idle" => runner[p].inv \in Ids
         /\ runner[p].at = "idle" => runner[p] = Idle
BY DEF Typed, TypeOK, Holds

LEMMA NothingWritten ==
  ASSUME Typed, NEW i \in Ids, UNCHANGED <<status, report, thread, killed>>
  PROVE  Untouched(i) /\ status'[i] = status[i] /\ thread'[i] = thread[i] /\ report'[i] = report[i]
BY TableIds DEF Untouched, Typed, TypeOK, Status

LEMMA StatusWritten ==
  ASSUME Typed, NEW i \in Ids, NEW new \in Status, status' = [status EXCEPT ![i] = new],
         UNCHANGED <<report, thread, killed>>
  PROVE  Untouched(i) /\ status'[i] = new /\ thread'[i] = thread[i] /\ report'[i] = report[i]
BY TableIds, Replaced DEF Untouched, Typed, TypeOK, Status

LEMMA ThreadWritten ==
  ASSUME Typed, NEW i \in Ids, NEW new \in Shaped, thread' = [thread EXCEPT ![i] = new],
         UNCHANGED <<status, report, killed>>
  PROVE  Untouched(i) /\ status'[i] = status[i] /\ thread'[i] = new /\ report'[i] = report[i]
BY TableIds, Replaced DEF Untouched, Typed, TypeOK, Status, Shaped

LEMMA TraceUnwritten ==
  ASSUME Typed, UNCHANGED trace, NEW i \in Ids
  PROVE  TraceOf(i) /\ SameAnswers(i) /\ SameExecuted(i)
BY TraceKept, TableIds DEF Typed, TypeOK, TraceOf

\* The runner takes its step.
LEMMA RunnerMoves ==
  ASSUME Typed, NEW p \in Runners, NEW i \in Ids, NEW r \in Runner, r.state \in Shaped,
         runner' = [runner EXCEPT ![p] = r],
         runner[p].inv \in {0, i},
         IF r.at = "idle" THEN r = Idle ELSE r.inv = i,
         Untouched(i), TraceOf(i)
  PROVE  TouchesWell(p, i) /\ runner'[p] = r
<1>1. runner' \in [Runners -> Runner] /\ runner'[p] = r
      /\ \A q \in Runners : q # p => runner'[q] = runner[q]
  BY DEF Typed, TypeOK
<1>2. r.inv \in {0, i}  BY FreshTypes
<1> QED  BY <1>1, <1>2 DEF TouchesWell, Touches, Untouched, TraceOf

\* The effect of a step of p on the investigation it is at: the answers and what is executed
\* stay as they are.
Same(i) == SameAnswers(i) /\ SameExecuted(i)
Does(p, i, new) ==
    /\ i \in Ids /\ TouchesWell(p, i) /\ Same(i)
    /\ runner'[p] = new

\* A step of a runner that writes no rows.
LEMMA Stepped ==
  ASSUME Typed, NEW p \in Runners, NEW i, i = runner[p].inv,
         ~Holds(p, "idle"), NEW r \in Runner, r.state \in Shaped,
         runner' = [runner EXCEPT ![p] = r],
         IF r.at = "idle" THEN r = Idle ELSE r.inv = i,
         UNCHANGED trace, Untouched(i)
  PROVE  Does(p, i, r)
<1>1. i \in Ids  BY RunnerTypes DEF Holds
<1>2. runner[p].inv \in {0, i}  OBVIOUS
<1> QED  BY <1>1, <1>2, RunnerMoves, TraceUnwritten DEF Does, Same

LEMMA PollDoes ==
  ASSUME Typed, Poll
  PROVE  \E i \in Ids :
           /\ TouchesWell(Worker, i) /\ Same(i)
           /\ runner[Worker] = Idle /\ status[i] = "queued"
           /\ status'[i] = "running" /\ thread'[i] = thread[i] /\ report'[i] = report[i]
           /\ runner'[Worker] = [Idle EXCEPT !.at = "running", !.inv = i]
<1>1. PICK i \in Queued :
        /\ status' = [status EXCEPT ![i] = "running"]
        /\ runner' = [runner EXCEPT ![Worker] = [Idle EXCEPT !.at = "running", !.inv = i]]
  BY DEF Poll
<1>2. i \in Ids /\ status[i] = "queued" /\ "running" \in Status  BY DEF Queued, Status
<1>3. Worker \in Runners /\ Holds(Worker, "idle") /\ UNCHANGED <<report, trace, thread, killed>>
  BY DEF Poll, Runners
<1>4. runner[Worker] = Idle  BY <1>3, RunnerTypes DEF Holds
<1> DEFINE r == [Idle EXCEPT !.at = "running", !.inv = i]
<1>5. i \in Nat  BY <1>2, TableIds
<1>6. r \in Runner /\ r.state \in Shaped /\ r.at # "idle" /\ r.inv = i
  BY <1>5, FreshTypes DEF Runner, Idle
<1>7. /\ Untouched(i) /\ status'[i] = "running" /\ thread'[i] = thread[i] /\ report'[i] = report[i]
  BY <1>1, <1>2, <1>3, StatusWritten
<1>8. TraceOf(i) /\ Same(i)  BY <1>2, <1>3, TraceUnwritten DEF Same
<1> HIDE DEF r
<1>9. TouchesWell(Worker, i) /\ runner'[Worker] = r
  <2>1. runner' = [runner EXCEPT ![Worker] = r]  BY <1>1 DEF r
  <2>2. runner[Worker].inv \in {0, i}  BY <1>4, FreshTypes
  <2> QED  BY <1>2, <1>3, <1>6, <1>7, <1>8, <2>1, <2>2, RunnerMoves
<1> QED  BY <1>2, <1>4, <1>7, <1>8, <1>9 DEF r

LEMMA ResumeDoes ==
  ASSUME Typed, NEW p \in Requests, NEW i \in Ids, NEW d \in Decisions, Resume(p, i, d)
  PROVE  /\ TouchesWell(p, i) /\ Same(i)
         /\ runner[p] = Idle /\ status[i] = "needs_input"
         /\ status'[i] = status[i] /\ thread'[i] = thread[i] /\ report'[i] = report[i]
         /\ runner'[p].at = "deciding" /\ runner'[p].inv = i /\ runner'[p].decision = d
         /\ runner'[p].state = Fresh
<1> DEFINE r == [Idle EXCEPT !.at = "deciding", !.inv = i, !.decision = d]
<1>1. /\ runner' = [runner EXCEPT ![p] = r] /\ Holds(p, "idle") /\ status[i] = "needs_input"
      /\ UNCHANGED <<status, report, trace, thread, killed>>
  BY DEF Resume, AwaitsDecision
<1>2. p \in Runners  BY DEF Runners
<1>3. runner[p] = Idle  BY <1>1, <1>2, RunnerTypes DEF Holds
<1>4. i \in Nat  BY TableIds
<1>5. r \in Runner /\ r.state \in Shaped /\ r.at # "idle" /\ r.inv = i
  BY <1>4, FreshTypes DEF Runner, Idle
<1>6. Untouched(i) /\ status'[i] = status[i] /\ thread'[i] = thread[i] /\ report'[i] = report[i]
  BY <1>1, NothingWritten
<1>7. TraceOf(i) /\ Same(i)  BY <1>1, TraceUnwritten DEF Same
<1> HIDE DEF r
<1>8. TouchesWell(p, i) /\ runner'[p] = r
  <2>1. runner[p].inv \in {0, i}  BY <1>3, FreshTypes
  <2> QED  BY <1>1, <1>2, <1>5, <1>6, <1>7, <2>1, RunnerMoves
<1>9. r.at = "deciding" /\ r.inv = i /\ r.decision = d /\ r.state = Fresh
  BY DEF r, Idle
<1> QED  BY <1>1, <1>3, <1>6, <1>7, <1>8, <1>9

\* The number that was read is a number.
LEMMA LastNoType ==
  ASSUME Typed, NEW i \in Ids
  PROVE  LastNo(i) \in Nat
<1> DEFINE n == Len(trace[i])
           f == [j \in 1..n |-> trace[i][j].no]
<1>1. trace[i] \in Seq(Step_Row)  BY TableIds
<1>2. n \in Nat /\ DOMAIN trace[i] = 1..n /\ \A j \in 1..n : trace[i][j] \in Step_Row
  BY <1>1, LenProperties, ElementOfSeq
<1>3. CASE trace[i] = <<>>
  BY <1>3 DEF LastNo
<1>4. CASE trace[i] # <<>>
  <2>1. n # 0  BY <1>1, <1>4, EmptySeq
  <2>2. f \in [1..n -> Nat]  BY <1>2 DEF Step_Row
  <2>3. PICK j \in 1..n : \A k \in 1..n : f[k] <= f[j]
    <3> HIDE DEF n, f
    <3> QED  BY <1>2, <2>1, <2>2, Greatest
  <2> DEFINE nos == {trace[i][k].no : k \in DOMAIN trace[i]}
  <2>4. f[j] \in nos /\ f[j] \in Nat /\ \A k \in DOMAIN trace[i] : trace[i][k].no <= f[j]
    BY <1>2, <2>2, <2>3
  <2>5. nos \subseteq Nat  BY <1>2 DEF Step_Row
  <2>6. LastNo(i) \in nos  BY <1>4, <2>4 DEF LastNo
  <2> QED  BY <2>5, <2>6
<1> QED  BY <1>3, <1>4

LEMMA NumberDoes ==
  ASSUME Typed, NEW p \in Runners, NEW i, i = runner[p].inv, Number(p)
  PROVE  /\ Does(p, i, [runner[p] EXCEPT
                        !.base = LastNo(i),
                        !.at = IF Holds(p, "deciding") THEN "entering" ELSE "writing"])
         /\ Holds(p, "deciding") \/ (Holds(p, "running") /\ ~Finished(p))
         /\ status'[i] = status[i] /\ thread'[i] = thread[i] /\ report'[i] = report[i]
<1> DEFINE r == [runner[p] EXCEPT !.base = LastNo(i),
                    !.at = IF Holds(p, "deciding") THEN "entering" ELSE "writing"]
<1>1. /\ ~Holds(p, "idle") /\ UNCHANGED <<status, report, trace, thread, killed>>
      /\ Holds(p, "deciding") \/ (Holds(p, "running") /\ ~Finished(p))
      /\ runner' = [runner EXCEPT ![p] = r]
  BY DEF Number, Holds, Typed, TypeOK
<1>2. i \in Ids /\ runner[p] \in Runner /\ runner[p].state \in Shaped
  BY <1>1, RunnerTypes DEF Holds
<1>3. LastNo(i) \in Nat  BY <1>2, LastNoType
<1>4. r \in Runner /\ r.state \in Shaped /\ r.at # "idle" /\ r.inv = i
  BY <1>2, <1>3 DEF Runner
<1>5. Untouched(i) /\ status'[i] = status[i] /\ thread'[i] = thread[i] /\ report'[i] = report[i]
  BY <1>1, <1>2, NothingWritten
<1> HIDE DEF r
<1>6. Does(p, i, r)  BY <1>1, <1>2, <1>4, <1>5, Stepped
<1> QED  BY <1>1, <1>5, <1>6 DEF r

LEMMA UpdateDoes ==
  ASSUME Typed, NEW p \in Runners, NEW i, i = runner[p].inv, Update(p)
  PROVE  /\ Does(p, i, [runner[p] EXCEPT !.at = "loading"]) /\ Holds(p, "updating")
         /\ status'[i] = status[i] /\ report'[i] = report[i]
         /\ thread'[i] = [thread[i] EXCEPT !.decision = runner[p].decision]
<1> DEFINE r == [runner[p] EXCEPT !.at = "loading"]
           t == [thread[i] EXCEPT !.decision = runner[p].decision]
<1>1. /\ Holds(p, "updating") /\ ~Holds(p, "idle")
      /\ UNCHANGED <<status, report, trace, killed>>
      /\ runner' = [runner EXCEPT ![p] = r]
      /\ thread' = [thread EXCEPT ![i] = t]
  BY DEF Update, Decided, Goto, Holds, Typed, TypeOK
<1>2. i \in Ids /\ runner[p] \in Runner /\ runner[p].state \in Shaped
  BY <1>1, RunnerTypes DEF Holds
<1>3. thread[i] \in Shaped  BY <1>2 DEF Typed
<1>4. t \in Shaped  BY <1>2, <1>3 DEF Shaped, State, Runner
<1>5. r \in Runner /\ r.state \in Shaped /\ r.at # "idle" /\ r.inv = i
  BY <1>2 DEF Runner
<1> HIDE DEF r, t
<1>6. Untouched(i) /\ status'[i] = status[i] /\ thread'[i] = t /\ report'[i] = report[i]
  BY <1>1, <1>2, <1>4, ThreadWritten, ZenonT(60)
<1>7. Does(p, i, r)  BY <1>1, <1>2, <1>5, <1>6, Stepped
<1> QED  BY <1>1, <1>6, <1>7 DEF r, t

LEMMA LoadDoes ==
  ASSUME Typed, NEW p \in Runners, NEW i, i = runner[p].inv, Load(p)
  PROVE  /\ Does(p, i, [runner[p] EXCEPT !.state = thread[i], !.resumed = TRUE, !.at = "running"])
         /\ Holds(p, "loading")
         /\ status'[i] = status[i] /\ thread'[i] = thread[i] /\ report'[i] = report[i]
<1> DEFINE r == [runner[p] EXCEPT !.state = thread[i], !.resumed = TRUE, !.at = "running"]
<1>1. /\ Holds(p, "loading") /\ ~Holds(p, "idle")
      /\ UNCHANGED <<status, report, trace, thread, killed>>
      /\ runner' = [runner EXCEPT ![p] = r]
  BY DEF Load, Holds, Typed, TypeOK
<1>2. i \in Ids /\ runner[p] \in Runner  BY <1>1, RunnerTypes DEF Holds
<1>3. thread[i] \in Shaped /\ thread[i] \in State  BY <1>2 DEF Typed, Shaped
<1>4. r \in Runner /\ r.state \in Shaped /\ r.at # "idle" /\ r.inv = i
  BY <1>2, <1>3 DEF Runner
<1>5. Untouched(i) /\ status'[i] = status[i] /\ thread'[i] = thread[i] /\ report'[i] = report[i]
  BY <1>1, <1>2, NothingWritten
<1> HIDE DEF r
<1>6. Does(p, i, r)  BY <1>1, <1>2, <1>4, <1>5, Stepped
<1> QED  BY <1>1, <1>5, <1>6 DEF r

LEMMA SaveDoes ==
  ASSUME Typed, NEW p \in Runners, NEW i, i = runner[p].inv, Save(p)
  PROVE  /\ Does(p, i, [runner[p] EXCEPT !.at = "running"]) /\ Holds(p, "saving")
         /\ status'[i] = status[i] /\ report'[i] = report[i]
         /\ thread'[i] = runner[p].state
<1> DEFINE r == [runner[p] EXCEPT !.at = "running"]
           t == runner[p].state
<1>1. /\ Holds(p, "saving") /\ ~Holds(p, "idle")
      /\ UNCHANGED <<status, report, trace, killed>>
      /\ runner' = [runner EXCEPT ![p] = r]
      /\ thread' = [thread EXCEPT ![i] = t]
  BY DEF Save, Goto, Holds, Typed, TypeOK
<1>2. i \in Ids /\ runner[p] \in Runner /\ runner[p].state \in Shaped
  BY <1>1, RunnerTypes DEF Holds
<1>3. r \in Runner /\ r.state \in Shaped /\ r.at # "idle" /\ r.inv = i
  BY <1>2 DEF Runner
<1>6. t \in Shaped  BY <1>2
<1> HIDE DEF r, t
<1>4. Untouched(i) /\ status'[i] = status[i] /\ thread'[i] = t /\ report'[i] = report[i]
  BY <1>1, <1>2, <1>6, ThreadWritten, ZenonT(60)
<1>5. Does(p, i, r)  BY <1>1, <1>2, <1>3, <1>4, Stepped
<1> QED  BY <1>1, <1>4, <1>5 DEF r, t

LEMMA GetStateDoes ==
  ASSUME Typed, NEW p \in Runners, NEW i, i = runner[p].inv, GetState(p)
  PROVE  /\ Does(p, i, [runner[p] EXCEPT !.interrupted = thread[i].next # "end",
                                      !.at = "closing"])
         /\ Holds(p, "running") /\ Finished(p)
         /\ status'[i] = status[i] /\ thread'[i] = thread[i] /\ report'[i] = report[i]
<1> DEFINE r == [runner[p] EXCEPT !.interrupted = thread[i].next # "end", !.at = "closing"]
<1>1. /\ Holds(p, "running") /\ ~Holds(p, "idle") /\ Finished(p)
      /\ UNCHANGED <<status, report, trace, thread, killed>>
      /\ runner' = [runner EXCEPT ![p] = r]
  BY DEF GetState, Holds, Typed, TypeOK
<1>2. i \in Ids /\ runner[p] \in Runner /\ runner[p].state \in Shaped
  BY <1>1, RunnerTypes DEF Holds
<1>3. r \in Runner /\ r.state \in Shaped /\ r.at # "idle" /\ r.inv = i
  BY <1>2 DEF Runner
<1>4. Untouched(i) /\ status'[i] = status[i] /\ thread'[i] = thread[i] /\ report'[i] = report[i]
  BY <1>1, <1>2, NothingWritten
<1> HIDE DEF r
<1>5. Does(p, i, r)  BY <1>1, <1>2, <1>3, <1>4, Stepped
<1> QED  BY <1>1, <1>4, <1>5 DEF r

LEMMA CloseDoes ==
  ASSUME Typed, NEW p \in Runners, NEW i, i = runner[p].inv, Close(p)
  PROVE  /\ Does(p, i, Idle) /\ Holds(p, "closing")
         /\ thread'[i] = thread[i]
         /\ status'[i] = IF runner[p].interrupted THEN "needs_input" ELSE "done"
         /\ report'[i] = IF runner[p].interrupted THEN report[i] ELSE runner[p].state.report
<1> DEFINE outcome == Outcome(p)
<1>1. /\ Holds(p, "closing") /\ ~Holds(p, "idle")
      /\ UNCHANGED <<trace, thread, killed>>
      /\ runner' = [runner EXCEPT ![p] = Idle]
      /\ status' = [status EXCEPT ![i] = outcome]
      /\ report' = IF outcome = "done"
                   THEN [report EXCEPT ![i] = runner[p].state.report] ELSE report
  BY DEF Close, Holds
<1>2. i \in Ids /\ runner[p] \in Runner  BY <1>1, RunnerTypes DEF Holds
<1>3. outcome = (IF runner[p].interrupted THEN "needs_input" ELSE "done") /\ outcome \in Status
  BY DEF Outcome, Status
<1>4. runner[p].state.report \in BOOLEAN  BY <1>2 DEF Runner, State
<1> HIDE DEF outcome
<1>5. /\ status' \in Seq(Status) /\ Len(status') = Len(status) /\ status'[i] = outcome
      /\ \A j \in Ids : j # i => status'[j] = status[j]
  BY <1>1, <1>2, <1>3, TableIds, Replaced DEF Typed, TypeOK, Status
<1>6. /\ report' \in Seq(BOOLEAN) /\ Len(report') = Len(report)
      /\ \A j \in Ids : j # i => report'[j] = report[j]
      /\ report'[i] = IF outcome = "done" THEN runner[p].state.report ELSE report[i]
  <2>1. report \in Seq(BOOLEAN) /\ i \in DOMAIN report /\ Ids = DOMAIN report
    BY <1>2, TableIds DEF Typed, TypeOK
  <2>2. CASE outcome = "done"
    BY <1>1, <1>4, <2>1, <2>2, Replaced
  <2>3. CASE outcome # "done"
    BY <1>1, <2>1, <2>3
  <2> QED  BY <2>2, <2>3
<1>7. Untouched(i) /\ thread'[i] = thread[i]
  BY <1>1, <1>2, <1>5, <1>6, NothingWritten DEF Untouched, Typed, TypeOK
<1>8. Does(p, i, Idle)  BY <1>1, <1>2, <1>7, FreshTypes, Stepped
<1> QED  BY <1>1, <1>3, <1>5, <1>6, <1>7, <1>8

LEMMA RefuseDoes ==
  ASSUME Typed, NEW p \in Runners, NEW i, i = runner[p].inv, Refuse(p)
  PROVE  /\ Does(p, i, Idle)
         /\ status'[i] = status[i] /\ thread'[i] = thread[i] /\ report'[i] = report[i]
<1>1. /\ ~Holds(p, "idle") /\ UNCHANGED <<status, report, trace, thread, killed>>
      /\ runner' = [runner EXCEPT ![p] = Idle]
  BY DEF Refuse, Holds
<1>2. i \in Ids  BY <1>1, RunnerTypes DEF Holds
<1>3. Untouched(i) /\ status'[i] = status[i] /\ thread'[i] = thread[i] /\ report'[i] = report[i]
  BY <1>1, <1>2, NothingWritten
<1>4. Does(p, i, Idle)  BY <1>1, <1>2, <1>3, FreshTypes, Stepped
<1> QED  BY <1>3, <1>4

LEMMA KillDoes ==
  ASSUME Typed, NEW p \in Runners, NEW i, i = runner[p].inv, Kill(p)
  PROVE  /\ Does(p, i, Idle)
         /\ status'[i] = status[i] /\ thread'[i] = thread[i] /\ report'[i] = report[i]
<1>1. /\ ~Holds(p, "idle") /\ UNCHANGED <<status, report, trace, thread>>
      /\ runner' = [runner EXCEPT ![p] = Idle] /\ killed' = Append(killed, i)
  BY DEF Kill, Holds
<1>2. i \in Ids /\ i \in Nat /\ thread[i] \in Shaped
  BY <1>1, RunnerTypes, TableIds DEF Holds, Typed
<1>3. killed' \in Seq(Nat)  BY <1>1, <1>2, AppendProperties DEF Typed, TypeOK
<1>4. Untouched(i) /\ status'[i] = status[i] /\ thread'[i] = thread[i] /\ report'[i] = report[i]
  BY <1>1, <1>2, <1>3 DEF Untouched, Typed, TypeOK, Status
<1>5. Does(p, i, Idle)  BY <1>1, <1>2, <1>4, FreshTypes, Stepped
<1> QED  BY <1>4, <1>5

\* A step of p that also inserts rows.
Writes(p, i, new, rows) ==
    /\ i \in Ids /\ TouchesWell(p, i) /\ Grown(i, rows)
    /\ runner'[p] = new

LEMMA SteppedWriting ==
  ASSUME Typed, NEW p \in Runners, NEW i, i = runner[p].inv,
         ~Holds(p, "idle"), NEW r \in Runner, r.state \in Shaped,
         runner' = [runner EXCEPT ![p] = r],
         IF r.at = "idle" THEN r = Idle ELSE r.inv = i,
         NEW rows \in Seq(Step_Row),
         trace' = [trace EXCEPT ![i] = @ \o rows], Untouched(i)
  PROVE  Writes(p, i, r, rows)
<1>1. i \in Ids  BY RunnerTypes DEF Holds
<1>2. runner[p].inv \in {0, i}  OBVIOUS
<1> QED  BY <1>1, <1>2, RunnerMoves, TraceGrows DEF Writes

LEMMA OneRow ==
  ASSUME Typed, NEW i \in Ids, NEW row \in Step_Row,
         trace' = [trace EXCEPT ![i] = Append(@, row)]
  PROVE  /\ <<row>> \in Seq(Step_Row) /\ DOMAIN <<row>> = {1} /\ <<row>>[1] = row
         /\ trace' = [trace EXCEPT ![i] = @ \o <<row>>]
<1>1. trace[i] \in Seq(Step_Row)  BY TableIds
<1>2. Append(trace[i], row) = trace[i] \o <<row>>  BY <1>1, AppendIsJoin
<1> QED  BY <1>2

LEMMA FailDoes ==
  ASSUME Typed, NEW p \in Runners, NEW i, i = runner[p].inv, Fail(p)
  PROVE  /\ Does(p, i, Idle)
         /\ status'[i] = "failed" /\ thread'[i] = thread[i] /\ report'[i] = report[i]
<1> DEFINE row == Row(LastNo(i) + 1, "error", 0, NoDecision)
<1>1. /\ ~Holds(p, "idle") /\ UNCHANGED <<report, thread, killed>>
      /\ runner' = [runner EXCEPT ![p] = Idle]
      /\ status' = [status EXCEPT ![i] = "failed"]
      /\ trace' = [trace EXCEPT ![i] = Append(@, row)]
  BY DEF Fail, Failure, Holds
<1>2. i \in Ids  BY <1>1, RunnerTypes DEF Holds
<1>3. row \in Step_Row /\ row.node = "error"  BY <1>2, LastNoType, RowTypes DEF Row
<1>4. "failed" \in Status  BY DEF Status
<1>5. Untouched(i) /\ status'[i] = "failed" /\ thread'[i] = thread[i] /\ report'[i] = report[i]
  BY <1>1, <1>2, <1>4, StatusWritten, ZenonT(60)
<1> HIDE DEF row
<1>6. /\ <<row>> \in Seq(Step_Row) /\ DOMAIN <<row>> = {1} /\ <<row>>[1] = row
      /\ trace' = [trace EXCEPT ![i] = @ \o <<row>>]
  BY <1>1, <1>2, <1>3, OneRow
<1>7. Writes(p, i, Idle, <<row>>)  BY <1>1, <1>5, <1>6, FreshTypes, SteppedWriting
<1>8. Grown(i, <<row>>) /\ \A k \in DOMAIN <<row>> : <<row>>[k].node = "error"
  BY <1>3, <1>6, <1>7 DEF Writes
<1>9. SameAnswers(i) /\ SameExecuted(i)
  <2>1. \A k \in DOMAIN <<row>> : <<row>>[k].node # "hitl"  BY <1>8
  <2>2. \A k \in DOMAIN <<row>> : <<row>>[k].node = "execute_action" => <<row>>[k].action = 0
    BY <1>8
  <2> QED  BY <1>8, <2>1, <2>2, GrownPlainly, GrownIdly
<1>10. Does(p, i, Idle)  BY <1>7, <1>9 DEF Writes, Does, Same
<1> QED  BY <1>5, <1>10

\* An answer is a new row.
LEMMA EnterDoes ==
  ASSUME Typed, NEW p \in Runners, NEW i, i = runner[p].inv, Enter(p)
  PROVE  LET h == Len(trace[i]) + 1
         IN  /\ i \in Ids /\ TouchesWell(p, i) /\ SameExecuted(i)
             /\ Holds(p, "entering")
             /\ runner'[p] = [runner[p] EXCEPT !.at = "updating"]
             /\ status'[i] = "running" /\ thread'[i] = thread[i] /\ report'[i] = report[i]
             /\ h \notin Answers(i) /\ Answers(i)' = Answers(i) \cup {h}
             /\ trace'[i][h].decision = runner[p].decision
             /\ \A g \in Answers(i) : trace'[i][g] = trace[i][g]
<1> DEFINE h == Len(trace[i]) + 1
           row == Row(runner[p].base + 1, "hitl", 0, runner[p].decision)
           r == [runner[p] EXCEPT !.at = "updating"]
<1>1. /\ ~Holds(p, "idle") /\ Holds(p, "entering") /\ UNCHANGED <<report, thread, killed>>
      /\ runner' = [runner EXCEPT ![p] = r]
      /\ status' = [status EXCEPT ![i] = "running"]
      /\ trace' = [trace EXCEPT ![i] = Append(@, row)]
  BY DEF Enter, Goto, Holds, Typed, TypeOK
<1>2. i \in Ids /\ runner[p] \in Runner /\ runner[p].state \in Shaped
  BY <1>1, RunnerTypes DEF Holds
<1>3. /\ row \in Step_Row /\ row.node = "hitl" /\ row.decision = runner[p].decision
      /\ row.action = 0
  <2>1. runner[p].base \in Nat /\ runner[p].decision \in Decisions \cup {NoDecision}
    BY <1>2 DEF Runner
  <2> QED  BY <2>1, RowTypes DEF Row
<1>4. "running" \in Status  BY DEF Status
<1>5. r \in Runner /\ r.state \in Shaped /\ r.at # "idle" /\ r.inv = i
  BY <1>2 DEF Runner
<1>6. Untouched(i) /\ status'[i] = "running" /\ thread'[i] = thread[i] /\ report'[i] = report[i]
  BY <1>1, <1>2, <1>4, StatusWritten, ZenonT(60)
<1> HIDE DEF row, r
<1>7. /\ <<row>> \in Seq(Step_Row) /\ DOMAIN <<row>> = {1} /\ <<row>>[1] = row
      /\ trace' = [trace EXCEPT ![i] = @ \o <<row>>]
  BY <1>1, <1>2, <1>3, OneRow
<1>8. Writes(p, i, r, <<row>>)  BY <1>1, <1>5, <1>6, <1>7, SteppedWriting
<1>9. Grown(i, <<row>>) /\ runner'[p] = r /\ TouchesWell(p, i)  BY <1>8 DEF Writes
<1>10. SameExecuted(i)  BY <1>3, <1>7, <1>9, GrownIdly
<1>11. h \notin DOMAIN trace[i] /\ trace'[i][h] = row
       /\ \A j : j \in DOMAIN trace'[i] <=> j \in DOMAIN trace[i] \/ j = h
  BY <1>7, <1>9, IdsOfGrown, SMTT(30) DEF Grown
<1>12. h \notin Answers(i) /\ \A g \in Answers(i) : trace'[i][g] = trace[i][g]
  BY <1>9, <1>11 DEF Answers, Grown
<1>13. Answers(i)' = Answers(i) \cup {h}
  <2> HIDE DEF h
  <2>1. \A j : /\ j \in Answers(i) <=> j \in DOMAIN trace[i] /\ trace[i][j].node = "hitl"
               /\ j \in Answers(i)' <=> j \in DOMAIN trace'[i] /\ trace'[i][j].node = "hitl"
    BY DEF Answers
  <2>2. \A j \in DOMAIN trace[i] : trace'[i][j] = trace[i][j]  BY <1>9 DEF Grown
  <2>3. ASSUME NEW j PROVE j \in Answers(i)' <=> j \in Answers(i) \/ j = h
    BY <1>3, <1>11, <2>1, <2>2
  <2> QED  BY <2>3
<1> QED  BY <1>1, <1>2, <1>3, <1>6, <1>9, <1>10, <1>11, <1>12, <1>13 DEF r

\* A node's transaction.
Returned(p, state) == [runner[p] EXCEPT !.state = state, !.resumed = FALSE, !.at = "saving"]

LEMMA RanDoes ==
  ASSUME Typed, NEW p \in Runners, NEW i, i = runner[p].inv, NEW node,
         NEW rows \in Seq(Step_Row), \A k \in DOMAIN rows : rows[k].node # "hitl",
         NEW state \in Shaped, Ran(p, node, rows, state)
  PROVE  /\ Writes(p, i, Returned(p, state), rows) /\ SameAnswers(i)
         /\ Holds(p, "writing") /\ runner[p].state.next = node
         /\ status'[i] = status[i] /\ thread'[i] = thread[i] /\ report'[i] = report[i]
<1> DEFINE r == Returned(p, state)
<1>1. /\ ~Holds(p, "idle") /\ Holds(p, "writing") /\ runner[p].state.next = node
      /\ UNCHANGED <<status, report, thread, killed>>
      /\ runner' = [runner EXCEPT ![p] = r]
      /\ trace' = [trace EXCEPT ![i] = @ \o rows]
  BY DEF Ran, Holds, Typed, TypeOK, Returned
<1>2. i \in Ids /\ runner[p] \in Runner  BY <1>1, RunnerTypes DEF Holds
<1>3. r \in Runner /\ r.state \in Shaped /\ r.at # "idle" /\ r.inv = i
  BY <1>2 DEF Runner, Returned, Shaped
<1>4. Untouched(i) /\ status'[i] = status[i] /\ thread'[i] = thread[i] /\ report'[i] = report[i]
  BY <1>1, <1>2, NothingWritten
<1> HIDE DEF r
<1>5. Writes(p, i, r, rows)  BY <1>1, <1>3, <1>4, SteppedWriting
<1>6. SameAnswers(i)  BY <1>5, GrownPlainly DEF Writes
<1> QED  BY <1>1, <1>4, <1>5, <1>6 DEF r

LEMMA OneTypes ==
  ASSUME Typed, NEW p \in Runners, NEW node \in Nodes
  PROVE  /\ One(p, node) \in Seq(Step_Row) /\ DOMAIN One(p, node) = {1}
         /\ \A k \in DOMAIN One(p, node) :
              /\ One(p, node)[k].node # "hitl"
              /\ One(p, node)[k].action = 0
<1> DEFINE row == Row(runner[p].base + 1, node, 0, NoDecision)
<1>1. runner[p].base \in Nat  BY RunnerTypes DEF Runner
<1>2. row \in Step_Row /\ row.node = node /\ row.action = 0
  <2>1. runner[p].base + 1 \in Nat \ {0}  BY <1>1
  <2> QED  BY <2>1, RowTypes DEF Row
<1>3. One(p, node) = <<row>>  BY DEF One
<1>4. node # "hitl"  BY DEF Nodes
<1> HIDE DEF row
<1> QED  BY <1>2, <1>3, <1>4

\* A node that writes one row, which executes nothing.
LEMMA RanOnce ==
  ASSUME Typed, NEW p \in Runners, NEW i, i = runner[p].inv, NEW node \in Nodes,
         NEW state \in Shaped, Ran(p, node, One(p, node), state)
  PROVE  /\ Does(p, i, Returned(p, state))
         /\ Holds(p, "writing") /\ runner[p].state.next = node
         /\ status'[i] = status[i] /\ thread'[i] = thread[i] /\ report'[i] = report[i]
<1> DEFINE rows == One(p, node)
<1>1. /\ rows \in Seq(Step_Row) /\ \A k \in DOMAIN rows : rows[k].node # "hitl"
      /\ \A k \in DOMAIN rows : rows[k].action = 0
  BY OneTypes
<1>2. Ran(p, node, rows, state)  OBVIOUS
<1> HIDE DEF rows
<1>3. /\ Writes(p, i, Returned(p, state), rows) /\ SameAnswers(i)
      /\ Holds(p, "writing") /\ runner[p].state.next = node
      /\ status'[i] = status[i] /\ thread'[i] = thread[i] /\ report'[i] = report[i]
  BY <1>1, <1>2, RanDoes
<1>4. SameExecuted(i)  BY <1>1, <1>3, GrownIdly DEF Writes
<1> QED  BY <1>3, <1>4 DEF Writes, Does, Same

\* The loop ends in a question if it proposes anything.
LEMMA LoopDoes ==
  ASSUME Typed, NEW p \in Runners, NEW i, i = runner[p].inv, Plan(p) \/ Act(p) \/ Critic(p)
  PROVE  /\ Holds(p, "writing") /\ runner[p].state.next \in {"plan", "act", "critic"}
         /\ status'[i] = status[i] /\ thread'[i] = thread[i] /\ report'[i] = report[i]
         /\ \E state \in Shaped :
              /\ Does(p, i, Returned(p, state))
              /\ state.decision = runner[p].state.decision
              /\ state.next \in {"act", "critic", "execute_action", "synthesize"}
              /\ state.next = "synthesize" => state.proposed = 0
<1> DEFINE s == runner[p].state
<1>1. s \in Shaped /\ s \in State  BY RunnerTypes DEF Shaped
<1>2. MaxProposed \in Nat /\ MaxSteps \in Nat /\ ActCap \in Nat /\ ActCap # 0
      /\ (MaxSteps # 0 => ActCap = MaxSteps)
  BY InvestigationAssumption DEF ActCap
<1>3. CASE Plan(p)
  <2> DEFINE state == [s EXCEPT !.next = "act"]
  <2>1. Ran(p, "plan", One(p, "plan"), state) /\ "plan" \in Nodes  BY <1>3 DEF Plan, Nodes
  <2>2. s.next = "plan"  BY <2>1 DEF Ran
  <2>3. state \in Shaped /\ state.next = "act" /\ state.decision = s.decision
    BY <1>1, <1>2, <2>2 DEF Shaped, State, Nodes
  <2> HIDE DEF state
  <2> QED  BY <2>1, <2>2, <2>3, RanOnce
<1>4. CASE Act(p)
  <2>1. PICK more \in {0, 1} :
          /\ s.proposed + more <= MaxProposed
          /\ Ran(p, "act", One(p, "act"),
                 [s EXCEPT !.next = "critic", !.acts = @ + 1, !.proposed = @ + more])
    BY <1>4 DEF Act
  <2> DEFINE state == [s EXCEPT !.next = "critic", !.acts = @ + 1, !.proposed = @ + more]
  <2>2. Ran(p, "act", One(p, "act"), state) /\ "act" \in Nodes  BY <2>1 DEF Nodes
  <2>3. s.next = "act"  BY <2>2 DEF Ran
  <2>4. state \in Shaped /\ state.next = "critic" /\ state.decision = s.decision
    <3>1. s.acts + 1 \in 0..ActCap  BY <1>1, <1>2, <2>3 DEF Shaped, State
    <3>2. s.proposed + more \in 0..MaxProposed  BY <1>1, <1>2, <2>1 DEF State
    <3> QED  BY <1>1, <3>1, <3>2 DEF Shaped, State, Nodes
  <2> HIDE DEF state
  <2> QED  BY <2>2, <2>3, <2>4, RanOnce
<1>5. CASE Critic(p)
  <2>1. PICK verdict \in {"dovoljno", "treba_jos"} :
          /\ OverBudget(s) => verdict = "dovoljno"
          /\ Ran(p, "critic", One(p, "critic"), [s EXCEPT !.next = Route(s, verdict)])
    BY <1>5 DEF Critic
  <2> DEFINE state == [s EXCEPT !.next = Route(s, verdict)]
  <2>2. Ran(p, "critic", One(p, "critic"), state) /\ "critic" \in Nodes  BY <2>1 DEF Nodes
  <2>3. s.next = "critic"  BY <2>2 DEF Ran
  <2>4. /\ Route(s, verdict) \in {"act", "execute_action", "synthesize"}
        /\ Route(s, verdict) = "act" => ~OverBudget(s)
        /\ Route(s, verdict) = "synthesize" => ~(s.proposed > 0)
    BY <2>1 DEF Route
  <2>5. s.proposed \in Nat /\ s.acts \in Nat  BY <1>1, <1>2 DEF State
  <2>6. ~OverBudget(s) => s.acts < ActCap  BY <1>2, <2>5 DEF OverBudget
  <2>7. /\ state \in Shaped /\ state.decision = s.decision
        /\ state.next \in {"act", "execute_action", "synthesize"}
        /\ state.next = "synthesize" => state.proposed = 0
    BY <1>1, <2>4, <2>5, <2>6 DEF Shaped, State, Nodes
  <2> HIDE DEF state
  <2> QED  BY <2>2, <2>3, <2>7, RanOnce
<1> QED  BY <1>3, <1>4, <1>5

LEMMA SynthesizeDoes ==
  ASSUME Typed, NEW p \in Runners, NEW i, i = runner[p].inv, Synthesize(p)
  PROVE  /\ Holds(p, "writing") /\ runner[p].state.next = "synthesize"
         /\ status'[i] = status[i] /\ thread'[i] = thread[i] /\ report'[i] = report[i]
         /\ Does(p, i, Returned(p, [runner[p].state EXCEPT !.next = "end", !.report = TRUE]))
<1> DEFINE state == [runner[p].state EXCEPT !.next = "end", !.report = TRUE]
<1>1. Ran(p, "synthesize", One(p, "synthesize"), state) /\ "synthesize" \in Nodes
  BY DEF Synthesize, Nodes
<1>2. runner[p].state \in Shaped  BY RunnerTypes
<1>3. state \in Shaped  BY <1>2 DEF Shaped, State
<1> HIDE DEF state
<1> QED  BY <1>1, <1>3, RanOnce DEF state

\* The rows of execute_action: the proposals of the checkpoint, if they were approved.
LEMMA ExecuteDoes ==
  ASSUME Typed, NEW p \in Runners, NEW i, i = runner[p].inv, ExecuteAction(p)
  PROVE  LET s == runner[p].state
             new == Returned(p, [s EXCEPT !.next = "synthesize"])
         IN  /\ i \in Ids /\ TouchesWell(p, i) /\ SameAnswers(i) /\ runner'[p] = new
             /\ Holds(p, "writing") /\ s.next = "execute_action"
             /\ status'[i] = status[i] /\ thread'[i] = thread[i] /\ report'[i] = report[i]
             /\ s.decision # "approve" => SameExecuted(i)
             /\ s.decision = "approve" =>
                  \A n \in 1..MaxProposed :
                     Executed(i, n)' = IF n <= s.proposed
                                       THEN Executed(i, n) \cup {Len(trace[i]) + n}
                                       ELSE Executed(i, n)
<1> DEFINE s == runner[p].state
           state == [s EXCEPT !.next = "synthesize"]
           rows == IF Approved(s.decision)
                   THEN [k \in 1..s.proposed |->
                           Row(runner[p].base + k, "execute_action", k, NoDecision)]
                   ELSE One(p, "execute_action")
<1>1. Ran(p, "execute_action", rows, state)  BY DEF ExecuteAction
<1>2. s \in Shaped /\ s \in State /\ runner[p].base \in Nat /\ s.next = "execute_action"
  BY <1>1, RunnerTypes DEF Shaped, Runner, Ran
<1>3. state \in Shaped  BY <1>2 DEF Shaped, State, Nodes
<1>4. s.proposed \in Nat /\ s.proposed <= MaxProposed
  BY <1>2, InvestigationAssumption DEF State
<1>5. CASE s.decision # "approve"
  <2>1. Ran(p, "execute_action", One(p, "execute_action"), state)
    BY <1>1, <1>5 DEF Approved
  <2>2. "execute_action" \in Nodes  BY DEF Nodes
  <2> HIDE DEF state, s, rows
  <2>3. /\ Does(p, i, Returned(p, state))
        /\ Holds(p, "writing") /\ runner[p].state.next = "execute_action"
        /\ status'[i] = status[i] /\ thread'[i] = thread[i] /\ report'[i] = report[i]
    BY <1>3, <2>1, <2>2, RanOnce
  <2> QED  BY <1>5, <2>3 DEF Does, Same, state, s
<1>6. CASE s.decision = "approve"
  <2>1. rows = [k \in 1..s.proposed |->
                  Row(runner[p].base + k, "execute_action", k, NoDecision)]
    BY <1>6 DEF Approved
  <2>2. ASSUME NEW k \in 1..s.proposed
        PROVE  /\ rows[k] \in Step_Row /\ rows[k].node = "execute_action" /\ rows[k].action = k
    <3>1. runner[p].base + k \in Nat \ {0} /\ k \in Nat  BY <1>2, <1>4
    <3>2. rows[k] = Row(runner[p].base + k, "execute_action", k, NoDecision)  BY <2>1
    <3>3. "execute_action" \in Nodes \cup {"hitl", "error"}  BY DEF Nodes
    <3>4. NoDecision \in Decisions \cup {NoDecision}  OBVIOUS
    <3> HIDE DEF rows
    <3>5. rows[k] \in Step_Row  BY <3>1, <3>2, <3>3, <3>4, RowTypes
    <3> QED  BY <3>2, <3>5 DEF Row
  <2>3. DOMAIN rows = 1..s.proposed  BY <2>1
  <2> HIDE DEF rows, state
  <2>4. rows \in Seq(Step_Row) /\ Len(rows) = s.proposed
    <3>1. rows \in [1..s.proposed -> Step_Row]
      BY <2>1, <2>2
    <3> QED  BY <1>4, <3>1
  <2>5. \A k \in DOMAIN rows : rows[k].node # "hitl"  BY <2>2, <2>3
  <2>6. /\ Writes(p, i, Returned(p, state), rows) /\ SameAnswers(i)
        /\ Holds(p, "writing") /\ runner[p].state.next = "execute_action"
        /\ status'[i] = status[i] /\ thread'[i] = thread[i] /\ report'[i] = report[i]
    BY <1>1, <1>3, <2>4, <2>5, RanDoes
  <2>7. ASSUME NEW n \in 1..MaxProposed
        PROVE  Executed(i, n)' = IF n <= s.proposed THEN Executed(i, n) \cup {Len(trace[i]) + n}
                                 ELSE Executed(i, n)
    <3> DEFINE l == Len(trace[i])
    <3> HIDE DEF s
    <3>1. Grown(i, rows) /\ l \in Nat  BY <2>6 DEF Writes, Grown
    <3>2. \A j : j \in DOMAIN trace'[i] <=> j \in DOMAIN trace[i] \/ \E k \in DOMAIN rows : j = l + k
      BY <3>1, IdsOfGrown
    <3>3. \A j : /\ j \in Executed(i, n) <=> /\ j \in DOMAIN trace[i]
                                             /\ trace[i][j].node = "execute_action"
                                             /\ trace[i][j].action = n
                 /\ j \in Executed(i, n)' <=> /\ j \in DOMAIN trace'[i]
                                              /\ trace'[i][j].node = "execute_action"
                                              /\ trace'[i][j].action = n
      BY DEF Executed
    <3>4. \A j \in DOMAIN trace[i] : trace'[i][j] = trace[i][j] /\ j \in 1..l
      BY <3>1 DEF Grown
    <3>5. \A k \in 1..s.proposed : trace'[i][l + k] = rows[k]
      BY <2>3, <3>1 DEF Grown
    <3> HIDE DEF l
    <3>6. ASSUME NEW j
          PROVE  j \in Executed(i, n)' <=> j \in Executed(i, n) \/ (n <= s.proposed /\ j = l + n)
      <4>1. CASE j \in DOMAIN trace[i]
        <5>1. j # l + n  BY <3>1, <3>4, <4>1
        <5> QED  BY <3>2, <3>3, <3>4, <4>1, <5>1
      <4>2. CASE j \notin DOMAIN trace[i] /\ \E k \in DOMAIN rows : j = l + k
        <5>1. PICK k \in 1..s.proposed : j = l + k  BY <2>3, <4>2
        <5>2. trace'[i][j].node = "execute_action" /\ trace'[i][j].action = k
          BY <2>2, <3>5, <5>1
        <5>3. j \in Executed(i, n)' <=> k = n  BY <3>2, <3>3, <4>2, <5>2
        <5>4. k \in Nat /\ k <= s.proposed /\ (j = l + n <=> k = n)  BY <1>4, <3>1, <5>1
        <5> QED  BY <3>3, <4>2, <5>3, <5>4
      <4>3. CASE j \notin DOMAIN trace[i] /\ ~(\E k \in DOMAIN rows : j = l + k)
        <5>1. n <= s.proposed => n \in DOMAIN rows  BY <1>4, <2>3
        <5> QED  BY <3>2, <3>3, <4>3, <5>1
      <4> QED  BY <4>1, <4>2, <4>3
    <3> QED  BY <3>6 DEF l
  <2> QED  BY <1>6, <2>6, <2>7 DEF Writes, state
<1> QED  BY <1>5, <1>6

------------------------------------------------------------------------------
(* An investigation that a step has nothing to do with.                      *)

Alike(j) ==
    /\ status'[j] = status[j] /\ report'[j] = report[j]
    /\ trace'[j] = trace[j] /\ thread'[j] = thread[j]
    /\ \A q \in Runners : /\ runner'[q].inv = j <=> runner[q].inv = j
                          /\ runner[q].inv = j => runner'[q] = runner[q]

LEMMA AlikeKept ==
  ASSUME NEW j, Alike(j), Good(j)
  PROVE  Good(j)'
<1>1. Answers(j)' = Answers(j)  BY DEF Alike, Answers
<1>2. \A k : Executed(j, k)' = Executed(j, k)  BY DEF Alike, Executed
<1>3. \A r \in Requests : r \in Runners  BY DEF Runners
<1>4. Worker \in Runners  BY DEF Runners
<1>5. Approval(j)' <=> Approval(j)  BY <1>1 DEF Alike, Approval
<1>6. Gate(j)'
  <2>1. thread'[j].decision = "approve" => Approval(j)'
    BY <1>5 DEF Good, Gate, Alike
  <2>2. ASSUME NEW p \in Runners, runner'[p].inv = j
        PROVE  /\ runner'[p].state.decision = "approve" => Approval(j)'
               /\ runner'[p].at \in Entered /\ runner'[p].decision = "approve" => Approval(j)'
    BY <1>5, <2>2 DEF Good, Gate, Alike
  <2>3. ASSUME NEW k \in 1..MaxProposed, NEW m \in Executed(j, k)'
        PROVE  \E h \in Answers(j)' : h < m /\ trace'[j][h].decision = "approve"
    BY <1>1, <1>2, <2>3 DEF Good, Gate, Alike
  <2> QED  BY <2>1, <2>2, <2>3 DEF Gate
<1>7. NothingExecuted(j)' <=> NothingExecuted(j)  BY <1>2 DEF NothingExecuted
<1>8. WorkerRuns(j)'
  BY <1>1, <1>4 DEF Good, Phases, Alike, WorkerRuns
<1>9. Unanswered(j)'
  BY <1>1, <1>3, <1>7 DEF Good, Phases, Alike, Unanswered
<1>10. AnsweredOnce(j)'
  BY <1>1, <1>3 DEF Good, Phases, Alike, AnsweredOnce
<1>11. Complete(j)'
  BY <1>1 DEF Good, Alike, Complete, Proposals
<1>12. OneAnswer(j)'
  <2> SUFFICES ASSUME NEW h \in Answers(j)', NEW d \in Decisions \cup {NoDecision},
                      Answers(j)' = {h}, trace'[j][h].decision = d
               PROVE  /\ status'[j] = "done" => Honoured(j, thread[j].proposed, d)'
                      /\ \A r \in Requests : runner'[r].inv = j /\ runner'[r].at \in Entered =>
                            Alone(j, r)' /\ Carries(j, d, r)'
    BY DEF OneAnswer
  <2>1. h \in Answers(j) /\ Answers(j) = {h} /\ trace[j][h].decision = d  BY <1>1 DEF Alike
  <2>2. /\ status[j] = "done" => Honoured(j, thread[j].proposed, d)
        /\ \A r \in Requests : runner[r].inv = j /\ runner[r].at \in Entered =>
                            Alone(j, r) /\ Carries(j, d, r)
    BY <2>1 DEF Good, OneAnswer
  <2>3. status'[j] = "done" => Honoured(j, thread[j].proposed, d)'
    BY <1>2, <2>2 DEF Alike, Honoured
  <2>4. ASSUME NEW r \in Requests, runner'[r].inv = j, runner'[r].at \in Entered
        PROVE  Alone(j, r)' /\ Carries(j, d, r)'
    <3>1. runner'[r] = runner[r] /\ runner[r].inv = j /\ Alone(j, r) /\ Carries(j, d, r)
      BY <1>3, <2>2, <2>4 DEF Alike
    <3>2. Alone(j, r)'  BY <1>3, <3>1 DEF Alike, Alone
    <3>3. Honoured(j, runner[r].state.proposed, d)' <=> Honoured(j, runner[r].state.proposed, d)
      BY <1>2, <3>1 DEF Honoured
    <3> QED  BY <1>7, <3>1, <3>2, <3>3 DEF Carries, Alike
  <2> QED  BY <2>3, <2>4
<1> QED  BY <1>6, <1>8, <1>9, <1>10, <1>11, <1>12 DEF Good, Phases

LEMMA Elsewhere ==
  ASSUME Typed, NEW p, NEW i, Touches(p, i), NEW j \in Ids, j # i, Good(j)
  PROVE  Good(j)'
<1>1. j # 0  BY TableIds
<1>2. ASSUME NEW q \in Runners
      PROVE  /\ runner'[q].inv = j <=> runner[q].inv = j
             /\ runner[q].inv = j => runner'[q] = runner[q]
  <2>1. CASE q = p
    BY <1>1, <2>1 DEF Touches
  <2>2. CASE q # p
    BY <2>2 DEF Touches
  <2> QED  BY <2>1, <2>2
<1>3. Alike(j)  BY <1>2 DEF Touches, Alike
<1> QED  BY <1>3, AlikeKept

\* A step of p at i keeps the invariant if it keeps what is said of i.
LEMMA StepKeeps ==
  ASSUME IInv, NEW p, NEW i, TouchesWell(p, i), Good(i)'
  PROVE  IInv'
<1>1. Typed' /\ Ids' = Ids  BY TouchedTyped DEF IInv
<1>2. \A j \in Ids : Good(j)'
  BY Elsewhere DEF IInv, TouchesWell
<1> QED  BY <1>1, <1>2 DEF IInv

\* A new investigation is nobody's yet.
LEMMA CreateKeeps ==
  ASSUME IInv, Create
  PROVE  IInv'
<1> DEFINE n == Len(status) + 1
<1>1. /\ status' = Append(status, "queued") /\ report' = Append(report, FALSE)
      /\ trace' = Append(trace, <<>>) /\ thread' = Append(thread, Fresh)
      /\ UNCHANGED <<runner, killed>>
  BY DEF Create
<1>2. Typed /\ TypeOK /\ \A i \in Ids : Good(i)  BY DEF IInv, Typed
<1>3. Len(report) = Len(status) /\ Len(trace) = Len(status) /\ Len(thread) = Len(status)
  BY <1>2 DEF TypeOK
<1>4. /\ status' \in Seq(Status) /\ Len(status') = n /\ DOMAIN status' = 1..n
      /\ status'[n] = "queued" /\ \A j \in Ids : status'[j] = status[j]
      /\ Ids = 1..Len(status) /\ Len(status) \in Nat
  BY <1>1, <1>2, Inserted DEF TypeOK, Status, Ids
<1>5. /\ report' \in Seq(BOOLEAN) /\ Len(report') = n
      /\ \A j \in Ids : report'[j] = report[j]
  <2>1. report \in Seq(BOOLEAN)  BY <1>2 DEF TypeOK
  <2>2. PICK e \in BOOLEAN : e = FALSE  OBVIOUS
  <2>3. report' = Append(report, e)  BY <1>1, <2>2
  <2> HIDE <2>2
  <2> QED  BY <1>3, <1>4, <2>1, <2>3, Inserted
<1>6. /\ trace' \in Seq(Seq(Step_Row)) /\ Len(trace') = n
      /\ trace'[n] = <<>> /\ \A j \in Ids : trace'[j] = trace[j]
  <2>1. trace \in Seq(Seq(Step_Row)) /\ <<>> \in Seq(Step_Row)  BY <1>2 DEF TypeOK
  <2> QED  BY <1>1, <1>3, <1>4, <2>1, Inserted
<1>7. /\ thread' \in Seq(State) /\ Len(thread') = n
      /\ thread'[n] = Fresh /\ \A j \in Ids : thread'[j] = thread[j]
  <2>1. thread \in Seq(State) /\ Fresh \in State  BY <1>2, FreshTypes DEF TypeOK, Shaped
  <2> QED  BY <1>1, <1>3, <1>4, <2>1, Inserted
<1>8. Ids' = Ids \cup {n} /\ n \notin Ids /\ n # 0
  <2>1. Ids' = 1..n  BY <1>4 DEF Ids
  <2> QED  BY <1>4, <2>1
<1>9. TypeOK'
  BY <1>1, <1>2, <1>4, <1>5, <1>6, <1>7 DEF TypeOK, Status
<1>10. Typed'
  <2>1. \A i \in Ids' : thread'[i] \in Shaped
    BY <1>2, <1>7, <1>8, FreshTypes DEF Typed
  <2>2. ASSUME NEW p \in Runners
        PROVE  /\ runner'[p].state \in Shaped
               /\ IF runner'[p].at = "idle" THEN runner'[p] = Idle ELSE runner'[p].inv \in Ids'
    BY <1>1, <1>2, <1>8, RunnerTypes
  <2> QED  BY <1>9, <2>1, <2>2 DEF Typed, Holds
<1>11. \A p \in Runners : runner[p].inv # n
  <2>1. SUFFICES ASSUME NEW p \in Runners, runner[p].inv = n PROVE FALSE
    OBVIOUS
  <2>2. runner[p].inv \in Ids \cup {0}  BY <1>2, RunnerTypes, FreshTypes
  <2> QED  BY <1>8, <2>1, <2>2
<1>12. ASSUME NEW j \in Ids PROVE Good(j)'
  <2>1. Alike(j)  BY <1>1, <1>4, <1>5, <1>6, <1>7 DEF Alike
  <2> QED  BY <1>2, <2>1, AlikeKept
<1>13. ASSUME NEW i, i = n PROVE Good(i)'
  <2>1. Answers(i)' = {} /\ \A k : Executed(i, k)' = {}
    BY <1>6, <1>13 DEF Answers, Executed
  <2>2. \A p \in Runners : runner'[p].inv # i  BY <1>1, <1>11, <1>13
  <2>3. \A r \in Requests : r \in Runners  BY DEF Runners
  <2>4. thread'[i] = Fresh /\ status'[i] = "queued"  BY <1>4, <1>7, <1>13
  <2>5. /\ Fresh.decision = NoDecision /\ Fresh.next = "plan" /\ NoDecision # "approve"
    BY DEF Fresh, NoDecision
  <2>6. Gate(i)'  BY <2>1, <2>2, <2>4, <2>5 DEF Gate
  <2>7. NothingExecuted(i)'  BY <2>1 DEF NothingExecuted
  <2>8. WorkerRuns(i)'  BY <2>2 DEF WorkerRuns, Runners
  <2>9. Unanswered(i)' /\ AnsweredOnce(i)'
    BY <2>1, <2>2, <2>3, <2>4, <2>5, <2>7 DEF Unanswered, AnsweredOnce
  <2>10. Complete(i)' /\ OneAnswer(i)'  BY <2>1, <2>4 DEF Complete, OneAnswer
  <2> QED  BY <2>6, <2>8, <2>9, <2>10 DEF Good, Phases
<1> QED  BY <1>8, <1>10, <1>12, <1>13 DEF IInv

------------------------------------------------------------------------------
(* The worker's steps.                                                       *)

\* The worker and a request are never at one investigation.
LEMMA NotBoth ==
  ASSUME NEW i, Phases(i), NEW r \in Requests, runner[r].inv = i
  PROVE  runner[Worker].inv # i
BY DEF Phases, WorkerRuns, Unanswered

\* What the worker may leave behind.
WorkerLeaves(i) ==
    LET w == runner'[Worker]
    IN  /\ status'[i] \in {"running", "needs_input", "done", "failed"}
        /\ status'[i] = "needs_input" => thread'[i].next = "execute_action"
        /\ status'[i] = "done" => thread'[i].next = "end" /\ report'[i]
        /\ thread'[i].decision = NoDecision
        /\ thread'[i].next \in {"synthesize", "end"} => thread'[i].proposed = 0
        /\ w = Idle \/ /\ status'[i] = "running"
                       /\ w.inv = i /\ w.at \in Working /\ ~w.resumed
                       /\ w.decision # "approve" /\ w.state.decision = NoDecision
                       /\ w.state.next \in {"synthesize", "end"} => w.state.proposed = 0
                       /\ w.at # "saving" => thread'[i] = w.state
                       /\ w.at = "writing" => w.state.next # "execute_action"
                       /\ w.at = "closing" => /\ w.state.next \in {"end", "execute_action"}
                                              /\ w.interrupted = (w.state.next # "end")

LEMMA WorkerKeeps ==
  ASSUME NEW i \in Ids, Typed, Good(i), Answers(i) = {}, NothingExecuted(i),
         \A r \in Requests : runner[r].inv # i,
         TouchesWell(Worker, i), Same(i), WorkerLeaves(i)
  PROVE  Good(i)'
<1>1. Worker \in Runners /\ Worker \notin Requests /\ \A r \in Requests : r \in Runners
  BY InvestigationAssumption DEF Runners
<1>2. Answers(i)' = {}  BY DEF Same, SameAnswers
<1>3. \A k \in 1..MaxProposed : Executed(i, k)' = {}
  BY DEF Same, SameExecuted, NothingExecuted
<1>4. \A r \in Requests : runner'[r].inv # i  BY <1>1 DEF TouchesWell, Touches
<1>5. Idle.inv # i /\ NoDecision # "approve" /\ i # 0
  BY FreshTypes, TableIds DEF NoDecision
<1>6. Gate(i)'
  <2>1. thread'[i].decision # "approve"  BY <1>5 DEF WorkerLeaves
  <2>2. ASSUME NEW p \in Runners, runner'[p].inv = i
        PROVE  runner'[p].state.decision # "approve" /\ runner'[p].decision # "approve"
    <3>1. p = Worker  BY <1>4, <2>2 DEF Runners
    <3> QED  BY <1>5, <2>2, <3>1 DEF WorkerLeaves
  <2> QED  BY <1>3, <2>1, <2>2 DEF Gate
<1>7. NothingExecuted(i)'  BY <1>3 DEF NothingExecuted
<1>8. WorkerRuns(i)'  BY <1>2, <1>5 DEF WorkerRuns, WorkerLeaves
<1>9. Unanswered(i)'  BY <1>2, <1>4, <1>7 DEF Unanswered, WorkerLeaves
<1>10. AnsweredOnce(i)'  BY <1>2, <1>4 DEF AnsweredOnce, WorkerLeaves
<1>11. Complete(i)'
  <2>1. status'[i] = "done" => report'[i] /\ thread'[i].proposed = 0  BY DEF WorkerLeaves
  <2> QED  BY <2>1 DEF Complete, Proposals
<1>12. OneAnswer(i)'  BY <1>2 DEF OneAnswer
<1> QED  BY <1>6, <1>8, <1>9, <1>10, <1>11, <1>12 DEF Good, Phases

\* What the worker is at, before its step.
LEMMA WorkerAt ==
  ASSUME IInv, NEW i \in Ids, runner[Worker].inv = i
  PROVE  /\ Good(i) /\ Answers(i) = {} /\ NothingExecuted(i)
         /\ \A r \in Requests : runner[r].inv # i
         /\ thread[i].decision = NoDecision
         /\ thread[i].next \in {"synthesize", "end"} => thread[i].proposed = 0
<1>1. Good(i) /\ Phases(i) /\ WorkerRuns(i) /\ Unanswered(i)  BY DEF IInv, Good, Phases
<1>2. Answers(i) = {}  BY <1>1 DEF WorkerRuns
<1> QED  BY <1>1, <1>2, NotBoth DEF Unanswered

LEMMA PollKeeps ==
  ASSUME IInv, Poll
  PROVE  IInv'
<1>1. PICK i \in Ids :
        /\ TouchesWell(Worker, i) /\ Same(i)
        /\ runner[Worker] = Idle /\ status[i] = "queued"
        /\ status'[i] = "running" /\ thread'[i] = thread[i] /\ report'[i] = report[i]
        /\ runner'[Worker] = [Idle EXCEPT !.at = "running", !.inv = i]
  BY PollDoes DEF IInv
<1>2. Typed /\ Good(i)  BY DEF IInv
<1>3. Answers(i) = {} /\ thread[i] = Fresh
  BY <1>1, <1>2 DEF Good, Phases, AnsweredOnce
<1>4. NothingExecuted(i) /\ \A r \in Requests : runner[r].inv # i
  BY <1>1, <1>2, <1>3 DEF Good, Phases, Unanswered
<1> DEFINE w == runner'[Worker]
<1>5. /\ w.at = "running" /\ w.inv = i /\ ~w.resumed /\ w.decision = NoDecision
      /\ w.state = Fresh
  BY <1>1 DEF Idle
<1>6. WorkerLeaves(i)
  BY <1>1, <1>3, <1>5 DEF WorkerLeaves, Working, Fresh, NoDecision
<1>7. Good(i)'  BY <1>1, <1>2, <1>3, <1>4, <1>6, WorkerKeeps
<1> QED  BY <1>1, <1>7, StepKeeps

LEMMA WorkerStepKeeps ==
  ASSUME IInv, Step(Worker) \/ Refuse(Worker) \/ Fail(Worker) \/ Kill(Worker)
  PROVE  IInv'
<1> DEFINE w == runner[Worker]
           v == runner'[Worker]
<1>1. Worker \in Runners /\ Typed  BY DEF Runners, IInv
<1>2. PICK i \in Ids : i = w.inv
  <2>1. w.at # "idle"
    BY DEF Step, Number, Enter, Update, Load, Node, Plan, Act, Critic, ExecuteAction,
           Synthesize, Ran, Save, GetState, Close, Refuse, Fail, Kill, Holds
  <2> QED  BY <1>1, <2>1, RunnerTypes
<1>3. /\ Good(i) /\ Answers(i) = {} /\ NothingExecuted(i)
      /\ \A r \in Requests : runner[r].inv # i
      /\ thread[i].decision = NoDecision
      /\ thread[i].next \in {"synthesize", "end"} => thread[i].proposed = 0
  BY <1>2, WorkerAt
<1>4. /\ w \in Runner /\ w.state \in Shaped /\ thread[i] \in Shaped
  BY <1>1, RunnerTypes DEF Typed
<1>5. /\ status[i] = "running" /\ w.at \in Working /\ ~w.resumed
      /\ w.state.decision = NoDecision
      /\ w.state.next \in {"synthesize", "end"} => w.state.proposed = 0
      /\ w.at # "saving" => thread[i] = w.state
      /\ w.at = "writing" => w.state.next # "execute_action"
      /\ w.at = "closing" => /\ w.state.next \in {"end", "execute_action"}
                             /\ w.interrupted = (w.state.next # "end")
  BY <1>2, <1>3 DEF Good, Phases, WorkerRuns
<1>6. w.decision # "approve"
  BY <1>1, <1>2, <1>3, <1>5 DEF Good, Gate, Approval, Entered
<1>7. SUFFICES TouchesWell(Worker, i) /\ Same(i) /\ WorkerLeaves(i)
  BY <1>1, <1>3, WorkerKeeps, StepKeeps
<1>8. CASE Number(Worker)
  <2> DEFINE r == [w EXCEPT !.base = LastNo(i),
                            !.at = IF Holds(Worker, "deciding") THEN "entering" ELSE "writing"]
  <2>1. /\ Does(Worker, i, r)
        /\ Holds(Worker, "deciding") \/ ~Finished(Worker)
        /\ status'[i] = status[i] /\ thread'[i] = thread[i] /\ report'[i] = report[i]
    BY <1>1, <1>2, <1>8, NumberDoes
  <2>2. w.at # "deciding" /\ w.at = "running"  BY <1>5, <1>8 DEF Working, Number, Holds
  <2>3. w.state.next # "execute_action"  BY <1>5, <2>1, <2>2 DEF Finished, Interrupts, Holds
  <2>4. v = [w EXCEPT !.base = LastNo(i), !.at = "writing"]
    <3>1. v = r  BY <2>1 DEF Does
    <3>2. ~Holds(Worker, "deciding")  BY <2>2 DEF Holds
    <3> QED  BY <3>1, <3>2
  <2>5. /\ v.at = "writing" /\ v.inv = i /\ v.state = w.state /\ v.decision = w.decision
        /\ v.resumed = w.resumed
    BY <1>2, <1>4, <2>4 DEF Runner
  <2>6. WorkerLeaves(i)
    BY <1>3, <1>5, <1>6, <2>1, <2>2, <2>3, <2>5 DEF WorkerLeaves, Working
  <2> QED  BY <2>1, <2>6 DEF Does
<1>9. CASE Enter(Worker) \/ Update(Worker) \/ Load(Worker) \/ Refuse(Worker)
  BY <1>5, <1>9 DEF Enter, Update, Load, Refuse, Holds, Working
<1>10. CASE Plan(Worker) \/ Act(Worker) \/ Critic(Worker)
  <2>1. /\ status'[i] = status[i] /\ thread'[i] = thread[i] /\ report'[i] = report[i]
        /\ \E state \in Shaped :
              /\ Does(Worker, i, Returned(Worker, state))
              /\ state.decision = runner[Worker].state.decision
              /\ state.next \in {"act", "critic", "execute_action", "synthesize"}
              /\ state.next = "synthesize" => state.proposed = 0
    BY <1>1, <1>2, <1>10, LoopDoes
  <2>2. PICK state \in Shaped :
              /\ Does(Worker, i, Returned(Worker, state))
              /\ state.decision = runner[Worker].state.decision
              /\ state.next \in {"act", "critic", "execute_action", "synthesize"}
              /\ state.next = "synthesize" => state.proposed = 0
    BY <2>1
  <2>3. /\ v.at = "saving" /\ v.inv = i /\ v.state = state /\ v.decision = w.decision
        /\ ~v.resumed
    BY <1>2, <1>4, <2>2 DEF Runner, Does, Returned
  <2>4. WorkerLeaves(i)
    BY <1>3, <1>5, <1>6, <2>1, <2>2, <2>3 DEF WorkerLeaves, Working
  <2> QED  BY <2>2, <2>4 DEF Does
<1>11. CASE ExecuteAction(Worker)
  BY <1>5, <1>11 DEF ExecuteAction, Ran, Holds
<1>12. CASE Synthesize(Worker)
  <2> DEFINE state == [w.state EXCEPT !.next = "end", !.report = TRUE]
  <2>1. /\ w.state.next = "synthesize" /\ Does(Worker, i, Returned(Worker, state))
        /\ status'[i] = status[i] /\ thread'[i] = thread[i] /\ report'[i] = report[i]
    BY <1>1, <1>2, <1>12, SynthesizeDoes
  <2>2. state.next = "end" /\ state.proposed = 0 /\ state.decision = NoDecision
    BY <1>4, <1>5, <2>1 DEF Shaped, State
  <2> HIDE DEF state
  <2>3. /\ v.at = "saving" /\ v.inv = i /\ v.state = state /\ v.decision = w.decision
        /\ ~v.resumed
    BY <1>2, <1>4, <2>1 DEF Runner, Does, Returned
  <2>4. WorkerLeaves(i)
    BY <1>3, <1>5, <1>6, <2>1, <2>2, <2>3 DEF WorkerLeaves, Working
  <2> QED  BY <2>1, <2>4 DEF Does
<1>13. CASE Save(Worker)
  <2>1. /\ Does(Worker, i, [w EXCEPT !.at = "running"])
        /\ status'[i] = status[i] /\ report'[i] = report[i]
        /\ thread'[i] = w.state
    BY <1>1, <1>2, <1>13, SaveDoes
  <2>2. /\ v.at = "running" /\ v.inv = i /\ v.state = w.state /\ v.decision = w.decision
        /\ v.resumed = w.resumed
    BY <1>2, <1>4, <2>1 DEF Runner, Does
  <2>3. WorkerLeaves(i)
    BY <1>3, <1>5, <1>6, <2>1, <2>2 DEF WorkerLeaves, Working
  <2> QED  BY <2>1, <2>3 DEF Does
<1>14. CASE GetState(Worker)
  <2>1. /\ Does(Worker, i, [w EXCEPT !.interrupted = thread[i].next # "end", !.at = "closing"])
        /\ Holds(Worker, "running") /\ Finished(Worker)
        /\ status'[i] = status[i] /\ thread'[i] = thread[i] /\ report'[i] = report[i]
    BY <1>1, <1>2, <1>14, GetStateDoes
  <2>2. /\ v.at = "closing" /\ v.inv = i /\ v.state = w.state /\ v.decision = w.decision
        /\ v.resumed = w.resumed /\ v.interrupted = (thread[i].next # "end")
    BY <1>2, <1>4, <2>1 DEF Runner, Does
  <2>3. w.state.next \in {"end", "execute_action"} /\ thread[i] = w.state
    BY <1>5, <2>1 DEF Finished, Interrupts, Holds
  <2>4. WorkerLeaves(i)
    BY <1>3, <1>5, <1>6, <2>1, <2>2, <2>3 DEF WorkerLeaves, Working
  <2> QED  BY <2>1, <2>4 DEF Does
<1>15. CASE Close(Worker)
  <2>1. /\ Does(Worker, i, Idle) /\ Holds(Worker, "closing")
        /\ thread'[i] = thread[i]
        /\ status'[i] = IF w.interrupted THEN "needs_input" ELSE "done"
        /\ report'[i] = IF w.interrupted THEN report[i] ELSE w.state.report
    BY <1>1, <1>2, <1>15, CloseDoes
  <2>2. w.state.next = "end" => w.state.report  BY <1>4 DEF Shaped
  <2>3. w.at = "closing" /\ thread[i] = w.state  BY <1>5, <2>1 DEF Holds
  <2>4. WorkerLeaves(i)
    BY <1>3, <1>5, <2>1, <2>2, <2>3 DEF WorkerLeaves, Does
  <2> QED  BY <2>1, <2>4 DEF Does
<1>16. CASE Fail(Worker)
  <2>1. /\ Does(Worker, i, Idle)
        /\ status'[i] = "failed" /\ thread'[i] = thread[i] /\ report'[i] = report[i]
    BY <1>1, <1>2, <1>16, FailDoes
  <2>2. WorkerLeaves(i)  BY <1>3, <2>1 DEF WorkerLeaves, Does
  <2> QED  BY <2>1, <2>2 DEF Does
<1>17. CASE Kill(Worker)
  <2>1. /\ Does(Worker, i, Idle)
        /\ status'[i] = status[i] /\ thread'[i] = thread[i] /\ report'[i] = report[i]
    BY <1>1, <1>2, <1>17, KillDoes
  <2>2. WorkerLeaves(i)  BY <1>3, <1>5, <2>1 DEF WorkerLeaves, Does
  <2> QED  BY <2>1, <2>2 DEF Does
<1> QED
  BY <1>8, <1>9, <1>10, <1>11, <1>12, <1>13, <1>14, <1>15, <1>16, <1>17 DEF Step, Node

------------------------------------------------------------------------------
(* The requests' steps.                                                      *)

\* A request that has not answered yet, or is refused.
Waits(p, i) ==
    LET q == runner'[p]
    IN  q = Idle \/ /\ q.inv = i /\ q.at \in Entering /\ q.decision \in Decisions
                    /\ q.state.decision = "approve" => Approval(i)
                    /\ Answers(i) = {} => status[i] = "needs_input"

LEMMA WaitingKeeps ==
  ASSUME NEW i \in Ids, Typed, Good(i), NEW p \in Requests, runner[Worker].inv # i,
         runner[p].inv = i => runner[p].at \in Entering,
         TouchesWell(p, i), Same(i), Waits(p, i),
         status'[i] = status[i], thread'[i] = thread[i], report'[i] = report[i]
  PROVE  Good(i)'
<1>1. p \in Runners /\ p # Worker /\ \A r \in Requests : r \in Runners /\ r # Worker
  BY InvestigationAssumption DEF Runners
<1>2. Answers(i)' = Answers(i) /\ \A h \in Answers(i) : trace'[i][h] = trace[i][h]
  BY DEF Same, SameAnswers
<1>3. \A k \in 1..MaxProposed : Executed(i, k)' = Executed(i, k)
  BY DEF Same, SameExecuted
<1>4. \A q \in Runners : q # p => runner'[q] = runner[q]  BY DEF TouchesWell, Touches
<1>5. Idle.inv # i /\ i # 0  BY FreshTypes, TableIds
<1>6. Approval(i)' <=> Approval(i)  BY <1>2 DEF Approval
<1>7. \A x \in Entering : x \notin Entered  BY DEF Entering, Entered, Working
<1>8. NothingExecuted(i)' <=> NothingExecuted(i)  BY <1>3 DEF NothingExecuted
<1>9. \A r \in Requests : runner'[r].inv = i /\ runner'[r].at \in Entered =>
         r # p /\ runner'[r] = runner[r]
  BY <1>1, <1>4, <1>5, <1>7 DEF Waits
<1>10. Gate(i)'
  <2>1. thread'[i].decision = "approve" => Approval(i)'
    BY <1>6 DEF Good, Gate
  <2>2. ASSUME NEW q \in Runners, runner'[q].inv = i
        PROVE  /\ runner'[q].state.decision = "approve" => Approval(i)'
               /\ runner'[q].at \in Entered /\ runner'[q].decision = "approve" => Approval(i)'
    <3>1. CASE q = p
      BY <1>5, <1>6, <1>7, <2>2, <3>1 DEF Waits
    <3>2. CASE q # p
      BY <1>4, <1>6, <2>2, <3>2 DEF Good, Gate
    <3> QED  BY <3>1, <3>2
  <2>3. ASSUME NEW k \in 1..MaxProposed, NEW m \in Executed(i, k)'
        PROVE  \E h \in Answers(i)' : h < m /\ trace'[i][h].decision = "approve"
    <3>1. m \in Executed(i, k)  BY <1>3
    <3>2. PICK h \in Answers(i) : h < m /\ trace[i][h].decision = "approve"
      BY <3>1 DEF Good, Gate
    <3> QED  BY <1>2, <3>2
  <2> QED  BY <2>1, <2>2, <2>3 DEF Gate
<1>11. WorkerRuns(i)'
  BY <1>1, <1>4 DEF WorkerRuns, Runners
<1>12. Unanswered(i)'
  <2> SUFFICES ASSUME Answers(i)' = {} PROVE Unanswered(i)'
    BY DEF Unanswered
  <2>1. ASSUME NEW r \in Requests, runner'[r].inv = i
        PROVE  runner'[r].at \in Entering /\ status'[i] = "needs_input"
    <3>1. CASE r = p
      BY <1>2, <1>5, <2>1, <3>1 DEF Waits
    <3>2. CASE r # p
      BY <1>1, <1>2, <1>4, <2>1, <3>2 DEF Good, Phases, Unanswered
    <3> QED  BY <3>1, <3>2
  <2> QED  BY <1>2, <1>8, <2>1 DEF Good, Phases, Unanswered
<1>13. AnsweredOnce(i)'
  <2>1. \A x \in Entering : x \notin Working  BY DEF Entering, Working
  <2>2. ASSUME NEW r \in Requests, runner'[r].inv = i
        PROVE  /\ runner'[r].at \in Entering \cup Entered
               /\ runner'[r].decision \in Decisions
               /\ runner'[r].at \in Working =>
                     /\ runner'[r].state.next \in Past
                     /\ runner'[r].state.next = "execute_action" =>
                           runner'[r].resumed /\ runner'[r].at \in {"running", "writing"}
                     /\ runner'[r].at = "closing" => runner'[r].state.next = "end"
    <3>1. CASE r = p
      BY <1>5, <2>1, <2>2, <3>1 DEF Waits
    <3>2. CASE r # p
      BY <1>1, <1>4, <2>2, <3>2 DEF Good, Phases, AnsweredOnce
    <3> QED  BY <3>1, <3>2
  <2> QED  BY <1>2, <2>2 DEF Good, Phases, AnsweredOnce
<1>14. Complete(i)'
  BY <1>2 DEF Good, Complete, Proposals
<1>15. OneAnswer(i)'
  <2> SUFFICES ASSUME NEW h \in Answers(i)', NEW d \in Decisions \cup {NoDecision},
                      Answers(i)' = {h}, trace'[i][h].decision = d
               PROVE  /\ status'[i] = "done" => Honoured(i, thread[i].proposed, d)'
                      /\ \A r \in Requests : runner'[r].inv = i /\ runner'[r].at \in Entered =>
                            Alone(i, r)' /\ Carries(i, d, r)'
    BY DEF OneAnswer
  <2>1. h \in Answers(i) /\ Answers(i) = {h} /\ trace[i][h].decision = d  BY <1>2
  <2>2. /\ status[i] = "done" => Honoured(i, thread[i].proposed, d)
        /\ \A r \in Requests : runner[r].inv = i /\ runner[r].at \in Entered =>
              Alone(i, r) /\ Carries(i, d, r)
    BY <2>1 DEF Good, OneAnswer
  <2>3. thread[i].proposed \in 0..MaxProposed  BY TableIds DEF State
  <2>4. status'[i] = "done" => Honoured(i, thread[i].proposed, d)'
    <3>1. \A k \in 1..thread[i].proposed : k \in 1..MaxProposed
      BY <2>3, InvestigationAssumption
    <3> QED  BY <1>3, <2>2, <3>1 DEF Honoured
  <2>5. ASSUME NEW r \in Requests, runner'[r].inv = i, runner'[r].at \in Entered
        PROVE  Alone(i, r)' /\ Carries(i, d, r)'
    <3>1. runner'[r] = runner[r] /\ Alone(i, r) /\ Carries(i, d, r)
      BY <1>9, <2>2, <2>5
    <3>2. Alone(i, r)'  BY <1>1, <1>4, <1>9, <3>1 DEF Alone
    <3>3. runner[r].state.proposed \in 0..MaxProposed
      BY <1>1, RunnerTypes DEF Runner, State
    <3>4. \A k \in 1..runner[r].state.proposed : k \in 1..MaxProposed
      BY <3>3, InvestigationAssumption
    <3>5. Honoured(i, runner[r].state.proposed, d)' <=> Honoured(i, runner[r].state.proposed, d)
      BY <1>3, <3>1, <3>4 DEF Honoured
    <3> QED  BY <1>8, <3>1, <3>2, <3>5 DEF Carries
  <2> QED  BY <2>4, <2>5
<1> QED  BY <1>10, <1>11, <1>12, <1>13, <1>14, <1>15 DEF Good, Phases

\* What a request that has answered may leave behind.
RequestLeaves(p, i) ==
    LET q == runner'[p]
    IN  /\ status'[i] # "queued"
        /\ status'[i] = "done" => report'[i]
        /\ thread'[i].next \in Past
        /\ thread'[i].decision = "approve" => Approval(i)
        /\ q = Idle \/ /\ q.inv = i /\ q.at \in Entered /\ q.decision = runner[p].decision
                       /\ q.state.decision = "approve" => Approval(i)
                       /\ q.at \in Working =>
                             /\ q.state.next \in Past
                             /\ q.state.next = "execute_action" =>
                                   q.resumed /\ q.at \in {"running", "writing"}
                             /\ q.at = "closing" => q.state.next = "end"

\* If it is the only one that has answered, it carries its decision on, or is through with it.
Continues(p, i) ==
    \A d \in Decisions \cup {NoDecision} : Carries(i, d, p) =>
      /\ status'[i] = "done" => Honoured(i, thread[i].proposed, d)'
      /\ runner'[p] = Idle \/ Carries(i, d, p)'

LEMMA RequestKeeps ==
  ASSUME NEW i \in Ids, Typed, Good(i), NEW p \in Requests, runner[p].inv = i,
         runner[p].at \in Entered, TouchesWell(p, i), SameAnswers(i),
         \A k \in 1..MaxProposed : \A m \in Executed(i, k)' :
            m \in Executed(i, k) \/ \E h \in Answers(i) : h < m /\ trace[i][h].decision = "approve",
         RequestLeaves(p, i), Continues(p, i)
  PROVE  Good(i)'
<1>1. p \in Runners /\ p # Worker /\ \A r \in Requests : r \in Runners /\ r # Worker
  BY InvestigationAssumption DEF Runners
<1>2. Answers(i)' = Answers(i) /\ \A h \in Answers(i) : trace'[i][h] = trace[i][h]
  BY DEF SameAnswers
<1>3. \A q \in Runners : q # p => runner'[q] = runner[q]  BY DEF TouchesWell, Touches
<1>4. Idle.inv # i /\ i # 0  BY FreshTypes, TableIds
<1>5. Approval(i)' <=> Approval(i)  BY <1>2 DEF Approval
<1>6. \A x \in Entering : x \notin Entered  BY DEF Entering, Entered, Working
<1>7. Answers(i) # {}
  BY <1>6 DEF Good, Phases, Unanswered
<1>8. runner[Worker].inv # i  BY NotBoth DEF Good
<1>9. Gate(i)'
  <2>1. thread'[i].decision = "approve" => Approval(i)'  BY <1>5 DEF RequestLeaves
  <2>2. ASSUME NEW q \in Runners, runner'[q].inv = i
        PROVE  /\ runner'[q].state.decision = "approve" => Approval(i)'
               /\ runner'[q].at \in Entered /\ runner'[q].decision = "approve" => Approval(i)'
    <3>1. CASE q = p
      <4>1. runner[p].decision = "approve" => Approval(i)  BY <1>1 DEF Good, Gate
      <4> QED  BY <1>4, <1>5, <2>2, <3>1, <4>1 DEF RequestLeaves
    <3>2. CASE q # p
      BY <1>3, <1>5, <2>2, <3>2 DEF Good, Gate
    <3> QED  BY <3>1, <3>2
  <2>3. ASSUME NEW k \in 1..MaxProposed, NEW m \in Executed(i, k)'
        PROVE  \E h \in Answers(i)' : h < m /\ trace'[i][h].decision = "approve"
    <3>1. \E h \in Answers(i) : h < m /\ trace[i][h].decision = "approve"
      BY DEF Good, Gate
    <3> QED  BY <1>2, <3>1
  <2> QED  BY <2>1, <2>2, <2>3 DEF Gate
<1>10. WorkerRuns(i)'
  BY <1>1, <1>3, <1>8 DEF WorkerRuns, Runners
<1>11. Unanswered(i)'  BY <1>2, <1>7 DEF Unanswered
<1>12. AnsweredOnce(i)'
  <2>1. ASSUME NEW r \in Requests, runner'[r].inv = i
        PROVE  /\ runner'[r].at \in Entering \cup Entered
               /\ runner'[r].decision \in Decisions
               /\ runner'[r].at \in Working =>
                     /\ runner'[r].state.next \in Past
                     /\ runner'[r].state.next = "execute_action" =>
                           runner'[r].resumed /\ runner'[r].at \in {"running", "writing"}
                     /\ runner'[r].at = "closing" => runner'[r].state.next = "end"
    <3>1. CASE r = p
      <4>1. runner[p].decision \in Decisions  BY DEF Good, Phases, AnsweredOnce
      <4> QED  BY <1>4, <2>1, <3>1, <4>1 DEF RequestLeaves
    <3>2. CASE r # p
      BY <1>1, <1>3, <2>1, <3>2 DEF Good, Phases, AnsweredOnce
    <3> QED  BY <3>1, <3>2
  <2> QED  BY <2>1 DEF RequestLeaves, AnsweredOnce
<1>13. Complete(i)'
  BY <1>2, <1>7 DEF RequestLeaves, Complete
<1>14. OneAnswer(i)'
  <2> SUFFICES ASSUME NEW h \in Answers(i)', NEW d \in Decisions \cup {NoDecision},
                      Answers(i)' = {h}, trace'[i][h].decision = d
               PROVE  /\ status'[i] = "done" => Honoured(i, thread[i].proposed, d)'
                      /\ \A r \in Requests : runner'[r].inv = i /\ runner'[r].at \in Entered =>
                            Alone(i, r)' /\ Carries(i, d, r)'
    BY DEF OneAnswer
  <2>1. h \in Answers(i) /\ Answers(i) = {h} /\ trace[i][h].decision = d  BY <1>2
  <2>2. Alone(i, p) /\ Carries(i, d, p)
    BY <2>1 DEF Good, OneAnswer
  <2>3. /\ status'[i] = "done" => Honoured(i, thread[i].proposed, d)'
        /\ runner'[p] = Idle \/ Carries(i, d, p)'
    BY <2>2 DEF Continues
  <2>4. \A r \in Requests : runner'[r].inv = i /\ runner'[r].at \in Entered => r = p
    BY <1>1, <1>3, <2>2 DEF Alone
  <2>5. runner'[p].inv = i => Carries(i, d, p)'  BY <1>4, <2>3
  <2> QED  BY <2>3, <2>4, <2>5 DEF Alone
<1> QED  BY <1>9, <1>10, <1>11, <1>12, <1>13, <1>14 DEF Good, Phases

\* A step that executes nothing.
LEMMA SameKeeps ==
  ASSUME NEW i \in Ids, Typed, Good(i), NEW p \in Requests, runner[p].inv = i,
         runner[p].at \in Entered, TouchesWell(p, i), Same(i),
         RequestLeaves(p, i), Continues(p, i)
  PROVE  Good(i)'
<1>1. SameAnswers(i) /\ \A k \in 1..MaxProposed : \A m \in Executed(i, k)' : m \in Executed(i, k)
  BY DEF Same, SameExecuted
<1> QED  BY <1>1, RequestKeeps

\* What is executed so far is honoured as it was.
LEMMA StillHonoured ==
  ASSUME NEW i, SameExecuted(i), NEW n \in 0..MaxProposed, NEW d
  PROVE  /\ Honoured(i, n, d) <=>
              \A k \in 1..n : Cardinality(Executed(i, k)') = IF d = "approve" THEN 1 ELSE 0
         /\ NothingExecuted(i)' <=> NothingExecuted(i)
<1>1. \A k \in 1..n : k \in 1..MaxProposed  BY InvestigationAssumption
<1> QED  BY <1>1 DEF SameExecuted, Honoured, NothingExecuted

\* What a request that has answered is at, before its step.
LEMMA RequestAt ==
  ASSUME IInv, NEW p \in Requests, NEW i \in Ids, runner[p].inv = i, runner[p].at \in Entered
  PROVE  LET q == runner[p]
         IN  /\ q \in Runner /\ q.state \in Shaped /\ thread[i] \in Shaped
             /\ q.state.proposed \in 0..MaxProposed /\ thread[i].proposed \in 0..MaxProposed
             /\ status[i] # "queued" /\ thread[i].next \in Past
             /\ status[i] = "done" => report[i]
             /\ thread[i].decision = "approve" => Approval(i)
             /\ q.state.decision = "approve" => Approval(i)
             /\ q.decision = "approve" => Approval(i)
             /\ q.at \in Working =>
                   /\ q.state.next \in Past
                   /\ q.state.next = "execute_action" =>
                         q.resumed /\ q.at \in {"running", "writing"}
                   /\ q.at = "closing" => q.state.next = "end"
<1>1. p \in Runners /\ Typed /\ Good(i)  BY DEF Runners, IInv
<1>2. \A x \in Entering : x \notin Entered  BY DEF Entering, Entered, Working
<1>3. Answers(i) # {}  BY <1>1, <1>2 DEF Good, Phases, Unanswered
<1>4. /\ runner[p] \in Runner /\ runner[p].state \in Shaped /\ thread[i] \in Shaped
      /\ thread[i] \in State
  BY <1>1, RunnerTypes, TableIds DEF Typed
<1>5. runner[p].state.proposed \in 0..MaxProposed /\ thread[i].proposed \in 0..MaxProposed
  BY <1>4 DEF Runner, State
<1>6. /\ status[i] # "queued" /\ thread[i].next \in Past
      /\ runner[p].at \in Working =>
            /\ runner[p].state.next \in Past
            /\ runner[p].state.next = "execute_action" =>
                  runner[p].resumed /\ runner[p].at \in {"running", "writing"}
            /\ runner[p].at = "closing" => runner[p].state.next = "end"
  BY <1>1, <1>3 DEF Good, Phases, AnsweredOnce
<1>7. status[i] = "done" => report[i]  BY <1>1 DEF Good, Complete
<1>8. /\ thread[i].decision = "approve" => Approval(i)
      /\ runner[p].state.decision = "approve" => Approval(i)
      /\ runner[p].decision = "approve" => Approval(i)
  BY <1>1 DEF Good, Gate
<1> QED  BY <1>4, <1>5, <1>6, <1>7, <1>8

LEMMA RequestStepKeeps ==
  ASSUME IInv, NEW p \in Requests, runner[p].at \in Entered,
         Step(p) \/ Refuse(p) \/ Fail(p) \/ Kill(p)
  PROVE  IInv'
<1> DEFINE q == runner[p]
           v == runner'[p]
<1>1. p \in Runners /\ Typed  BY DEF Runners, IInv
<1>2. PICK i \in Ids : i = q.inv
  <2>1. q.at # "idle"  BY DEF Entered, Working
  <2> QED  BY <1>1, <2>1, RunnerTypes
<1>3. Good(i)  BY DEF IInv
<1>4. /\ q \in Runner /\ q.state \in Shaped /\ thread[i] \in Shaped
      /\ q.state.proposed \in 0..MaxProposed /\ thread[i].proposed \in 0..MaxProposed
      /\ status[i] # "queued" /\ thread[i].next \in Past
      /\ status[i] = "done" => report[i]
      /\ thread[i].decision = "approve" => Approval(i)
      /\ q.state.decision = "approve" => Approval(i)
      /\ q.decision = "approve" => Approval(i)
      /\ q.at \in Working =>
            /\ q.state.next \in Past
            /\ q.state.next = "execute_action" =>
                  q.resumed /\ q.at \in {"running", "writing"}
            /\ q.at = "closing" => q.state.next = "end"
  BY <1>2, RequestAt
<1>5. ASSUME TouchesWell(p, i), Good(i)' PROVE IInv'
  BY <1>5, StepKeeps
<1>6. ASSUME TouchesWell(p, i), Same(i), RequestLeaves(p, i), Continues(p, i) PROVE IInv'
  BY <1>1, <1>2, <1>3, <1>5, <1>6, SameKeeps
\* A step that executes nothing, writes no status, and does not disturb the checkpoint.
<1>7. ASSUME SameExecuted(i)
      PROVE  /\ NothingExecuted(i)' <=> NothingExecuted(i)
             /\ \A n \in 0..MaxProposed : \A d : Honoured(i, n, d) =>
                  \A k \in 1..n : Cardinality(Executed(i, k)') = IF d = "approve" THEN 1 ELSE 0
  <2>1. ASSUME NEW n \in 0..MaxProposed, NEW d, Honoured(i, n, d)
        PROVE  \A k \in 1..n : Cardinality(Executed(i, k)') = IF d = "approve" THEN 1 ELSE 0
    BY <1>7, <2>1, StillHonoured
  <2>2. NothingExecuted(i)' <=> NothingExecuted(i)
    BY <1>7 DEF SameExecuted, NothingExecuted
  <2> QED  BY <2>1, <2>2
<1>8. CASE Number(p)
  <2> DEFINE r == [q EXCEPT !.base = LastNo(i),
                            !.at = IF Holds(p, "deciding") THEN "entering" ELSE "writing"]
  <2>1. /\ Does(p, i, r)
        /\ status'[i] = status[i] /\ thread'[i] = thread[i] /\ report'[i] = report[i]
    BY <1>1, <1>2, <1>8, NumberDoes
  <2>2. q.at = "running"  BY <1>8 DEF Entered, Working, Number, Holds
  <2>3. v = [q EXCEPT !.base = LastNo(i), !.at = "writing"]
    <3>1. v = r  BY <2>1 DEF Does
    <3>2. ~Holds(p, "deciding")  BY <2>2 DEF Holds
    <3> QED  BY <3>1, <3>2
  <2>4. /\ v.at = "writing" /\ v.inv = i /\ v.state = q.state /\ v.decision = q.decision
        /\ v.resumed = q.resumed
    BY <1>2, <1>4, <2>3 DEF Runner
  <2>5. TouchesWell(p, i) /\ Same(i) /\ SameExecuted(i)  BY <2>1 DEF Does, Same
  <2>6. RequestLeaves(p, i)
    BY <1>4, <2>1, <2>2, <2>4 DEF RequestLeaves, Working, Entered
  <2>7. Continues(p, i)
    BY <1>4, <1>7, <2>1, <2>2, <2>4, <2>5 DEF Continues, Carries, Working, Honoured
  <2> QED  BY <1>6, <2>5, <2>6, <2>7
<1>9. CASE Enter(p) \/ Refuse(p)
  BY <1>9 DEF Enter, Refuse, Holds, Entered, Working
<1>10. CASE Update(p)
  <2>1. /\ Does(p, i, [q EXCEPT !.at = "loading"]) /\ Holds(p, "updating")
        /\ status'[i] = status[i] /\ report'[i] = report[i]
        /\ thread'[i] = [thread[i] EXCEPT !.decision = q.decision]
    BY <1>1, <1>2, <1>10, UpdateDoes
  <2>2. v.at = "loading" /\ v.inv = i /\ v.state = q.state /\ v.decision = q.decision
    BY <1>2, <1>4, <2>1 DEF Runner, Does
  <2>3. /\ thread'[i].next = thread[i].next /\ thread'[i].proposed = thread[i].proposed
        /\ thread'[i].decision = q.decision
    BY <1>4, <2>1 DEF Shaped, State
  <2>4. TouchesWell(p, i) /\ Same(i) /\ SameExecuted(i)  BY <2>1 DEF Does, Same
  <2>5. RequestLeaves(p, i)
    BY <1>4, <2>1, <2>2, <2>3 DEF RequestLeaves, Working, Entered
  <2>6. Continues(p, i)
    BY <1>7, <2>1, <2>2, <2>3, <2>4 DEF Continues, Carries, Working, Holds
  <2> QED  BY <1>6, <2>4, <2>5, <2>6
<1>11. CASE Load(p)
  <2>1. /\ Does(p, i, [q EXCEPT !.state = thread[i], !.resumed = TRUE, !.at = "running"])
        /\ Holds(p, "loading")
        /\ status'[i] = status[i] /\ thread'[i] = thread[i] /\ report'[i] = report[i]
    BY <1>1, <1>2, <1>11, LoadDoes
  <2>2. /\ v.at = "running" /\ v.inv = i /\ v.state = thread[i] /\ v.decision = q.decision
        /\ v.resumed
    BY <1>2, <1>4, <2>1 DEF Runner, Does
  <2>3. TouchesWell(p, i) /\ Same(i) /\ SameExecuted(i)  BY <2>1 DEF Does, Same
  <2>4. RequestLeaves(p, i)
    BY <1>4, <2>1, <2>2 DEF RequestLeaves, Working, Entered
  <2>5. Continues(p, i)
    BY <1>7, <2>1, <2>2, <2>3 DEF Continues, Carries, Working, Holds
  <2> QED  BY <1>6, <2>3, <2>4, <2>5
<1>12. CASE Plan(p) \/ Act(p) \/ Critic(p)
  BY <1>4, <1>12 DEF Plan, Act, Critic, Ran, Holds, Past, Working
<1>13. CASE ExecuteAction(p)
  <2> DEFINE new == Returned(p, [q.state EXCEPT !.next = "synthesize"])
  <2>1. /\ TouchesWell(p, i) /\ SameAnswers(i) /\ v = new
        /\ Holds(p, "writing") /\ q.state.next = "execute_action"
        /\ status'[i] = status[i] /\ thread'[i] = thread[i] /\ report'[i] = report[i]
        /\ q.state.decision # "approve" => SameExecuted(i)
        /\ q.state.decision = "approve" =>
             \A n \in 1..MaxProposed :
                Executed(i, n)' = IF n <= q.state.proposed
                                  THEN Executed(i, n) \cup {Len(trace[i]) + n}
                                  ELSE Executed(i, n)
    BY <1>1, <1>2, <1>13, ExecuteDoes
  <2>2. /\ v.at = "saving" /\ v.inv = i /\ v.decision = q.decision
        /\ v.state.next = "synthesize" /\ v.state.decision = q.state.decision
        /\ v.state.proposed = q.state.proposed
    BY <1>2, <1>4, <2>1 DEF Runner, Returned, Shaped, State
  <2>3. RequestLeaves(p, i)
    BY <1>4, <2>1, <2>2 DEF RequestLeaves, Working, Entered, Past
  <2>4. ASSUME NEW k \in 1..MaxProposed, NEW m \in Executed(i, k)'
        PROVE  m \in Executed(i, k) \/ \E h \in Answers(i) : h < m /\ trace[i][h].decision = "approve"
    <3>1. CASE q.state.decision # "approve"
      BY <2>1, <3>1 DEF SameExecuted
    <3>2. CASE q.state.decision = "approve" /\ m \notin Executed(i, k)
      <4>1. m = Len(trace[i]) + k  BY <2>1, <2>4, <3>2
      <4>2. PICK h \in Answers(i) : trace[i][h].decision = "approve"
        BY <1>4, <3>2 DEF Approval
      <4>3. DOMAIN trace[i] = 1..Len(trace[i]) /\ Len(trace[i]) \in Nat
        BY <1>1, TableIds, LenProperties
      <4>4. h \in 1..Len(trace[i]) /\ k \in Nat /\ k > 0
        BY <4>3, InvestigationAssumption DEF Answers
      <4>5. h < m  BY <4>1, <4>3, <4>4
      <4> QED  BY <4>2, <4>5
    <3> QED  BY <3>1, <3>2
  <2>5. Continues(p, i)
    <3> SUFFICES ASSUME NEW d \in Decisions \cup {NoDecision}, Carries(i, d, p)
                 PROVE  /\ status'[i] # "done"
                        /\ Carries(i, d, p)'
      BY DEF Continues
    <3>1. /\ status[i] = "running" /\ q.decision = d /\ thread[i].decision = d
          /\ q.state.decision = d /\ q.state.proposed = thread[i].proposed
          /\ NothingExecuted(i)
      BY <2>1 DEF Carries, Working, Holds
    <3>2. ASSUME NEW k \in 1..v.state.proposed
          PROVE  Cardinality(Executed(i, k)') = IF d = "approve" THEN 1 ELSE 0
      <4>1. k \in 1..MaxProposed /\ k <= q.state.proposed
        BY <1>4, <2>2, InvestigationAssumption
      <4>2. Executed(i, k) = {}  BY <3>1, <4>1 DEF NothingExecuted
      <4>3. CASE d = "approve"
        <5>1. Executed(i, k)' = {Len(trace[i]) + k}  BY <2>1, <3>1, <4>1, <4>2, <4>3
        <5> QED  BY <4>3, <5>1, FS_Singleton
      <4>4. CASE d # "approve"
        <5>1. Executed(i, k)' = {}  BY <2>1, <3>1, <4>1, <4>2, <4>4 DEF SameExecuted
        <5> QED  BY <4>4, <5>1, FS_EmptySet
      <4> QED  BY <4>3, <4>4
    <3>3. Honoured(i, runner[p].state.proposed, d)'  BY <3>2 DEF Honoured
    <3> QED  BY <2>1, <2>2, <3>1, <3>3 DEF Carries, Working
  <2> QED  BY <1>1, <1>2, <1>3, <1>5, <2>1, <2>3, <2>4, <2>5, RequestKeeps
<1>14. CASE Synthesize(p)
  <2> DEFINE state == [q.state EXCEPT !.next = "end", !.report = TRUE]
  <2>1. /\ Holds(p, "writing") /\ q.state.next = "synthesize" /\ Does(p, i, Returned(p, state))
        /\ status'[i] = status[i] /\ thread'[i] = thread[i] /\ report'[i] = report[i]
    BY <1>1, <1>2, <1>14, SynthesizeDoes
  <2>2. /\ state.next = "end" /\ state.proposed = q.state.proposed
        /\ state.decision = q.state.decision
    BY <1>4 DEF Shaped, State
  <2> HIDE DEF state
  <2>3. v.at = "saving" /\ v.inv = i /\ v.state = state /\ v.decision = q.decision
    BY <1>2, <1>4, <2>1 DEF Runner, Does, Returned
  <2>4. TouchesWell(p, i) /\ Same(i) /\ SameExecuted(i)  BY <2>1 DEF Does, Same
  <2>5. RequestLeaves(p, i)
    BY <1>4, <2>1, <2>2, <2>3 DEF RequestLeaves, Working, Entered, Past
  <2>6. Continues(p, i)
    BY <1>4, <1>7, <2>1, <2>2, <2>3, <2>4 DEF Continues, Carries, Working, Holds, Honoured
  <2> QED  BY <1>6, <2>4, <2>5, <2>6
<1>15. CASE Save(p)
  <2>1. /\ Does(p, i, [q EXCEPT !.at = "running"]) /\ Holds(p, "saving")
        /\ status'[i] = status[i] /\ report'[i] = report[i]
        /\ thread'[i] = q.state
    BY <1>1, <1>2, <1>15, SaveDoes
  <2>2. /\ v.at = "running" /\ v.inv = i /\ v.state = q.state /\ v.decision = q.decision
    BY <1>2, <1>4, <2>1 DEF Runner, Does
  <2>3. TouchesWell(p, i) /\ Same(i) /\ SameExecuted(i)  BY <2>1 DEF Does, Same
  <2>4. q.state.next # "execute_action"  BY <1>4, <2>1 DEF Holds, Working
  <2>5. RequestLeaves(p, i)
    BY <1>4, <2>1, <2>2, <2>4 DEF RequestLeaves, Working, Entered, Holds
  <2>6. Continues(p, i)
    BY <1>4, <1>7, <2>1, <2>2, <2>3, <2>4, ZenonT(60) DEF Continues, Carries, Working, Holds, Honoured
  <2> QED  BY <1>6, <2>3, <2>5, <2>6
<1>16. CASE GetState(p)
  <2>1. /\ Does(p, i, [q EXCEPT !.interrupted = thread[i].next # "end", !.at = "closing"])
        /\ Holds(p, "running") /\ Finished(p)
        /\ status'[i] = status[i] /\ thread'[i] = thread[i] /\ report'[i] = report[i]
    BY <1>1, <1>2, <1>16, GetStateDoes
  <2>2. /\ v.at = "closing" /\ v.inv = i /\ v.state = q.state /\ v.decision = q.decision
        /\ v.interrupted = (thread[i].next # "end")
    BY <1>2, <1>4, <2>1 DEF Runner, Does
  <2>3. q.state.next = "end"  BY <1>4, <2>1 DEF Finished, Interrupts, Holds, Working
  <2>4. TouchesWell(p, i) /\ Same(i) /\ SameExecuted(i)  BY <2>1 DEF Does, Same
  <2>5. RequestLeaves(p, i)
    BY <1>4, <2>1, <2>2, <2>3 DEF RequestLeaves, Working, Entered, Past
  <2>6. Continues(p, i)
    <3> SUFFICES ASSUME NEW d \in Decisions \cup {NoDecision}, Carries(i, d, p)
                 PROVE  /\ status'[i] # "done"
                        /\ Carries(i, d, p)'
      BY DEF Continues
    <3>1. /\ status[i] = "running" /\ q.decision = d /\ thread[i].decision = d
          /\ q.state.decision = d /\ q.state.proposed = thread[i].proposed
          /\ Honoured(i, q.state.proposed, d) /\ thread[i] = q.state
      BY <2>1, <2>3 DEF Carries, Working, Holds
    <3>2. ~v.interrupted  BY <2>2, <2>3, <3>1
    <3>3. Honoured(i, runner[p].state.proposed, d)'
      BY <1>4, <1>7, <2>2, <2>4, <3>1, ZenonT(60) DEF Honoured
    <3> QED  BY <2>1, <2>2, <2>3, <3>1, <3>2, <3>3 DEF Carries, Working
  <2> QED  BY <1>6, <2>4, <2>5, <2>6
<1>17. CASE Close(p)
  <2>1. /\ Does(p, i, Idle) /\ Holds(p, "closing")
        /\ thread'[i] = thread[i]
        /\ status'[i] = IF q.interrupted THEN "needs_input" ELSE "done"
        /\ report'[i] = IF q.interrupted THEN report[i] ELSE q.state.report
    BY <1>1, <1>2, <1>17, CloseDoes
  <2>2. q.state.next = "end" /\ q.state.report  BY <1>4, <2>1 DEF Holds, Working, Shaped
  <2>3. TouchesWell(p, i) /\ Same(i) /\ SameExecuted(i) /\ v = Idle  BY <2>1 DEF Does, Same
  <2>4. RequestLeaves(p, i)
    BY <1>4, <2>1, <2>2, <2>3 DEF RequestLeaves
  <2>5. Continues(p, i)
    BY <1>4, <1>7, <2>1, <2>2, <2>3 DEF Continues, Carries, Working, Holds, Honoured
  <2> QED  BY <1>6, <2>3, <2>4, <2>5
<1>18. CASE Fail(p)
  <2>1. /\ Does(p, i, Idle)
        /\ status'[i] = "failed" /\ thread'[i] = thread[i] /\ report'[i] = report[i]
    BY <1>1, <1>2, <1>18, FailDoes
  <2>2. TouchesWell(p, i) /\ Same(i) /\ v = Idle  BY <2>1 DEF Does
  <2>3. RequestLeaves(p, i)  BY <1>4, <2>1, <2>2 DEF RequestLeaves
  <2>4. Continues(p, i)  BY <2>1, <2>2 DEF Continues
  <2> QED  BY <1>6, <2>2, <2>3, <2>4
<1>19. CASE Kill(p)
  <2>1. /\ Does(p, i, Idle)
        /\ status'[i] = status[i] /\ thread'[i] = thread[i] /\ report'[i] = report[i]
    BY <1>1, <1>2, <1>19, KillDoes
  <2>2. TouchesWell(p, i) /\ Same(i) /\ v = Idle  BY <2>1 DEF Does
  <2>3. RequestLeaves(p, i)  BY <1>4, <2>1, <2>2 DEF RequestLeaves
  <2>4. Continues(p, i)  BY <2>1, <2>2 DEF Continues, Carries
  <2> QED  BY <1>6, <2>2, <2>3, <2>4
<1> QED
  BY <1>8, <1>9, <1>10, <1>11, <1>12, <1>13, <1>14, <1>15, <1>16, <1>17, <1>18, <1>19
  DEF Step, Node

\* A request that has not answered goes on, gives up or dies.
LEMMA WaitingStepKeeps ==
  ASSUME IInv, NEW p \in Requests, runner[p].at \in Entering, Number(p) \/ Refuse(p) \/ Kill(p)
  PROVE  IInv'
<1> DEFINE q == runner[p]
           v == runner'[p]
<1>1. p \in Runners /\ Typed  BY DEF Runners, IInv
<1>2. PICK i \in Ids : i = q.inv
  <2>1. q.at # "idle"  BY DEF Entering
  <2> QED  BY <1>1, <2>1, RunnerTypes
<1>3. Good(i) /\ q \in Runner /\ runner[Worker].inv # i
  BY <1>1, <1>2, RunnerTypes, NotBoth DEF IInv, Good
<1>4. /\ q.decision \in Decisions
      /\ q.state.decision = "approve" => Approval(i)
      /\ Answers(i) = {} => status[i] = "needs_input"
  BY <1>1, <1>2, <1>3 DEF Good, Gate, Phases, AnsweredOnce, Unanswered
<1>5. SUFFICES /\ TouchesWell(p, i) /\ Same(i) /\ Waits(p, i)
               /\ status'[i] = status[i] /\ thread'[i] = thread[i] /\ report'[i] = report[i]
  BY <1>1, <1>2, <1>3, WaitingKeeps, StepKeeps
<1>6. CASE Number(p)
  <2> DEFINE r == [q EXCEPT !.base = LastNo(i),
                            !.at = IF Holds(p, "deciding") THEN "entering" ELSE "writing"]
  <2>1. /\ Does(p, i, r)
        /\ status'[i] = status[i] /\ thread'[i] = thread[i] /\ report'[i] = report[i]
    BY <1>1, <1>2, <1>6, NumberDoes
  <2>2. Holds(p, "deciding")  BY <1>6 DEF Entering, Number, Holds
  <2>3. v = [q EXCEPT !.base = LastNo(i), !.at = "entering"]
    <3>1. v = r  BY <2>1 DEF Does
    <3> QED  BY <2>2, <3>1
  <2>4. v.at = "entering" /\ v.inv = i /\ v.state = q.state /\ v.decision = q.decision
    BY <1>2, <1>3, <2>3 DEF Runner
  <2>5. Waits(p, i)  BY <1>4, <2>4 DEF Waits, Entering
  <2> QED  BY <2>1, <2>5 DEF Does
<1>7. CASE Refuse(p)
  BY <1>1, <1>2, <1>7, RefuseDoes DEF Does, Waits
<1>8. CASE Kill(p)
  BY <1>1, <1>2, <1>8, KillDoes DEF Does, Waits
<1> QED  BY <1>6, <1>7, <1>8

LEMMA ResumeKeeps ==
  ASSUME IInv, NEW p \in Requests, NEW i \in Ids, NEW d \in Decisions, Resume(p, i, d)
  PROVE  IInv'
<1>1. p \in Runners /\ Typed /\ Good(i)  BY DEF Runners, IInv
<1>2. /\ TouchesWell(p, i) /\ Same(i)
      /\ runner[p] = Idle /\ status[i] = "needs_input"
      /\ status'[i] = status[i] /\ thread'[i] = thread[i] /\ report'[i] = report[i]
      /\ runner'[p].at = "deciding" /\ runner'[p].inv = i /\ runner'[p].decision = d
      /\ runner'[p].state = Fresh
  BY <1>1, ResumeDoes
<1>3. runner[Worker].inv # i
  BY <1>1, <1>2 DEF Good, Phases, WorkerRuns
<1>4. runner[p].inv # i  BY <1>1, <1>2, FreshTypes, TableIds
<1>5. Waits(p, i)  BY <1>2 DEF Waits, Entering, Fresh, NoDecision
<1>6. Good(i)'  BY <1>1, <1>2, <1>3, <1>4, <1>5, WaitingKeeps
<1> QED  BY <1>2, <1>6, StepKeeps

\* The answer: what it finds is the question, or an answer that came before it.
LEMMA EnterKeeps ==
  ASSUME IInv, NEW p \in Requests, Enter(p)
  PROVE  IInv'
<1> DEFINE q == runner[p]
           v == runner'[p]
<1>1. p \in Runners /\ p # Worker /\ Typed /\ \A r \in Requests : r \in Runners /\ r # Worker
  BY InvestigationAssumption DEF Runners, IInv
<1>2. PICK i \in Ids : i = q.inv
  <2>1. q.at # "idle"  BY DEF Enter, Holds
  <2> QED  BY <1>1, <2>1, RunnerTypes
<1>3. Good(i) /\ q \in Runner /\ runner[Worker].inv # i
  BY <1>1, <1>2, RunnerTypes, NotBoth DEF IInv, Good
<1>4. PICK h : h = Len(trace[i]) + 1  OBVIOUS
<1>5. /\ TouchesWell(p, i) /\ SameExecuted(i)
      /\ q.at = "entering"
      /\ v = [q EXCEPT !.at = "updating"]
      /\ status'[i] = "running" /\ thread'[i] = thread[i] /\ report'[i] = report[i]
      /\ h \notin Answers(i) /\ Answers(i)' = Answers(i) \cup {h}
      /\ trace'[i][h].decision = q.decision
      /\ \A g \in Answers(i) : trace'[i][g] = trace[i][g]
  BY <1>1, <1>2, <1>4, EnterDoes DEF Holds
<1>6. v.at = "updating" /\ v.inv = i /\ v.state = q.state /\ v.decision = q.decision
  BY <1>2, <1>3, <1>5 DEF Runner
<1>7. \A r \in Runners : r # p => runner'[r] = runner[r]  BY <1>5 DEF TouchesWell, Touches
<1>8. Approval(i) => Approval(i)'  BY <1>5 DEF Approval
<1>9. q.decision = "approve" => Approval(i)'
  <2>1. h \in Answers(i)'  BY <1>5
  <2> QED  BY <1>5, <2>1 DEF Approval
<1>10. \A k \in 1..MaxProposed : Executed(i, k)' = Executed(i, k)
  BY <1>5 DEF SameExecuted
<1>11. NothingExecuted(i)' <=> NothingExecuted(i)  BY <1>10 DEF NothingExecuted
<1>12. \A x \in Entering : x \notin Entered /\ x \notin Working
  BY DEF Entering, Entered, Working
<1>13. "updating" \in Entered /\ "updating" \notin Working /\ "entering" \in Entering
  BY DEF Entering, Entered, Working
<1>14. Gate(i)'
  <2>1. thread'[i].decision = "approve" => Approval(i)'
    BY <1>3, <1>5, <1>8 DEF Good, Gate
  <2>2. ASSUME NEW r \in Runners, runner'[r].inv = i
        PROVE  /\ runner'[r].state.decision = "approve" => Approval(i)'
               /\ runner'[r].at \in Entered /\ runner'[r].decision = "approve" => Approval(i)'
    <3>1. CASE r = p
      BY <1>1, <1>2, <1>3, <1>6, <1>8, <1>9, <3>1 DEF Good, Gate
    <3>2. CASE r # p
      BY <1>3, <1>7, <1>8, <2>2, <3>2 DEF Good, Gate
    <3> QED  BY <3>1, <3>2
  <2>3. ASSUME NEW k \in 1..MaxProposed, NEW m \in Executed(i, k)'
        PROVE  \E g \in Answers(i)' : g < m /\ trace'[i][g].decision = "approve"
    <3>1. m \in Executed(i, k)  BY <1>10
    <3>2. PICK g \in Answers(i) : g < m /\ trace[i][g].decision = "approve"
      BY <1>3, <3>1 DEF Good, Gate
    <3> QED  BY <1>5, <3>2
  <2> QED  BY <2>1, <2>2, <2>3 DEF Gate
<1>15. WorkerRuns(i)'  BY <1>1, <1>3, <1>7 DEF WorkerRuns, Runners
<1>16. Unanswered(i)'  BY <1>5 DEF Unanswered
<1>17. AnsweredOnce(i)'
  <2>1. thread'[i].next \in Past
    <3>1. CASE Answers(i) = {}
      BY <1>2, <1>3, <1>5, <3>1 DEF Good, Phases, Unanswered, Past
    <3>2. CASE Answers(i) # {}
      BY <1>3, <1>5, <3>2 DEF Good, Phases, AnsweredOnce
    <3> QED  BY <3>1, <3>2
  <2>2. ASSUME NEW r \in Requests, runner'[r].inv = i
        PROVE  /\ runner'[r].at \in Entering \cup Entered
               /\ runner'[r].decision \in Decisions
               /\ runner'[r].at \in Working =>
                     /\ runner'[r].state.next \in Past
                     /\ runner'[r].state.next = "execute_action" =>
                           runner'[r].resumed /\ runner'[r].at \in {"running", "writing"}
                     /\ runner'[r].at = "closing" => runner'[r].state.next = "end"
    <3>1. CASE r = p
      <4>1. q.decision \in Decisions  BY <1>2, <1>3 DEF Good, Phases, AnsweredOnce
      <4> QED  BY <1>6, <1>13, <3>1, <4>1
    <3>2. CASE r # p
      BY <1>1, <1>3, <1>7, <2>2, <3>2 DEF Good, Phases, AnsweredOnce
    <3> QED  BY <3>1, <3>2
  <2> QED  BY <1>5, <2>1, <2>2 DEF AnsweredOnce
<1>18. Complete(i)'  BY <1>5 DEF Complete
<1>19. OneAnswer(i)'
  <2> SUFFICES ASSUME NEW g \in Answers(i)', NEW d \in Decisions \cup {NoDecision},
                      Answers(i)' = {g}, trace'[i][g].decision = d
               PROVE  \A r \in Requests : runner'[r].inv = i /\ runner'[r].at \in Entered =>
                            Alone(i, r)' /\ Carries(i, d, r)'
    BY <1>5 DEF OneAnswer
  <2>1. g = h /\ Answers(i) = {}  BY <1>5
  <2>2. /\ NothingExecuted(i) /\ status[i] = "needs_input" /\ thread[i].next = "execute_action"
        /\ \A r \in Requests : runner[r].inv = i => runner[r].at \in Entering
    BY <1>2, <1>3, <2>1 DEF Good, Phases, Unanswered
  <2>3. \A r \in Requests : runner'[r].inv = i /\ runner'[r].at \in Entered => r = p
    BY <1>1, <1>7, <1>12, <2>2
  <2>4. Carries(i, d, p)'
    BY <1>5, <1>6, <1>11, <1>13, <2>1, <2>2 DEF Carries
  <2> QED  BY <2>3, <2>4 DEF Alone
<1>20. Good(i)'  BY <1>14, <1>15, <1>16, <1>17, <1>18, <1>19 DEF Good, Phases
<1> QED  BY <1>5, <1>20, StepKeeps

LEMMA UnchangedKeeps ==
  ASSUME IInv, UNCHANGED vars
  PROVE  IInv'
<1>1. Typed' /\ Ids' = Ids
  BY DEF IInv, vars, Typed, TypeOK, Ids, Holds
<1>2. ASSUME NEW j \in Ids PROVE Good(j)'
  <2>1. Alike(j)  BY DEF vars, Alike
  <2> QED  BY <2>1, AlikeKept DEF IInv
<1> QED  BY <1>1, <1>2 DEF IInv

LEMMA NextKeeps ==
  ASSUME IInv, [Next]_vars
  PROVE  IInv'
<1>1. CASE Create  BY <1>1, CreateKeeps
<1>2. CASE Poll  BY <1>2, PollKeeps
<1>3. CASE \E r \in Requests, i \in Ids, decision \in Decisions : Resume(r, i, decision)
  BY <1>3, ResumeKeeps
<1>4. ASSUME NEW p \in Runners, Step(p) \/ Refuse(p) \/ Fail(p) \/ Kill(p)
      PROVE  IInv'
  <2>1. CASE p = Worker  BY <1>4, <2>1, WorkerStepKeeps
  <2>2. CASE p \in Requests /\ runner[p].at \in Entered
    BY <1>4, <2>2, RequestStepKeeps
  <2>3. CASE p \in Requests /\ runner[p].at \notin Entered
    <3>1. Enter(p) \/ Number(p) \/ Refuse(p) \/ Kill(p)
      BY <1>4, <2>3 DEF Step, Number, Enter, Update, Load, Node, Plan, Act, Critic,
           ExecuteAction, Synthesize, Ran, Save, GetState, Close, Refuse, Fail, Kill, Holds,
           Entered, Working
    <3>2. runner[p].at # "idle"
      BY <3>1 DEF Number, Enter, Refuse, Kill, Holds
    <3>3. runner[p].at \in Entering
      <4>1. runner[p].at \in {"idle", "deciding", "entering", "updating", "loading", "running",
                              "writing", "saving", "closing"}
        BY <1>4, RunnerTypes DEF IInv, Runner
      <4> QED  BY <2>3, <3>2, <4>1 DEF Entering, Entered, Working
    <3> QED  BY <2>3, <3>1, <3>3, EnterKeeps, WaitingStepKeeps
  <2> QED  BY <2>1, <2>2, <2>3 DEF Runners
<1>5. CASE UNCHANGED vars  BY <1>5, UnchangedKeeps
<1> QED  BY <1>1, <1>2, <1>3, <1>4, <1>5 DEF Next

LEMMA InitKeeps ==
  ASSUME Init
  PROVE  IInv
<1>1. Ids = {} /\ Len(status) = 0 /\ Len(report) = 0 /\ Len(trace) = 0 /\ Len(thread) = 0
  BY DEF Init, Ids
<1>2. TypeOK  BY <1>1, FreshTypes DEF Init, TypeOK
<1>3. Typed  BY <1>1, <1>2, FreshTypes DEF Typed, Init, Holds
<1> QED  BY <1>1, <1>3 DEF IInv

------------------------------------------------------------------------------
(* The theorems.                                                             *)

\* Every state that is reached is Typed and, for each investigation, what its rows, its
\* checkpoint and its runners say holds together.
THEOREM Invariant == Spec => []IInv
<1>1. Init => IInv  BY InitKeeps
<1>2. IInv /\ [Next]_vars => IInv'  BY NextKeeps
<1> QED  BY <1>1, <1>2, PTL DEF Spec

\* The state is well formed; in particular no run acts more often than the budget allows,
\* whatever its critic wants and whoever resumes it.
THEOREM TypeCorrect == Spec => []TypeOK
<1>1. IInv => TypeOK  BY DEF IInv, Typed
<1> QED  BY <1>1, Invariant, PTL

\* "Tasks and drafts never happen without POST /resume {approve}": what is executed comes
\* after an approval in the trace, for any number of requests, failures and deaths.
THEOREM NothingUnapproved == Spec => []ActionsNeedApproval
<1>1. IInv => ActionsNeedApproval  BY DEF IInv, Good, Gate, ActionsNeedApproval
<1> QED  BY <1>1, Invariant, PTL

\* An investigation that was answered once and is done has executed each of its proposals
\* once if the answer was an approval, and none of them if it was a rejection.
THEOREM OneAnswerHonoured == Spec => []DecisionIsHonoured
<1>1. ASSUME IInv PROVE DecisionIsHonoured
  <2> SUFFICES ASSUME NEW i \in Ids, status[i] = "done", Cardinality(Answers(i)) = 1,
                      NEW h \in Answers(i), NEW k \in Proposals(i)
               PROVE  Cardinality(Executed(i, k)) =
                         IF trace[i][h].decision = "approve" THEN 1 ELSE 0
    BY DEF DecisionIsHonoured
  <2>1. /\ trace[i] \in Seq(Step_Row) /\ DOMAIN trace[i] = 1..Len(trace[i])
        /\ Len(trace[i]) \in Nat
    BY <1>1, TableIds, LenProperties DEF IInv
  <2>2. IsFiniteSet(Answers(i))
    <3>1. IsFiniteSet(1..Len(trace[i]))  BY <2>1, FS_Interval
    <3>2. Answers(i) \subseteq 1..Len(trace[i])  BY <2>1 DEF Answers
    <3> QED  BY <3>1, <3>2, FS_Subset
  <2>3. Answers(i) = {h}
    <3>1. PICK g : Answers(i) = {g}  BY <2>2, FS_Singleton
    <3> QED  BY <3>1
  <2>4. trace[i][h].decision \in Decisions \cup {NoDecision}
    <3>1. h \in DOMAIN trace[i]  BY DEF Answers
    <3>2. trace[i][h] \in Step_Row  BY <2>1, <3>1, ElementOfSeq
    <3> QED  BY <3>2 DEF Step_Row
  <2>5. Honoured(i, thread[i].proposed, trace[i][h].decision)
    BY <1>1, <2>3, <2>4 DEF IInv, Good, OneAnswer
  <2> QED  BY <2>5 DEF Honoured, Proposals
<1> QED  BY <1>1, Invariant, PTL

\* What is done has its report, and if it proposed actions it was answered before.
THEOREM NothingCutShort == Spec => []DoneIsComplete
<1>1. IInv => DoneIsComplete  BY DEF IInv, Good, Complete, DoneIsComplete
<1> QED  BY <1>1, Invariant, PTL

=============================================================================
