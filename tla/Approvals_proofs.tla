---------------------------- MODULE Approvals_proofs ----------------------------
(***************************************************************************)
(* Proofs about Approvals, for any number of requests, weeks, tasks and    *)
(* metrics: however requests overlap, nothing takes effect that nobody has *)
(* approved, and the status of a row is what was decided about it last.    *)
(***************************************************************************)
EXTENDS Approvals, SequenceTheorems, FiniteSetTheorems, TLAPS

------------------------------------------------------------------------------
(* Tables.                                                                   *)

\* The ids of a table are an interval.
LEMMA Ids ==
  ASSUME NEW S, NEW s \in Seq(S)
  PROVE  /\ Len(s) \in Nat
         /\ DOMAIN s = 1..Len(s)
         /\ \A i \in DOMAIN s : s[i] \in S
BY LenProperties, ElementOfSeq

\* A function on 1..n is a table of n rows.
LEMMA FunctionIsSeq ==
  ASSUME NEW S, NEW n \in Nat, NEW f \in [1..n -> S]
  PROVE  f \in Seq(S)
BY SeqDef

\* A row is inserted.
LEMMA Inserted ==
  ASSUME NEW S, NEW s \in Seq(S), NEW e \in S
  PROVE  /\ Append(s, e) \in Seq(S)
         /\ Len(s) \in Nat
         /\ DOMAIN s = 1..Len(s)
         /\ DOMAIN Append(s, e) = DOMAIN s \cup {Len(s) + 1}
         /\ Len(s) + 1 \notin DOMAIN s
         /\ \A i \in DOMAIN s : Append(s, e)[i] = s[i]
         /\ Append(s, e)[Len(s) + 1] = e
<1>1. /\ Append(s, e) \in Seq(S)
      /\ Len(Append(s, e)) = Len(s) + 1
      /\ \A i \in 1..Len(s) : Append(s, e)[i] = s[i]
      /\ Append(s, e)[Len(s) + 1] = e
  BY AppendProperties
<1>2. Len(s) \in Nat /\ DOMAIN s = 1..Len(s)  BY LenProperties
<1>3. DOMAIN Append(s, e) = 1..Len(s) + 1  BY <1>1, LenProperties
<1> QED  BY <1>1, <1>2, <1>3

\* Rows are inserted.
LEMMA InsertedMany ==
  ASSUME NEW S, NEW s \in Seq(S), NEW t \in Seq(S)
  PROVE  /\ s \o t \in Seq(S)
         /\ DOMAIN s \subseteq DOMAIN (s \o t)
         /\ \A i \in DOMAIN s : (s \o t)[i] = s[i]
         /\ \A i \in DOMAIN (s \o t) : i \in DOMAIN s \/ \E j \in DOMAIN t : (s \o t)[i] = t[j]
<1>1. /\ s \o t \in Seq(S)
      /\ Len(s \o t) = Len(s) + Len(t)
      /\ \A i \in 1..Len(s) + Len(t) :
           (s \o t)[i] = IF i <= Len(s) THEN s[i] ELSE t[i - Len(s)]
  BY ConcatProperties
<1>2. Len(s) \in Nat /\ Len(t) \in Nat /\ DOMAIN s = 1..Len(s) /\ DOMAIN t = 1..Len(t)
  BY LenProperties
<1>3. DOMAIN (s \o t) = 1..Len(s) + Len(t)  BY <1>1, LenProperties
<1>4. ASSUME NEW i \in DOMAIN (s \o t), i \notin DOMAIN s
      PROVE  \E j \in DOMAIN t : (s \o t)[i] = t[j]
  <2>1. i - Len(s) \in DOMAIN t /\ (s \o t)[i] = t[i - Len(s)]  BY <1>1, <1>2, <1>3, <1>4
  <2> QED  BY <2>1
<1> QED  BY <1>1, <1>2, <1>3, <1>4

\* One row of a table is updated.
LEMMA Updated ==
  ASSUME NEW S, NEW s \in Seq(S), NEW i \in DOMAIN s, NEW e \in S
  PROVE  [s EXCEPT ![i] = e] \in Seq(S)
BY ExceptSeq

\* What Log does to the log.
LEMMA Logged ==
  ASSUME decisions \in Seq(Decision),
         NEW kind \in {"approval", "rejection", "undo"}, NEW on \in {"draft", "metric"},
         NEW i \in Nat \ {0}, NEW ref \in Nat,
         Log(kind, on, i, ref)
  PROVE  /\ decisions' \in Seq(Decision)
         /\ Len(decisions) + 1 \in Nat
         /\ DecisionIds' = DecisionIds \cup {Len(decisions) + 1}
         /\ \A n \in DecisionIds : n < Len(decisions) + 1 /\ n \in Nat
         /\ \A n \in DecisionIds : decisions'[n] = decisions[n]
         /\ decisions'[Len(decisions) + 1] = [kind |-> kind, on |-> on, item |-> i, ref |-> ref]
<1> DEFINE e == [kind |-> kind, on |-> on, item |-> i, ref |-> ref]
<1>1. e \in Decision  BY DEF Decision
<1>2. decisions' = Append(decisions, e)  BY DEF Log
<1> HIDE DEF e
<1>3. /\ Append(decisions, e) \in Seq(Decision)
      /\ Len(decisions) \in Nat
      /\ DOMAIN decisions = 1..Len(decisions)
      /\ DOMAIN Append(decisions, e) = DOMAIN decisions \cup {Len(decisions) + 1}
      /\ \A n \in DOMAIN decisions : Append(decisions, e)[n] = decisions[n]
      /\ Append(decisions, e)[Len(decisions) + 1] = e
  BY <1>1, Inserted
<1>4. \A n \in DecisionIds : n < Len(decisions) + 1 /\ n \in Nat  BY <1>3 DEF DecisionIds
<1> QED  BY <1>2, <1>3, <1>4 DEF DecisionIds, e

------------------------------------------------------------------------------
(* Type correctness.                                                         *)

\* A request is about a row that exists; for a new metric, about its name.
RequestRefs ==
    \A p \in Requests :
      /\ request[p].op \in {"approve", "reject", "send"} => request[p].item \in DraftIds
      /\ request[p].op \in {"activate", "discard", "undo"} => request[p].item \in MetricIds
      /\ request[p].op = "propose" => request[p].item \in Names

Typed == TypeOK /\ RequestRefs

\* The ids of all tables, with their rows.
LEMMA Rows ==
  ASSUME TypeOK
  PROVE  /\ DraftIds \subseteq Nat \ {0} /\ MetricIds \subseteq Nat \ {0} /\ TaskIds \subseteq Nat \ {0}
         /\ \A d \in DraftIds : drafts[d] \in Draft
         /\ \A m \in MetricIds : metrics[m] \in Metric
         /\ \A p \in Requests : request[p] \in Request
<1>1. DraftIds = 1..Len(drafts) /\ Len(drafts) \in Nat /\ \A d \in DraftIds : drafts[d] \in Draft
  BY Ids DEF TypeOK, DraftIds
<1>2. MetricIds = 1..Len(metrics) /\ Len(metrics) \in Nat /\ \A m \in MetricIds : metrics[m] \in Metric
  BY Ids DEF TypeOK, MetricIds
<1>3. TaskIds = 1..Len(tasks) /\ Len(tasks) \in Nat  BY Ids DEF TypeOK, TaskIds
<1>4. \A p \in Requests : request[p] \in Request  BY DEF TypeOK
<1> QED  BY <1>1, <1>2, <1>3, <1>4

\* An order of a finite set of tasks, each with its new message.
LEMMA OrderOfTasks ==
  ASSUME NEW S \in SUBSET (Nat \ {0}), IsFiniteSet(S), NEW order \in InOrder(S)
  PROVE  [i \in DOMAIN order |-> [task |-> order[i], status |-> "pending_approval"]] \in Seq(Draft)
<1>1. Cardinality(S) \in Nat  BY FS_CardinalityType
<1>2. order \in [1..Cardinality(S) -> S]
  BY DEF InOrder, Bijection, Injection
<1> DEFINE f == [i \in DOMAIN order |-> [task |-> order[i], status |-> "pending_approval"]]
<1>3. f \in [1..Cardinality(S) -> Draft]  BY <1>2 DEF Draft
<1> QED  BY <1>1, <1>3, SeqDef

\* The report's transaction only adds rows, and its messages wait for a decision.
LEMMA ReportAdds ==
  ASSUME Typed, CommitReport
  PROVE  /\ drafts' \in Seq(Draft) /\ DraftIds \subseteq DraftIds'
         /\ \A d \in DraftIds : drafts'[d] = drafts[d]
         /\ \A d \in DraftIds' : d \in DraftIds \/ drafts'[d].status = "pending_approval"
         /\ tasks' \in Seq([week : Nat, open : BOOLEAN])
<1>1. PICK order \in InOrder(job.todo \cup Len(tasks) + 1 .. Len(tasks) + job.fresh) :
        drafts' = drafts \o [i \in DOMAIN order |-> [task |-> order[i], status |-> "pending_approval"]]
  BY DEF CommitReport, Submitted
<1> DEFINE S == job.todo \cup Len(tasks) + 1 .. Len(tasks) + job.fresh
           new == [i \in DOMAIN order |-> [task |-> order[i], status |-> "pending_approval"]]
           more == [i \in 1..job.fresh |-> [week |-> week, open |-> TRUE]]
<1>2. /\ Len(tasks) \in Nat /\ TaskIds = 1..Len(tasks) /\ job.fresh \in Nat
      /\ job.todo \subseteq TaskIds
  BY Ids DEF Typed, TypeOK, TaskIds
<1>3. S \in SUBSET (Nat \ {0}) /\ S \subseteq 1..Len(tasks) + job.fresh  BY <1>2
<1>4. IsFiniteSet(S)
  <2>1. PICK n \in Int : n = Len(tasks) + job.fresh  BY <1>2
  <2>2. IsFiniteSet(1..n)  BY FS_Interval
  <2> HIDE DEF S
  <2> QED  BY <1>3, <2>1, <2>2, FS_Subset
<1>5. new \in Seq(Draft)  BY <1>3, <1>4, OrderOfTasks
<1>6. more \in Seq([week : Nat, open : BOOLEAN])
  <2>1. more \in [1..job.fresh -> [week : Nat, open : BOOLEAN]]  BY DEF Typed, TypeOK
  <2> HIDE DEF more
  <2> QED  BY <1>2, <2>1, FunctionIsSeq
<1>7. tasks' \in Seq([week : Nat, open : BOOLEAN])
  <2>1. tasks' = tasks \o more  BY DEF CommitReport
  <2> HIDE DEF more
  <2> QED  BY <1>6, <2>1, ConcatProperties DEF Typed, TypeOK
<1>8. \A j \in DOMAIN new : new[j].status = "pending_approval"  OBVIOUS
<1>9. drafts' = drafts \o new /\ drafts \in Seq(Draft)  BY <1>1 DEF Typed, TypeOK
<1> HIDE DEF new
<1>10. /\ drafts \o new \in Seq(Draft)
       /\ DOMAIN drafts \subseteq DOMAIN (drafts \o new)
       /\ \A d \in DOMAIN drafts : (drafts \o new)[d] = drafts[d]
       /\ \A d \in DOMAIN (drafts \o new) :
            d \in DOMAIN drafts \/ \E j \in DOMAIN new : (drafts \o new)[d] = new[j]
  BY <1>5, <1>9, InsertedMany
<1> QED  BY <1>7, <1>8, <1>9, <1>10 DEF DraftIds
\* The initial state is typed.
LEMMA TypeInit == Init => Typed
<1> SUFFICES ASSUME Init PROVE Typed  OBVIOUS
<1>1. Free \in Request  BY DEF Free, Request
<1>2. request \in [Requests -> Request]  BY <1>1 DEF Init
<1>3. \A S : <<>> \in Seq(S)  BY EmptySeq
<1>4. sent \subseteq DraftIds  BY DEF Init
<1>5. job \in [at : {"idle", "drafting"}, todo : SUBSET TaskIds, fresh : Nat]  BY DEF Init, Waiting
<1>6. TypeOK  BY <1>2, <1>3, <1>4, <1>5 DEF Init, TypeOK
<1>7. RequestRefs  BY DEF Init, RequestRefs, Free
<1> QED  BY <1>6, <1>7 DEF Typed

\* The requests stay typed when tables only grow and one request changes.
LEMMA RequestsTyped ==
  ASSUME Typed, NEW p \in Requests, NEW r \in Request,
         request' = [request EXCEPT ![p] = r],
         DraftIds \subseteq DraftIds', MetricIds \subseteq MetricIds',
         r.op \in {"approve", "reject", "send"} => r.item \in DraftIds,
         r.op \in {"activate", "discard", "undo"} => r.item \in MetricIds,
         r.op = "propose" => r.item \in Names
  PROVE  request' \in [Requests -> Request] /\ RequestRefs'
<1>1. request \in [Requests -> Request]  BY DEF Typed, TypeOK
<1>2. request' \in [Requests -> Request]  BY <1>1
<1>3. request'[p] = r /\ \A q \in Requests : q # p => request'[q] = request[q]  BY <1>1
<1>4. ASSUME NEW q \in Requests
      PROVE  /\ request'[q].op \in {"approve", "reject", "send"} => request'[q].item \in DraftIds'
             /\ request'[q].op \in {"activate", "discard", "undo"} => request'[q].item \in MetricIds'
             /\ request'[q].op = "propose" => request'[q].item \in Names
  <2>1. CASE q = p  BY <1>3, <2>1
  <2>2. CASE q # p  BY <1>3, <2>2 DEF Typed, RequestRefs
  <2> QED  BY <2>1, <2>2
<1> QED  BY <1>2, <1>4 DEF RequestRefs

\* The same for a request that ends.
LEMMA DoneTyped ==
  ASSUME Typed, NEW p \in Requests, Done(p),
         DraftIds \subseteq DraftIds', MetricIds \subseteq MetricIds'
  PROVE  request' \in [Requests -> Request] /\ RequestRefs'
<1>1. /\ Free \in Request /\ Free.op = "none"  BY DEF Free, Request
<1>2. request' = [request EXCEPT ![p] = Free]  BY DEF Done
<1> HIDE DEF Free
<1> QED  BY <1>1, <1>2, RequestsTyped

\* A request that reads changes nothing but itself.
LEMMA ReadTyped ==
  ASSUME Typed, NEW p \in Requests,
         NEW op \in {"approve", "reject", "send", "propose", "activate", "discard", "undo"},
         NEW i \in Names \cup Nat, NEW d \in Nat, Read(p, op, i, d),
         op \in {"approve", "reject", "send"} => i \in DraftIds,
         op \in {"activate", "discard", "undo"} => i \in MetricIds,
         op = "propose" => i \in Names
  PROVE  Typed'
<1> DEFINE r == [op |-> op, item |-> i, decision |-> d]
<1>1. r \in Request /\ r.op = op /\ r.item = i  BY DEF Request
<1>2. request' = [request EXCEPT ![p] = r]  BY DEF Read
<1>3. UNCHANGED <<week, tasks, reports, job, drafts, sent, metrics, decisions>>
  BY DEF Read, scans
<1> HIDE DEF r
<1>4. DraftIds' = DraftIds /\ MetricIds' = MetricIds /\ TaskIds' = TaskIds
  BY <1>3 DEF DraftIds, MetricIds, TaskIds
<1>5. request' \in [Requests -> Request] /\ RequestRefs'  BY <1>1, <1>2, <1>4, RequestsTyped
<1> QED  BY <1>3, <1>4, <1>5 DEF Typed, TypeOK

\* What a decision about a message writes.
LEMMA DecideWrites ==
  ASSUME Typed, NEW p \in Requests, Decide(p)
  PROVE  /\ request[p].item \in DraftIds
         /\ Verdict(p) \in {"approved", "rejected"}
         /\ drafts' \in Seq(Draft) /\ DraftIds' = DraftIds
         /\ drafts'[request[p].item].status = Verdict(p)
         /\ \A d \in DraftIds : d # request[p].item => drafts'[d] = drafts[d]
         /\ decisions' \in Seq(Decision)
         /\ DecisionIds' = DecisionIds \cup {Len(decisions) + 1}
         /\ \A n \in DecisionIds : n < Len(decisions) + 1 /\ n \in Nat
         /\ Len(decisions) + 1 \in Nat
         /\ \A n \in DecisionIds : decisions'[n] = decisions[n]
         /\ decisions'[Len(decisions) + 1] =
              [kind |-> IF Verdict(p) = "approved" THEN "approval" ELSE "rejection",
               on |-> "draft", item |-> request[p].item, ref |-> 0]
<1> DEFINE d == request[p].item
           kind == IF request[p].op = "approve" THEN "approval" ELSE "rejection"
<1>1. d \in DraftIds /\ d \in Nat \ {0}  BY Rows DEF Decide, Typed, RequestRefs
<1>2. Verdict(p) \in {"approved", "rejected"} /\ kind \in {"approval", "rejection", "undo"}
      /\ kind = IF Verdict(p) = "approved" THEN "approval" ELSE "rejection"
  BY DEF Verdict
<1>3. drafts' = [drafts EXCEPT ![d] = [drafts[d] EXCEPT !.status = Verdict(p)]]
  BY DEF Decide
<1>4. drafts[d] \in Draft  BY <1>1, Rows DEF Typed
<1>5. [drafts[d] EXCEPT !.status = Verdict(p)] \in Draft
      /\ [drafts[d] EXCEPT !.status = Verdict(p)].status = Verdict(p)
  BY <1>2, <1>4 DEF Draft
<1>6. drafts \in Seq(Draft) /\ d \in DOMAIN drafts  BY <1>1 DEF Typed, TypeOK, DraftIds
<1>7. drafts' \in Seq(Draft)  BY <1>3, <1>5, <1>6, Updated
<1>8. /\ DraftIds' = DraftIds
      /\ drafts'[d].status = Verdict(p)
      /\ \A e \in DraftIds : e # d => drafts'[e] = drafts[e]
  BY <1>1, <1>3, <1>5, <1>6 DEF DraftIds
<1>9. Log(kind, "draft", d, 0)  BY DEF Decide
<1>10. decisions \in Seq(Decision)  BY DEF Typed, TypeOK
<1> HIDE DEF d, kind
<1>11. /\ decisions' \in Seq(Decision)
       /\ Len(decisions) + 1 \in Nat
       /\ DecisionIds' = DecisionIds \cup {Len(decisions) + 1}
       /\ \A n \in DecisionIds : n < Len(decisions) + 1 /\ n \in Nat
       /\ \A n \in DecisionIds : decisions'[n] = decisions[n]
       /\ decisions'[Len(decisions) + 1] = [kind |-> kind, on |-> "draft", item |-> d, ref |-> 0]
  BY <1>1, <1>2, <1>9, <1>10, Logged
<1> QED  BY <1>1, <1>2, <1>7, <1>8, <1>11 DEF d

\* What sending a message writes.
LEMMA SendWrites ==
  ASSUME Typed, NEW p \in Requests, Send(p)
  PROVE  /\ request[p].item \in DraftIds
         /\ drafts' \in Seq(Draft) /\ DraftIds' = DraftIds
         /\ drafts'[request[p].item].status = "sent"
         /\ \A d \in DraftIds : d # request[p].item => drafts'[d] = drafts[d]
<1> DEFINE d == request[p].item
<1>1. d \in DraftIds  BY DEF Send, Typed, RequestRefs
<1>2. drafts' = [drafts EXCEPT ![d] = [drafts[d] EXCEPT !.status = "sent"]]  BY DEF Send
<1>3. drafts[d] \in Draft  BY <1>1, Rows DEF Typed
<1>4. [drafts[d] EXCEPT !.status = "sent"] \in Draft
      /\ [drafts[d] EXCEPT !.status = "sent"].status = "sent"
  BY <1>3 DEF Draft
<1>5. drafts \in Seq(Draft) /\ d \in DOMAIN drafts  BY <1>1 DEF Typed, TypeOK, DraftIds
<1>6. drafts' \in Seq(Draft)  BY <1>2, <1>4, <1>5, Updated
<1> QED  BY <1>1, <1>2, <1>4, <1>5, <1>6 DEF DraftIds

\* What a new metric writes.
LEMMA ProposeWrites ==
  ASSUME Typed, NEW p \in Requests, Propose(p)
  PROVE  /\ metrics' \in Seq(Metric)
         /\ MetricIds' = MetricIds \cup {Len(metrics) + 1}
         /\ Len(metrics) + 1 \notin MetricIds
         /\ \A m \in MetricIds : metrics'[m] = metrics[m]
         /\ metrics'[Len(metrics) + 1].status = "proposed"
<1> DEFINE e == [name |-> request[p].item, status |-> Born, decision |-> 0]
<1>1. e \in Metric /\ e.status = "proposed"
  BY DEF Propose, Typed, RequestRefs, Metric, Born
<1>2. metrics' = Append(metrics, e) /\ metrics \in Seq(Metric)  BY DEF Propose, Typed, TypeOK
<1> HIDE DEF e
<1>3. /\ Append(metrics, e) \in Seq(Metric)
      /\ DOMAIN Append(metrics, e) = DOMAIN metrics \cup {Len(metrics) + 1}
      /\ Len(metrics) + 1 \notin DOMAIN metrics
      /\ \A m \in DOMAIN metrics : Append(metrics, e)[m] = metrics[m]
      /\ Append(metrics, e)[Len(metrics) + 1] = e
  BY <1>1, <1>2, Inserted
<1> QED  BY <1>1, <1>2, <1>3 DEF MetricIds

\* What approving, rejecting or undoing a metric writes.
SettleEffect(p, op, status, kind, ref) ==
    /\ request[p].op = op /\ request[p].item \in MetricIds
    /\ metrics' \in Seq(Metric) /\ MetricIds' = MetricIds
    /\ metrics'[request[p].item].status = status
    /\ metrics'[request[p].item].decision = Len(decisions) + 1
    /\ \A m \in MetricIds : m # request[p].item => metrics'[m] = metrics[m]
    /\ decisions' \in Seq(Decision)
    /\ DecisionIds' = DecisionIds \cup {Len(decisions) + 1}
    /\ \A n \in DecisionIds : n < Len(decisions) + 1 /\ n \in Nat
    /\ Len(decisions) + 1 \in Nat
    /\ \A n \in DecisionIds : decisions'[n] = decisions[n]
    /\ decisions'[Len(decisions) + 1] =
         [kind |-> kind, on |-> "metric", item |-> request[p].item, ref |-> ref]

LEMMA SettleWrites ==
  ASSUME Typed, NEW p \in Requests, NEW op \in {"activate", "discard", "undo"},
         NEW status \in {"active", "rejected", "reverted"},
         NEW kind \in {"approval", "rejection", "undo"}, NEW ref \in Nat,
         Settle(p, op, status, kind, ref)
  PROVE  SettleEffect(p, op, status, kind, ref)
<1> DEFINE m == request[p].item
           e == [metrics[m] EXCEPT !.status = status, !.decision = Len(decisions) + 1]
<1>1. request[p].op = op /\ m \in MetricIds  BY DEF Settle, Typed, RequestRefs
<1>2. m \in Nat \ {0} /\ metrics[m] \in Metric  BY <1>1, Rows DEF Typed
<1>3. decisions \in Seq(Decision)  BY DEF Typed, TypeOK
<1>4. Log(kind, "metric", m, ref)  BY DEF Settle
<1>5. /\ decisions' \in Seq(Decision)
      /\ Len(decisions) + 1 \in Nat
      /\ DecisionIds' = DecisionIds \cup {Len(decisions) + 1}
      /\ \A n \in DecisionIds : n < Len(decisions) + 1 /\ n \in Nat
      /\ \A n \in DecisionIds : decisions'[n] = decisions[n]
      /\ decisions'[Len(decisions) + 1] = [kind |-> kind, on |-> "metric", item |-> m, ref |-> ref]
  <2> HIDE DEF m
  <2> QED  BY <1>2, <1>3, <1>4, Logged
<1>6. e \in Metric /\ e.status = status /\ e.decision = Len(decisions) + 1
  BY <1>2, <1>5 DEF Metric
<1>7. metrics \in Seq(Metric) /\ m \in DOMAIN metrics  BY <1>1 DEF Typed, TypeOK, MetricIds
<1>8. metrics' = [metrics EXCEPT ![m] = e]
  <2>1. metrics' = [metrics EXCEPT ![m].status = status, ![m].decision = Len(decisions) + 1]
    BY DEF Settle
  <2>2. metrics \in [MetricIds -> Metric]  BY <1>7, Ids DEF MetricIds
  <2> QED  BY <1>1, <1>2, <2>1, <2>2
<1> HIDE DEF e
<1>9. metrics' \in Seq(Metric)  BY <1>6, <1>7, <1>8, Updated
<1>10. /\ MetricIds' = MetricIds
       /\ metrics'[m] = e
       /\ \A k \in MetricIds : k # m => metrics'[k] = metrics[k]
  BY <1>7, <1>8 DEF MetricIds
<1> QED  BY <1>1, <1>5, <1>6, <1>9, <1>10 DEF SettleEffect
\* Every step keeps the types.
LEMMA TypeStep == Typed /\ [Next]_vars => Typed'
<1> SUFFICES ASSUME Typed, [Next]_vars PROVE Typed'  OBVIOUS
<1>1. /\ DraftIds \subseteq Nat \ {0} /\ MetricIds \subseteq Nat \ {0} /\ TaskIds \subseteq Nat \ {0}
      /\ \A m \in MetricIds : metrics[m] \in Metric
      /\ \A p \in Requests : request[p] \in Request
  BY Rows DEF Typed
<1>2. TaskIds = 1..Len(tasks) /\ Len(tasks) \in Nat  BY Ids DEF Typed, TypeOK, TaskIds
<1> DEFINE Task == [week : Nat, open : BOOLEAN]
<1>3. CASE NewTask
  <2>1. [week |-> week, open |-> TRUE] \in Task  BY DEF Typed, TypeOK
  <2>2. tasks' \in Seq(Task) /\ TaskIds \subseteq TaskIds'
    BY <1>3, <2>1, Inserted DEF NewTask, Typed, TypeOK, TaskIds
  <2> QED  BY <1>3, <2>2 DEF NewTask, Typed, TypeOK, RequestRefs, DraftIds, MetricIds
<1>4. CASE \E t \in TaskIds : TakeUp(t)
  <2>1. PICK t \in TaskIds : TakeUp(t)  BY <1>4
  <2>2. tasks[t] \in Task /\ tasks \in Seq(Task) /\ t \in DOMAIN tasks
    BY <2>1, Ids DEF Typed, TypeOK, TaskIds
  <2>3. tasks' = [tasks EXCEPT ![t] = [tasks[t] EXCEPT !.open = FALSE]]  BY <2>1 DEF TakeUp
  <2>4. tasks' \in Seq(Task) /\ TaskIds' = TaskIds
    BY <2>2, <2>3, Updated DEF TaskIds
  <2> QED  BY <2>1, <2>4 DEF TakeUp, Typed, TypeOK, RequestRefs, DraftIds, MetricIds
<1>5. CASE NextWeek
  BY <1>5 DEF NextWeek, Typed, TypeOK, RequestRefs, DraftIds, MetricIds, TaskIds
<1>6. CASE \E fresh \in {0, 1} : BuildReport(fresh)
  <2>1. PICK fresh \in {0, 1} : BuildReport(fresh)  BY <1>6
  <2>2. job' \in [at : {"idle", "drafting"}, todo : SUBSET TaskIds, fresh : Nat]
    BY <2>1 DEF BuildReport
  <2> QED  BY <2>1, <2>2 DEF BuildReport, Typed, TypeOK, RequestRefs, DraftIds, MetricIds, TaskIds
<1>7. CASE CommitReport
  <2>1. /\ drafts' \in Seq(Draft) /\ DraftIds \subseteq DraftIds'
        /\ tasks' \in Seq(Task)
    BY <1>7, ReportAdds
  <2>2. job' \in [at : {"idle", "drafting"}, todo : SUBSET TaskIds', fresh : Nat]
    BY <1>7 DEF CommitReport, Waiting
  <2>3. /\ UNCHANGED <<week, sent, metrics, decisions, request>>
        /\ reports' = reports \cup {week}
    BY <1>7 DEF CommitReport
  <2>4. MetricIds' = MetricIds  BY <2>3 DEF MetricIds
  <2>5. TypeOK'  BY <2>1, <2>2, <2>3 DEF Typed, TypeOK
  <2>6. RequestRefs'  BY <2>1, <2>3, <2>4 DEF Typed, RequestRefs
  <2> QED  BY <2>5, <2>6 DEF Typed
<1>8. CASE AbortReport
  BY <1>8 DEF AbortReport, Waiting, Typed, TypeOK, RequestRefs, DraftIds, MetricIds, TaskIds
<1>9. CASE \E p \in Requests, d \in DraftIds, op \in {"approve", "reject"} : ReadDraft(p, op, d)
  <2>1. PICK p \in Requests, d \in DraftIds, op \in {"approve", "reject"} : Read(p, op, d, 0)
    BY <1>9 DEF ReadDraft
  <2> QED  BY <1>1, <2>1, ReadTyped
<1>10. CASE \E p \in Requests, d \in DraftIds : ReadApproved(p, d)
  <2>1. PICK p \in Requests, d \in DraftIds : Read(p, "send", d, 0)
    BY <1>10 DEF ReadApproved
  <2> QED  BY <1>1, <2>1, ReadTyped
<1>11. CASE \E p \in Requests, name \in Names : ReadNames(p, name)
  <2>1. PICK p \in Requests, name \in Names : Read(p, "propose", name, 0)
    BY <1>11 DEF ReadNames
  <2> QED  BY <2>1, ReadTyped
<1>12. CASE \E p \in Requests, m \in MetricIds, op \in {"activate", "discard", "undo"} :
              ReadMetric(p, op, m)
  <2>1. PICK p \in Requests, m \in MetricIds, op \in {"activate", "discard", "undo"} :
          Read(p, op, m, metrics[m].decision)
    BY <1>12 DEF ReadMetric
  <2>2. metrics[m].decision \in Nat  BY <1>1 DEF Metric
  <2> QED  BY <1>1, <2>1, <2>2, ReadTyped
<1>13. CASE \E p \in Requests : Decide(p)
  <2>1. PICK p \in Requests : Decide(p)  BY <1>13
  <2>2. drafts' \in Seq(Draft) /\ DraftIds' = DraftIds /\ decisions' \in Seq(Decision)
    BY <2>1, DecideWrites
  <2>3. UNCHANGED <<week, tasks, reports, job, sent, metrics>> /\ Done(p)
    BY <2>1 DEF Decide, scans
  <2>4. MetricIds' = MetricIds /\ TaskIds' = TaskIds  BY <2>3 DEF MetricIds, TaskIds
  <2>5. request' \in [Requests -> Request] /\ RequestRefs'  BY <2>2, <2>3, <2>4, DoneTyped
  <2> QED  BY <2>2, <2>3, <2>4, <2>5 DEF Typed, TypeOK
<1>14. CASE \E p \in Requests : Send(p)
  <2>1. PICK p \in Requests : Send(p)  BY <1>14
  <2>2. request[p].item \in DraftIds /\ drafts' \in Seq(Draft) /\ DraftIds' = DraftIds
    BY <2>1, SendWrites
  <2>3. /\ UNCHANGED <<week, tasks, reports, job, metrics, decisions>> /\ Done(p)
        /\ sent' = sent \cup {request[p].item}
    BY <2>1 DEF Send, scans
  <2>4. MetricIds' = MetricIds /\ TaskIds' = TaskIds  BY <2>3 DEF MetricIds, TaskIds
  <2>5. request' \in [Requests -> Request] /\ RequestRefs'  BY <2>2, <2>3, <2>4, DoneTyped
  <2> QED  BY <2>2, <2>3, <2>4, <2>5 DEF Typed, TypeOK
<1>15. CASE \E p \in Requests : Propose(p)
  <2>1. PICK p \in Requests : Propose(p)  BY <1>15
  <2>2. metrics' \in Seq(Metric) /\ MetricIds \subseteq MetricIds'  BY <2>1, ProposeWrites
  <2>3. UNCHANGED <<week, tasks, reports, job, drafts, sent, decisions>> /\ Done(p)
    BY <2>1 DEF Propose, scans
  <2>4. DraftIds' = DraftIds /\ TaskIds' = TaskIds  BY <2>3 DEF DraftIds, TaskIds
  <2>5. request' \in [Requests -> Request] /\ RequestRefs'  BY <2>2, <2>3, <2>4, DoneTyped
  <2> QED  BY <2>2, <2>3, <2>4, <2>5 DEF Typed, TypeOK
<1>16. ASSUME NEW p \in Requests, NEW op \in {"activate", "discard", "undo"},
              NEW status \in {"active", "rejected", "reverted"},
              NEW kind \in {"approval", "rejection", "undo"}, NEW ref \in Nat,
              Settle(p, op, status, kind, ref)
       PROVE  Typed'
  <2>1. /\ metrics' \in Seq(Metric) /\ MetricIds' = MetricIds /\ decisions' \in Seq(Decision)
        /\ Done(p) /\ UNCHANGED <<week, tasks, reports, job, drafts, sent>>
    <3>1. SettleEffect(p, op, status, kind, ref)  BY <1>16, SettleWrites
    <3>2. Done(p) /\ UNCHANGED <<week, tasks, reports, job, drafts, sent>>
      BY <1>16 DEF Settle, scans
    <3> QED  BY <3>1, <3>2 DEF SettleEffect
  <2>2. DraftIds' = DraftIds /\ TaskIds' = TaskIds  BY <2>1 DEF DraftIds, TaskIds
  <2>3. request' \in [Requests -> Request] /\ RequestRefs'  BY <2>1, <2>2, DoneTyped
  <2> QED  BY <2>1, <2>2, <2>3 DEF Typed, TypeOK
<1>17. CASE \E p \in Requests : Activate(p)  BY <1>16, <1>17 DEF Activate
<1>18. CASE \E p \in Requests : Discard(p)  BY <1>16, <1>18 DEF Discard
<1>19. CASE \E p \in Requests : Deactivate(p)
  <2>1. PICK p \in Requests : Settle(p, "undo", "reverted", "undo", request[p].decision)
    BY <1>19 DEF Deactivate, Reverted
  <2>2. request[p].decision \in Nat  BY <1>1 DEF Request
  <2> QED  BY <1>16, <2>1, <2>2
<1>20. CASE \E p \in Requests : Refuse(p)
  <2>1. PICK p \in Requests : Refuse(p)  BY <1>20
  <2>2. UNCHANGED <<week, tasks, reports, job, drafts, sent, metrics, decisions>> /\ Done(p)
    BY <2>1 DEF Refuse, scans
  <2>3. DraftIds' = DraftIds /\ TaskIds' = TaskIds /\ MetricIds' = MetricIds
    BY <2>2 DEF DraftIds, TaskIds, MetricIds
  <2>4. request' \in [Requests -> Request] /\ RequestRefs'  BY <2>2, <2>3, DoneTyped
  <2> QED  BY <2>2, <2>3, <2>4 DEF Typed, TypeOK
<1>21. CASE UNCHANGED vars
  BY <1>21 DEF vars, scans, Typed, TypeOK, RequestRefs, DraftIds, MetricIds, TaskIds
<1> QED
  BY <1>3, <1>4, <1>5, <1>6, <1>7, <1>8, <1>9, <1>10, <1>11, <1>12, <1>13, <1>14, <1>15,
     <1>17, <1>18, <1>19, <1>20, <1>21 DEF Next

\* Every table holds rows of its schema, whatever requests overlap.
THEOREM TypeCorrect == Spec => []TypeOK
<1>1. Typed => TypeOK  BY DEF Typed
<1> QED  BY <1>1, TypeInit, TypeStep, PTL DEF Spec
------------------------------------------------------------------------------
(* What a step can do to the log, to messages, to metrics and to requests.   *)

\* The log only grows.
LogGrows ==
    /\ DecisionIds \subseteq DecisionIds'
    /\ \A n \in DecisionIds : decisions'[n] = decisions[n]

\* A step that decides nothing about messages (on = "draft"), or metrics (on = "metric").
Undecided(on) == LogGrows /\ \A n \in DecisionIds' : n \in DecisionIds \/ decisions'[n].on # on

\* The step of a request that settles a metric.
Settles(p) ==
    \/ Settle(p, "activate", "active", "approval", 0)
    \/ Settle(p, "discard", "rejected", "rejection", 0)
    \/ Settle(p, "undo", "reverted", "undo", request[p].decision)

LEMMA Settling ==
  ASSUME Typed, NEW p \in Requests, Settles(p)
  PROVE  \E op \in {"activate", "discard", "undo"}, status \in {"active", "rejected", "reverted"},
            kind \in {"approval", "rejection", "undo"}, ref \in Nat :
           /\ Settle(p, op, status, kind, ref)
           /\ \/ op = "activate" /\ status = "active" /\ kind = "approval"
              \/ op = "discard" /\ status = "rejected" /\ kind = "rejection"
              \/ op = "undo" /\ status = "reverted" /\ kind = "undo" /\ ref = request[p].decision
<1>1. request[p].decision \in Nat  BY Rows DEF Typed, Request
<1> QED  BY <1>1 DEF Settles

\* Steps leave the messages alone, or are the report's, a decision or a sending.
DraftStep ==
    \/ UNCHANGED <<drafts, sent>> /\ Undecided("draft")
    \/ CommitReport /\ UNCHANGED decisions
    \/ \E p \in Requests : Decide(p)
    \/ \E p \in Requests : Send(p)

\* Steps leave the metrics alone, or are a proposal or settle one.
MetricStep ==
    \/ UNCHANGED metrics /\ Undecided("metric")
    \/ \E p \in Requests : Propose(p) /\ UNCHANGED decisions
    \/ \E p \in Requests : Settles(p)

\* A request goes on, ends, or has just read a row whose status it has checked.
RequestStep ==
    \A q \in Requests :
      \/ request'[q] = request[q]
      \/ request'[q].op \notin {"send", "undo"}
      \/ /\ request'[q].op = "send"
         /\ request'[q].item \in DraftIds /\ drafts[request'[q].item].status = "approved"
         /\ UNCHANGED <<drafts, decisions>>
      \/ /\ request'[q].op = "undo"
         /\ request'[q].item \in MetricIds /\ metrics[request'[q].item].status = "active"
         /\ request'[q].decision = metrics[request'[q].item].decision
         /\ UNCHANGED <<metrics, decisions>>

\* A request that is done waits for nothing.
LEMMA DoneStep == ASSUME Typed, NEW p \in Requests, Done(p) PROVE RequestStep
<1>1. request \in [Requests -> Request]  BY DEF Typed, TypeOK
<1> QED  BY <1>1 DEF Done, RequestStep, Free

\* A request that reads.
LEMMA ReadStep ==
  ASSUME Typed, NEW p \in Requests, NEW op, NEW i, NEW d, Read(p, op, i, d),
         \/ op \notin {"send", "undo"}
         \/ op = "send" /\ i \in DraftIds /\ drafts[i].status = "approved"
         \/ op = "undo" /\ i \in MetricIds /\ metrics[i].status = "active" /\ d = metrics[i].decision
  PROVE  RequestStep /\ DraftStep /\ MetricStep
<1>1. request \in [Requests -> Request]  BY DEF Typed, TypeOK
<1>2. request' = [request EXCEPT ![p] = [op |-> op, item |-> i, decision |-> d]]  BY DEF Read
<1>3. UNCHANGED <<drafts, sent, metrics, decisions>>  BY DEF Read
<1>4. ASSUME NEW q \in Requests
      PROVE  \/ request'[q] = request[q]
             \/ request'[q] = [op |-> op, item |-> i, decision |-> d]
  BY <1>1, <1>2
<1>5. RequestStep  BY <1>3, <1>4 DEF RequestStep
<1>6. Undecided("draft") /\ Undecided("metric")  BY <1>3 DEF Undecided, LogGrows, DecisionIds
<1> QED  BY <1>3, <1>5, <1>6 DEF DraftStep, MetricStep

\* Every step is one of these for the messages, for the metrics and for every request.
LEMMA Steps == ASSUME Typed, [Next]_vars PROVE DraftStep /\ MetricStep /\ RequestStep
<1>1. ASSUME UNCHANGED decisions PROVE Undecided("draft") /\ Undecided("metric")
  BY <1>1 DEF Undecided, LogGrows, DecisionIds
<1>2. ASSUME UNCHANGED <<drafts, sent, metrics, decisions>> PROVE DraftStep /\ MetricStep
  BY <1>1, <1>2 DEF DraftStep, MetricStep
<1>3. ASSUME UNCHANGED request PROVE RequestStep  BY <1>3 DEF RequestStep
<1>4. CASE NewTask  BY <1>2, <1>3, <1>4 DEF NewTask
<1>5. CASE \E t \in TaskIds : TakeUp(t)  BY <1>2, <1>3, <1>5 DEF TakeUp
<1>6. CASE NextWeek  BY <1>2, <1>3, <1>6 DEF NextWeek
<1>7. CASE \E fresh \in {0, 1} : BuildReport(fresh)  BY <1>2, <1>3, <1>7 DEF BuildReport
<1>8. CASE CommitReport
  <2>1. UNCHANGED <<sent, metrics, decisions, request>>  BY <1>8 DEF CommitReport
  <2> QED  BY <1>1, <1>3, <1>8, <2>1 DEF DraftStep, MetricStep
<1>9. CASE AbortReport  BY <1>2, <1>3, <1>9 DEF AbortReport
<1>10. CASE \E p \in Requests, d \in DraftIds, op \in {"approve", "reject"} : ReadDraft(p, op, d)
  <2>1. PICK p \in Requests, d \in DraftIds, op \in {"approve", "reject"} : Read(p, op, d, 0)
    BY <1>10 DEF ReadDraft
  <2> QED  BY <2>1, ReadStep
<1>11. CASE \E p \in Requests, d \in DraftIds : ReadApproved(p, d)
  <2>1. PICK p \in Requests, d \in DraftIds : Read(p, "send", d, 0) /\ drafts[d].status = "approved"
    BY <1>11 DEF ReadApproved, MaySend
  <2> QED  BY <2>1, ReadStep
<1>12. CASE \E p \in Requests, name \in Names : ReadNames(p, name)
  <2>1. PICK p \in Requests, name \in Names : Read(p, "propose", name, 0)
    BY <1>12 DEF ReadNames
  <2> QED  BY <2>1, ReadStep
<1>13. CASE \E p \in Requests, m \in MetricIds, op \in {"activate", "discard", "undo"} :
              ReadMetric(p, op, m)
  <2>1. PICK p \in Requests, m \in MetricIds, op \in {"activate", "discard", "undo"} :
          Read(p, op, m, metrics[m].decision) /\ Allowed(m, op)
    BY <1>13 DEF ReadMetric
  <2>2. op = "undo" => metrics[m].status = "active"  BY <2>1 DEF Allowed
  <2> QED  BY <2>1, <2>2, ReadStep
<1>14. CASE \E p \in Requests : Decide(p)
  <2>1. PICK p \in Requests : Decide(p)  BY <1>14
  <2>2. Done(p) /\ UNCHANGED metrics  BY <2>1 DEF Decide
  <2>3. /\ DecisionIds' = DecisionIds \cup {Len(decisions) + 1}
        /\ \A n \in DecisionIds : decisions'[n] = decisions[n]
    BY <2>1, DecideWrites
  <2>4. decisions'[Len(decisions) + 1] =
          [kind |-> IF Verdict(p) = "approved" THEN "approval" ELSE "rejection",
           on |-> "draft", item |-> request[p].item, ref |-> 0]
    BY <2>1, DecideWrites
  <2>5. Undecided("metric")  BY <2>3, <2>4 DEF Undecided, LogGrows
  <2> QED  BY <2>1, <2>2, <2>5, DoneStep DEF DraftStep, MetricStep
<1>15. CASE \E p \in Requests : Send(p)
  <2>1. PICK p \in Requests : Send(p)  BY <1>15
  <2>2. Done(p) /\ UNCHANGED <<metrics, decisions>>  BY <2>1 DEF Send
  <2> QED  BY <1>1, <2>1, <2>2, DoneStep DEF DraftStep, MetricStep
<1>16. CASE \E p \in Requests : Propose(p)
  <2>1. PICK p \in Requests : Propose(p)  BY <1>16
  <2>2. Done(p) /\ UNCHANGED <<drafts, sent, decisions>>  BY <2>1 DEF Propose
  <2> QED  BY <1>1, <2>1, <2>2, DoneStep DEF DraftStep, MetricStep
<1>17. ASSUME NEW p \in Requests, Settles(p) PROVE DraftStep /\ MetricStep /\ RequestStep
  <2>1. PICK op \in {"activate", "discard", "undo"}, status \in {"active", "rejected", "reverted"},
            kind \in {"approval", "rejection", "undo"}, ref \in Nat :
          Settle(p, op, status, kind, ref)
    BY <1>17, Settling
  <2>2. Done(p) /\ UNCHANGED <<drafts, sent>>  BY <2>1 DEF Settle
  <2>3. /\ DecisionIds' = DecisionIds \cup {Len(decisions) + 1}
        /\ \A n \in DecisionIds : decisions'[n] = decisions[n]
        /\ decisions'[Len(decisions) + 1] =
             [kind |-> kind, on |-> "metric", item |-> request[p].item, ref |-> ref]
    <3>1. SettleEffect(p, op, status, kind, ref)  BY <2>1, SettleWrites
    <3> QED  BY <3>1 DEF SettleEffect
  <2>4. Undecided("draft")  BY <2>3 DEF Undecided, LogGrows
  <2> QED  BY <1>17, <2>2, <2>4, DoneStep DEF DraftStep, MetricStep
<1>18. CASE \E p \in Requests : Activate(p)  BY <1>17, <1>18 DEF Activate, Settles
<1>19. CASE \E p \in Requests : Discard(p)  BY <1>17, <1>19 DEF Discard, Settles
<1>20. CASE \E p \in Requests : Deactivate(p)
  BY <1>17, <1>20 DEF Deactivate, Settles, Reverted
<1>21. CASE \E p \in Requests : Refuse(p)
  <2>1. PICK p \in Requests : Refuse(p)  BY <1>21
  <2> QED  BY <1>2, <2>1, DoneStep DEF Refuse
<1>22. CASE UNCHANGED vars  BY <1>2, <1>3, <1>22 DEF vars
<1> QED
  BY <1>4, <1>5, <1>6, <1>7, <1>8, <1>9, <1>10, <1>11, <1>12, <1>13, <1>14, <1>15, <1>16,
     <1>18, <1>19, <1>20, <1>21, <1>22 DEF Next

\* The log grows with every step.
LEMMA Growing == ASSUME Typed, [Next]_vars PROVE LogGrows
<1>1. CASE \E p \in Requests : Decide(p)  BY <1>1, DecideWrites DEF LogGrows
<1>2. ASSUME NEW p \in Requests, Send(p) PROVE LogGrows
  BY <1>2 DEF Send, LogGrows, DecisionIds
<1>3. CASE CommitReport /\ UNCHANGED decisions  BY <1>3 DEF LogGrows, DecisionIds
<1> QED  BY <1>1, <1>2, <1>3, Steps DEF DraftStep, Undecided

\* What a step that decides nothing about rows leaves as it was.
LEMMA NothingDecided ==
  ASSUME NEW on, Undecided(on)
  PROVE  /\ Approved(on)' = Approved(on)
         /\ \A i : About(on, i)' = About(on, i)
BY DEF Undecided, LogGrows, Approved, About

\* What stays approved.
LEMMA ApprovedStays == ASSUME LogGrows, NEW on PROVE Approved(on) \subseteq Approved(on)'
BY DEF LogGrows, Approved
------------------------------------------------------------------------------
(* Nothing is sent, and no metric is in force, that nobody has approved.     *)

\* The status "approved" is never without its decision, and a request that goes on to send
\* has seen it: from then on the status may change, the decision stays in the log.
Recorded ==
    /\ \A d \in DraftIds : drafts[d].status \in {"approved", "sent"} => d \in Approved("draft")
    /\ \A p \in Requests : request[p].op = "send" => request[p].item \in Approved("draft")

LEMMA RecordedInit == Init => Recorded
BY DEF Init, Recorded, DraftIds, Free

\* A decision to approve is on record.
LEMMA ApprovalLogged ==
  ASSUME Typed, NEW p \in Requests, Decide(p), Verdict(p) = "approved"
  PROVE  request[p].item \in Approved("draft")'
<1>1. DecisionIds' = DecisionIds \cup {Len(decisions) + 1}  BY DecideWrites
<1>2. decisions'[Len(decisions) + 1] =
        [kind |-> IF Verdict(p) = "approved" THEN "approval" ELSE "rejection",
         on |-> "draft", item |-> request[p].item, ref |-> 0]
  BY DecideWrites
<1> QED  BY <1>1, <1>2 DEF Approved

LEMMA RecordedStep == Typed /\ Recorded /\ [Next]_vars => Recorded'
<1> SUFFICES ASSUME Typed, Recorded, [Next]_vars PROVE Recorded'  OBVIOUS
<1>1. DraftStep /\ RequestStep /\ LogGrows  BY Steps, Growing
<1>2. Approved("draft") \subseteq Approved("draft")'  BY <1>1, ApprovedStays
<1>3. ASSUME NEW d \in DraftIds', drafts'[d].status \in {"approved", "sent"}
      PROVE  d \in Approved("draft")'
  <2>1. CASE UNCHANGED drafts  BY <1>2, <1>3, <2>1 DEF Recorded, DraftIds
  <2>2. CASE CommitReport  BY <1>2, <1>3, <2>2, ReportAdds DEF Recorded
  <2>3. ASSUME NEW p \in Requests, Decide(p) PROVE d \in Approved("draft")'
    <3>1. /\ DraftIds' = DraftIds /\ drafts'[request[p].item].status = Verdict(p)
          /\ \A e \in DraftIds : e # request[p].item => drafts'[e] = drafts[e]
          /\ Verdict(p) \in {"approved", "rejected"}
      BY <2>3, DecideWrites
    <3>2. CASE d = request[p].item  BY <1>3, <2>3, <3>1, <3>2, ApprovalLogged
    <3>3. CASE d # request[p].item  BY <1>2, <1>3, <3>1, <3>3 DEF Recorded
    <3> QED  BY <3>2, <3>3
  <2>4. ASSUME NEW p \in Requests, Send(p) PROVE d \in Approved("draft")'
    <3>1. /\ DraftIds' = DraftIds
          /\ \A e \in DraftIds : e # request[p].item => drafts'[e] = drafts[e]
      BY <2>4, SendWrites
    <3>2. request[p].item \in Approved("draft")  BY <2>4 DEF Send, Recorded
    <3> QED  BY <1>2, <1>3, <3>1, <3>2 DEF Recorded
  <2> QED  BY <1>1, <2>1, <2>2, <2>3, <2>4 DEF DraftStep
<1>4. ASSUME NEW q \in Requests, request'[q].op = "send"
      PROVE  request'[q].item \in Approved("draft")'
  <2>1. CASE request'[q] = request[q]  BY <1>2, <1>4, <2>1 DEF Recorded
  <2>2. CASE /\ request'[q].item \in DraftIds
             /\ drafts[request'[q].item].status = "approved"
    BY <1>2, <2>2 DEF Recorded
  <2> QED  BY <1>1, <1>4, <2>1, <2>2 DEF RequestStep
<1> QED  BY <1>3, <1>4 DEF Recorded

\* A step of the program is a step of the gate for messages.
LEMMA MessageGateStep ==
  Typed /\ Recorded /\ [Next]_vars => [MessageGate!Next]_MessageGate!gate
<1> SUFFICES ASSUME Typed, Recorded, [Next]_vars
             PROVE  MessageGate!Next
    BY DEF MessageGate!gate
<1>1. DraftStep /\ LogGrows  BY Steps, Growing
<1>2. Approved("draft") \subseteq Approved("draft")'  BY <1>1, ApprovedStays
<1>3. ASSUME NEW p \in Requests, Send(p) PROVE sent' \ sent \subseteq Approved("draft")
  BY <1>3 DEF Send, Recorded
<1>4. \/ sent' = sent
      \/ \E p \in Requests : Send(p)
  BY <1>1 DEF DraftStep, CommitReport, Decide
<1>5. sent' \ sent \subseteq Approved("draft")'  BY <1>2, <1>3, <1>4
<1> QED  BY <1>2, <1>5 DEF MessageGate!Next

\* "No customer-facing item is ever sent without explicit human approval": the messages
\* implement the gate, for any number of requests, in any order of their steps.
THEOREM MessagesGated == Spec => MessagesAreGated
<1>1. Init => MessageGate!Init  BY DEF Init, MessageGate!Init, Approved, DecisionIds
<1> QED
  BY <1>1, TypeInit, TypeStep, RecordedInit, RecordedStep, MessageGateStep, PTL
     DEF Spec, MessagesAreGated, MessageGate!Spec

\* In the words of the README of the service: what was sent is approved.
THEOREM NothingSentUnapproved == Spec => [](sent \subseteq Approved("draft"))
<1>1. MessageGate!Init => MessageGate!NothingUnapproved
  BY DEF MessageGate!Init, MessageGate!NothingUnapproved
<1>2. MessageGate!NothingUnapproved /\ [MessageGate!Next]_MessageGate!gate
        => MessageGate!NothingUnapproved'
  BY DEF MessageGate!Next, MessageGate!gate, MessageGate!NothingUnapproved
<1>3. MessageGate!Spec => []MessageGate!NothingUnapproved
  BY <1>1, <1>2, PTL DEF MessageGate!Spec
<1>4. MessageGate!NothingUnapproved <=> sent \subseteq Approved("draft")
  BY DEF MessageGate!NothingUnapproved
<1> QED  BY <1>3, <1>4, MessagesGated, PTL DEF MessagesAreGated

\* What a request that settles a metric writes, the kind of its decision given by the status.
Settled(p, status, ref) ==
    SettleEffect(p, request[p].op, status,
                 CASE status = "active"   -> "approval"
                   [] status = "rejected" -> "rejection"
                   [] OTHER               -> "undo", ref)

LEMMA SettledWrites ==
  ASSUME Typed, NEW p \in Requests, Settles(p)
  PROVE  \E status \in {"active", "rejected", "reverted"}, ref \in Nat :
           /\ Settled(p, status, ref)
           /\ status = "reverted" => request[p].op = "undo" /\ ref = request[p].decision
<1>1. PICK op \in {"activate", "discard", "undo"}, status \in {"active", "rejected", "reverted"},
           kind \in {"approval", "rejection", "undo"}, ref \in Nat :
        /\ Settle(p, op, status, kind, ref)
        /\ \/ op = "activate" /\ status = "active" /\ kind = "approval"
           \/ op = "discard" /\ status = "rejected" /\ kind = "rejection"
           \/ op = "undo" /\ status = "reverted" /\ kind = "undo" /\ ref = request[p].decision
  BY Settling
<1>2. SettleEffect(p, op, status, kind, ref)  BY <1>1, SettleWrites
<1>3. request[p].op = op  BY <1>2 DEF SettleEffect
<1>4. kind = CASE status = "active" -> "approval" [] status = "rejected" -> "rejection" [] OTHER -> "undo"
  BY <1>1
<1>5. Settled(p, status, ref)  BY <1>2, <1>3, <1>4 DEF Settled
<1>6. status = "reverted" => op = "undo" /\ ref = request[p].decision  BY <1>1
<1> QED  BY <1>3, <1>5, <1>6

\* A step of the program is a step of the gate for metrics.
LEMMA MetricGateStep == Typed /\ [Next]_vars => [MetricGate!Next]_MetricGate!gate
<1> DEFINE InForce == {m \in MetricIds : metrics[m].status = "active"}
<1> SUFFICES ASSUME Typed, [Next]_vars
             PROVE  MetricGate!Next
    BY DEF MetricGate!gate
<1>1. MetricStep /\ LogGrows  BY Steps, Growing
<1>2. Approved("metric") \subseteq Approved("metric")'  BY <1>1, ApprovedStays
<1>3. CASE UNCHANGED metrics
  <2>1. InForce' = InForce  BY <1>3 DEF MetricIds
  <2> QED  BY <1>2, <2>1 DEF MetricGate!Next
<1>4. ASSUME NEW p \in Requests, Propose(p) PROVE InForce' \subseteq InForce
  BY <1>4, ProposeWrites
<1>5. ASSUME NEW p \in Requests, Settles(p) PROVE InForce' \ InForce \subseteq Approved("metric")'
  <2>1. PICK status \in {"active", "rejected", "reverted"}, ref \in Nat : Settled(p, status, ref)
    BY <1>5, SettledWrites
  <2>2. /\ MetricIds' = MetricIds /\ metrics'[request[p].item].status = status
        /\ \A m \in MetricIds : m # request[p].item => metrics'[m] = metrics[m]
    BY <2>1 DEF Settled, SettleEffect
  <2>3. CASE status = "active"
    <3>1. /\ DecisionIds' = DecisionIds \cup {Len(decisions) + 1}
          /\ decisions'[Len(decisions) + 1] =
               [kind |-> "approval", on |-> "metric", item |-> request[p].item, ref |-> ref]
      BY <2>1, <2>3 DEF Settled, SettleEffect
    <3>2. request[p].item \in Approved("metric")'  BY <3>1 DEF Approved
    <3> QED  BY <2>2, <3>2
  <2>4. CASE status # "active"  BY <2>2, <2>4
  <2> QED  BY <2>3, <2>4
<1> QED  BY <1>1, <1>2, <1>3, <1>4, <1>5 DEF MetricStep, MetricGate!Next

\* "A proposal is INERT until approved": the metrics implement the gate.
THEOREM MetricsGated == Spec => MetricsAreGated
<1>1. Init => MetricGate!Init
  BY DEF Init, MetricGate!Init, Approved, DecisionIds, MetricIds
<1> QED
  BY <1>1, TypeInit, TypeStep, MetricGateStep, PTL DEF Spec, MetricsAreGated, MetricGate!Spec
------------------------------------------------------------------------------
(* An undo refers to the approval that it takes back.                        *)

ApprovalOf(m, n) ==
    /\ n \in DecisionIds
    /\ decisions[n].kind = "approval" /\ decisions[n].on = "metric" /\ decisions[n].item = m

\* A metric in force knows its approval, and so does a request that has read it, even when
\* another request settles the metric meanwhile.
Undoable ==
    /\ \A m \in MetricIds : metrics[m].status = "active" => ApprovalOf(m, metrics[m].decision)
    /\ \A p \in Requests : request[p].op = "undo" => ApprovalOf(request[p].item, request[p].decision)

\* What an undo is to refer to.
UndoRefers(n) ==
    decisions[n].kind = "undo" =>
      n \in Nat /\ decisions[n].ref < n /\ ApprovalOf(decisions[n].item, decisions[n].ref)

Undone == \A n \in DecisionIds : UndoRefers(n)

LEMMA UndoInit == Init => Undoable /\ Undone
BY DEF Init, Undoable, Undone, MetricIds, DecisionIds, Free

LEMMA UndoableStep == Typed /\ Undoable /\ [Next]_vars => Undoable'
<1> SUFFICES ASSUME Typed, Undoable, [Next]_vars PROVE Undoable'  OBVIOUS
<1>1. MetricStep /\ RequestStep /\ LogGrows  BY Steps, Growing
<1>2. ASSUME NEW m \in MetricIds', metrics'[m].status = "active"
      PROVE  ApprovalOf(m, metrics[m].decision)'
  <2>1. ASSUME m \in MetricIds, metrics'[m] = metrics[m] PROVE ApprovalOf(m, metrics[m].decision)'
    <3>1. ApprovalOf(m, metrics[m].decision)  BY <1>2, <2>1 DEF Undoable
    <3> QED  BY <1>1, <2>1, <3>1 DEF LogGrows, ApprovalOf
  <2>2. CASE UNCHANGED metrics  BY <2>1, <2>2 DEF MetricIds
  <2>3. ASSUME NEW p \in Requests, Propose(p) PROVE ApprovalOf(m, metrics[m].decision)'
    BY <1>2, <2>1, <2>3, ProposeWrites
  <2>4. ASSUME NEW p \in Requests, Settles(p) PROVE ApprovalOf(m, metrics[m].decision)'
    <3>1. PICK status \in {"active", "rejected", "reverted"}, ref \in Nat : Settled(p, status, ref)
      BY <2>4, SettledWrites
    <3>2. /\ MetricIds' = MetricIds
          /\ metrics'[request[p].item].status = status
          /\ metrics'[request[p].item].decision = Len(decisions) + 1
          /\ \A k \in MetricIds : k # request[p].item => metrics'[k] = metrics[k]
      BY <3>1 DEF Settled, SettleEffect
    <3>3. CASE m = request[p].item
      <4>1. status = "active"  BY <1>2, <3>2, <3>3
      <4>2. /\ DecisionIds' = DecisionIds \cup {Len(decisions) + 1}
            /\ decisions'[Len(decisions) + 1] =
                 [kind |-> "approval", on |-> "metric", item |-> m, ref |-> ref]
        BY <3>1, <3>3, <4>1 DEF Settled, SettleEffect
      <4>3. metrics'[m].decision = Len(decisions) + 1  BY <3>2, <3>3
      <4> QED  BY <4>2, <4>3 DEF ApprovalOf
    <3>4. CASE m # request[p].item  BY <1>2, <2>1, <3>2, <3>4
    <3> QED  BY <3>3, <3>4
  <2> QED  BY <1>1, <2>2, <2>3, <2>4 DEF MetricStep
<1>3. ASSUME NEW q \in Requests, request'[q].op = "undo"
      PROVE  ApprovalOf(request[q].item, request[q].decision)'
  <2>1. ApprovalOf(request'[q].item, request'[q].decision)
    BY <1>1, <1>3 DEF RequestStep, Undoable
  <2> QED  BY <1>1, <2>1 DEF LogGrows, ApprovalOf
<1> QED  BY <1>2, <1>3 DEF Undoable

LEMMA UndoneStep == Typed /\ Undoable /\ Undone /\ [Next]_vars => Undone'
<1> SUFFICES ASSUME Typed, Undoable, Undone, [Next]_vars, NEW n \in DecisionIds'
             PROVE  UndoRefers(n)'
    BY DEF Undone
<1>1. MetricStep /\ DraftStep /\ LogGrows  BY Steps, Growing
<1>2. CASE n \in DecisionIds
  BY <1>1, <1>2 DEF Undone, UndoRefers, ApprovalOf, LogGrows
<1>3. ASSUME n \notin DecisionIds, NEW p \in Requests, Decide(p) PROVE UndoRefers(n)'
  <2>1. DecisionIds' = DecisionIds \cup {Len(decisions) + 1}  BY <1>3, DecideWrites
  <2>2. decisions'[Len(decisions) + 1] =
          [kind |-> IF Verdict(p) = "approved" THEN "approval" ELSE "rejection",
           on |-> "draft", item |-> request[p].item, ref |-> 0]
    BY <1>3, DecideWrites
  <2> QED  BY <1>3, <2>1, <2>2 DEF UndoRefers
<1>4. ASSUME n \notin DecisionIds, NEW p \in Requests, Settles(p) PROVE UndoRefers(n)'
  <2>1. PICK status \in {"active", "rejected", "reverted"}, ref \in Nat :
          /\ Settled(p, status, ref)
          /\ status = "reverted" => request[p].op = "undo" /\ ref = request[p].decision
    BY <1>4, SettledWrites
  <2>2. /\ DecisionIds' = DecisionIds \cup {Len(decisions) + 1}
        /\ \A k \in DecisionIds : k < Len(decisions) + 1 /\ k \in Nat
        /\ Len(decisions) + 1 \in Nat
    BY <2>1 DEF Settled, SettleEffect
  <2>3. n = Len(decisions) + 1  BY <1>4, <2>2
  <2>4. /\ decisions'[n].kind = CASE status = "active"   -> "approval"
                                  [] status = "rejected" -> "rejection"
                                  [] OTHER               -> "undo"
        /\ decisions'[n].item = request[p].item /\ decisions'[n].ref = ref
    BY <2>1, <2>3 DEF Settled, SettleEffect
  <2>5. CASE status = "reverted"
    <3>1. ApprovalOf(request[p].item, ref)  BY <2>1, <2>5 DEF Undoable
    <3>2. ref \in DecisionIds  BY <3>1 DEF ApprovalOf
    <3> QED  BY <1>1, <2>2, <2>3, <2>4, <3>1, <3>2 DEF UndoRefers, ApprovalOf, LogGrows
  <2>6. CASE status # "reverted"  BY <2>4, <2>6 DEF UndoRefers
  <2> QED  BY <2>5, <2>6
<1>5. CASE UNCHANGED decisions  BY <1>2, <1>5 DEF DecisionIds
<1>6. CASE n \notin DecisionIds /\ Undecided("draft") /\ Undecided("metric")
  <2>1. decisions'[n].on \notin {"draft", "metric"}  BY <1>6 DEF Undecided
  <2>2. decisions' \in Seq(Decision)  BY TypeStep DEF Typed, TypeOK
  <2>3. decisions'[n] \in Decision  BY <2>2, Ids DEF DecisionIds
  <2> QED  BY <2>1, <2>3 DEF Decision
<1>7. ASSUME NEW p \in Requests, Send(p) PROVE UNCHANGED decisions  BY <1>7 DEF Send
<1> QED  BY <1>1, <1>2, <1>3, <1>4, <1>5, <1>6, <1>7 DEF MetricStep, DraftStep

\* "A NEW undo decision (append-only)" refers to the approval that it takes back.
THEOREM UndoReverts == Spec => []UndoRevertsAnApproval
<1>1. Undone => UndoRevertsAnApproval
  BY DEF Undone, UndoRefers, ApprovalOf, UndoRevertsAnApproval
<1> QED  BY <1>1, TypeInit, TypeStep, UndoInit, UndoableStep, UndoneStep, PTL DEF Spec
------------------------------------------------------------------------------
(* The status of a row is what was decided about it last.                    *)

\* Decisions are about rows that exist: none precedes its row.
DecisionRefs ==
    \A n \in DecisionIds :
      /\ decisions[n].on = "draft" => decisions[n].item \in DraftIds
      /\ decisions[n].on = "metric" => decisions[n].item \in MetricIds

StatusInv == DecisionRefs /\ StatusIsDecided

LEMMA StatusInit == Init => StatusInv
BY DEF Init, StatusInv, DecisionRefs, StatusIsDecided, DraftIds, MetricIds, DecisionIds

\* How a decision about row i enters the log.
LogsOne(on, i, kind) ==
    LET n == Len(decisions) + 1 IN
    /\ n \in Nat
    /\ \A k \in DecisionIds : k < n /\ k \in Nat
    /\ DecisionIds' = DecisionIds \cup {n}
    /\ \A k \in DecisionIds : decisions'[k] = decisions[k]
    /\ decisions'[n].on = on /\ decisions'[n].item = i /\ decisions'[n].kind = kind

\* It becomes the latest about that row, and changes nothing about other rows.
LEMMA OneLogged ==
  ASSUME NEW on, NEW i, NEW kind, LogsOne(on, i, kind)
  PROVE  /\ About(on, i)' # {}
         /\ \A n \in DecisionIds' : Latest(on, i, n)' => n = Len(decisions) + 1
         /\ \A j : j # i => About(on, j)' = About(on, j)
         /\ decisions'[Len(decisions) + 1].kind = kind
<1> DEFINE new == Len(decisions) + 1
<1>1. /\ new \in Nat
      /\ \A k \in DecisionIds : k < new /\ k \in Nat
      /\ DecisionIds' = DecisionIds \cup {new}
      /\ \A k \in DecisionIds : decisions'[k] = decisions[k]
      /\ decisions'[new].on = on /\ decisions'[new].item = i /\ decisions'[new].kind = kind
  BY DEF LogsOne
<1> HIDE DEF new
<1>2. new \in About(on, i)'  BY <1>1 DEF About
<1>3. ASSUME NEW n \in DecisionIds', Latest(on, i, n)' PROVE n = new
  <2>1. new <= n  BY <1>2, <1>3 DEF Latest
  <2> QED  BY <1>1, <2>1
<1>4. ASSUME NEW j, j # i PROVE About(on, j)' = About(on, j)
  BY <1>1, <1>4 DEF About
<1> QED  BY <1>1, <1>2, <1>3, <1>4 DEF new

LEMMA DecideLogs ==
  ASSUME Typed, NEW p \in Requests, Decide(p)
  PROVE  LogsOne("draft", request[p].item,
                 IF Verdict(p) = "approved" THEN "approval" ELSE "rejection")
<1>1. /\ Len(decisions) + 1 \in Nat
      /\ DecisionIds' = DecisionIds \cup {Len(decisions) + 1}
  BY DecideWrites
<1>2. \A n \in DecisionIds : n < Len(decisions) + 1 /\ n \in Nat  BY DecideWrites
<1>3. \A n \in DecisionIds : decisions'[n] = decisions[n]  BY DecideWrites
<1>4. decisions'[Len(decisions) + 1] =
        [kind |-> IF Verdict(p) = "approved" THEN "approval" ELSE "rejection",
         on |-> "draft", item |-> request[p].item, ref |-> 0]
  BY DecideWrites
<1> QED  BY <1>1, <1>2, <1>3, <1>4 DEF LogsOne

LEMMA SettleLogs ==
  ASSUME NEW p \in Requests, NEW status, NEW ref, Settled(p, status, ref)
  PROVE  LogsOne("metric", request[p].item, CASE status = "active"   -> "approval"
                                              [] status = "rejected" -> "rejection"
                                              [] OTHER               -> "undo")
BY DEF Settled, SettleEffect, LogsOne

\* A row about which nothing is decided, and that does not change, stays as decided.
LEMMA DraftUntouched ==
  ASSUME NEW d \in DraftIds, DraftDecided(d), LogGrows, sent \subseteq sent',
         drafts'[d] = drafts[d], About("draft", d)' = About("draft", d)
  PROVE  DraftDecided(d)'
<1>1. \A n : Latest("draft", d, n)' => Latest("draft", d, n) /\ n \in DecisionIds
  BY DEF Latest, About
<1> QED  BY <1>1 DEF DraftDecided, LogGrows

LEMMA MetricUntouched ==
  ASSUME NEW m \in MetricIds, MetricDecided(m), LogGrows,
         metrics'[m] = metrics[m], About("metric", m)' = About("metric", m)
  PROVE  MetricDecided(m)'
<1>1. \A n : Latest("metric", m, n)' => Latest("metric", m, n) /\ n \in DecisionIds
  BY DEF Latest, About
<1> QED  BY <1>1 DEF MetricDecided, LogGrows

\* A row that is new has not been decided about.
LEMMA NewRows ==
  ASSUME DecisionRefs, UNCHANGED decisions
  PROVE  /\ \A i : About("draft", i)' = About("draft", i) /\ About("metric", i)' = About("metric", i)
         /\ \A d : d \notin DraftIds => About("draft", d) = {}
         /\ \A m : m \notin MetricIds => About("metric", m) = {}
BY DEF DecisionRefs, About, DecisionIds

LEMMA DraftsDecided ==
  ASSUME Typed, Recorded, StatusInv, [Next]_vars, NEW d \in DraftIds'
  PROVE  DraftDecided(d)'
<1>1. DraftStep /\ LogGrows  BY Steps, Growing
<1>2. \A e \in DraftIds : DraftDecided(e)  BY DEF StatusInv, StatusIsDecided
<1>3. CASE UNCHANGED <<drafts, sent>> /\ Undecided("draft")
  <2>1. About("draft", d)' = About("draft", d)  BY <1>3, NothingDecided
  <2>2. d \in DraftIds /\ drafts' = drafts /\ sent \subseteq sent'  BY <1>3 DEF DraftIds
  <2> QED  BY <1>1, <1>2, <2>1, <2>2, DraftUntouched
<1>4. CASE CommitReport /\ UNCHANGED decisions
  <2>1. About("draft", d)' = About("draft", d) /\ (d \notin DraftIds => About("draft", d) = {})
    BY <1>4, NewRows DEF StatusInv
  <2>2. sent' = sent  BY <1>4 DEF CommitReport
  <2>3. CASE d \in DraftIds
    <3>1. drafts'[d] = drafts[d]  BY <1>4, <2>3, ReportAdds
    <3> QED  BY <1>1, <1>2, <2>1, <2>2, <2>3, <3>1, DraftUntouched
  <2>4. CASE d \notin DraftIds
    <3>1. drafts'[d].status = "pending_approval"  BY <1>4, <2>4, ReportAdds
    <3>2. About("draft", d)' = {}  BY <2>1, <2>4
    <3> QED  BY <3>1, <3>2 DEF DraftDecided, Latest
  <2> QED  BY <2>3, <2>4
<1>5. ASSUME NEW p \in Requests, Decide(p) PROVE DraftDecided(d)'
  <2>1. /\ DraftIds' = DraftIds /\ drafts'[request[p].item].status = Verdict(p)
        /\ \A e \in DraftIds : e # request[p].item => drafts'[e] = drafts[e]
        /\ Verdict(p) \in {"approved", "rejected"}
    BY <1>5, DecideWrites
  <2>2. LogsOne("draft", request[p].item,
                IF Verdict(p) = "approved" THEN "approval" ELSE "rejection")
    BY <1>5, DecideLogs
  <2>3. sent' = sent  BY <1>5 DEF Decide
  <2>4. CASE d = request[p].item
    <3>1. /\ About("draft", d)' # {}
          /\ \A n \in DecisionIds' : Latest("draft", d, n)' => n = Len(decisions) + 1
          /\ decisions'[Len(decisions) + 1].kind =
               IF Verdict(p) = "approved" THEN "approval" ELSE "rejection"
      BY <2>2, <2>4, OneLogged
    <3> QED  BY <2>1, <2>4, <3>1 DEF DraftDecided
  <2>5. CASE d # request[p].item
    <3>1. About("draft", d)' = About("draft", d)  BY <2>2, <2>5, OneLogged
    <3> QED  BY <1>1, <1>2, <2>1, <2>3, <2>5, <3>1, DraftUntouched
  <2> QED  BY <2>4, <2>5
<1>6. ASSUME NEW p \in Requests, Send(p) PROVE DraftDecided(d)'
  <2>1. /\ request[p].item \in Approved("draft")
        /\ sent' = sent \cup {request[p].item} /\ UNCHANGED decisions
    BY <1>6 DEF Send, Recorded
  <2>2. /\ DraftIds' = DraftIds /\ drafts'[request[p].item].status = "sent"
        /\ \A e \in DraftIds : e # request[p].item => drafts'[e] = drafts[e]
    BY <1>6, SendWrites
  <2>3. About("draft", d)' = About("draft", d)  BY <2>1, NewRows DEF StatusInv
  <2>4. CASE d = request[p].item
    <3>1. About("draft", d) # {}  BY <2>1, <2>4 DEF Approved, About
    <3> QED  BY <2>1, <2>2, <2>3, <2>4, <3>1 DEF DraftDecided
  <2>5. CASE d # request[p].item
    BY <1>1, <1>2, <2>1, <2>2, <2>3, <2>5, DraftUntouched
  <2> QED  BY <2>4, <2>5
<1> QED  BY <1>1, <1>3, <1>4, <1>5, <1>6 DEF DraftStep

LEMMA MetricsDecided ==
  ASSUME Typed, StatusInv, [Next]_vars, NEW m \in MetricIds'
  PROVE  MetricDecided(m)'
<1>1. MetricStep /\ LogGrows  BY Steps, Growing
<1>2. \A k \in MetricIds : MetricDecided(k)  BY DEF StatusInv, StatusIsDecided
<1>3. CASE UNCHANGED metrics /\ Undecided("metric")
  <2>1. About("metric", m)' = About("metric", m)  BY <1>3, NothingDecided
  <2>2. m \in MetricIds /\ metrics' = metrics  BY <1>3 DEF MetricIds
  <2> QED  BY <1>1, <1>2, <2>1, <2>2, MetricUntouched
<1>4. ASSUME NEW p \in Requests, Propose(p), UNCHANGED decisions PROVE MetricDecided(m)'
  <2>1. About("metric", m)' = About("metric", m) /\ (m \notin MetricIds => About("metric", m) = {})
    BY <1>4, NewRows DEF StatusInv
  <2>2. /\ MetricIds' = MetricIds \cup {Len(metrics) + 1}
        /\ \A k \in MetricIds : metrics'[k] = metrics[k]
        /\ metrics'[Len(metrics) + 1].status = "proposed"
    BY <1>4, ProposeWrites
  <2>3. CASE m \in MetricIds  BY <1>1, <1>2, <2>1, <2>2, <2>3, MetricUntouched
  <2>4. CASE m \notin MetricIds
    <3>1. metrics'[m].status = "proposed" /\ About("metric", m)' = {}  BY <2>1, <2>2, <2>4
    <3> QED  BY <3>1 DEF MetricDecided, Latest
  <2> QED  BY <2>3, <2>4
<1>5. ASSUME NEW p \in Requests, Settles(p) PROVE MetricDecided(m)'
  <2>1. PICK status \in {"active", "rejected", "reverted"}, ref \in Nat : Settled(p, status, ref)
    BY <1>5, SettledWrites
  <2>2. /\ MetricIds' = MetricIds
        /\ metrics'[request[p].item].status = status
        /\ metrics'[request[p].item].decision = Len(decisions) + 1
        /\ \A k \in MetricIds : k # request[p].item => metrics'[k] = metrics[k]
    BY <2>1 DEF Settled, SettleEffect
  <2>3. LogsOne("metric", request[p].item, CASE status = "active"   -> "approval"
                                             [] status = "rejected" -> "rejection"
                                             [] OTHER               -> "undo")
    BY <2>1, SettleLogs
  <2>4. CASE m = request[p].item
    <3>1. /\ About("metric", m)' # {}
          /\ \A n \in DecisionIds' : Latest("metric", m, n)' => n = Len(decisions) + 1
          /\ decisions'[Len(decisions) + 1].kind = CASE status = "active"   -> "approval"
                                                     [] status = "rejected" -> "rejection"
                                                     [] OTHER               -> "undo"
      BY <2>3, <2>4, OneLogged
    <3> QED  BY <2>2, <2>4, <3>1 DEF MetricDecided
  <2>5. CASE m # request[p].item
    <3>1. About("metric", m)' = About("metric", m)  BY <2>3, <2>5, OneLogged
    <3> QED  BY <1>1, <1>2, <2>2, <2>5, <3>1, MetricUntouched
  <2> QED  BY <2>4, <2>5
<1> QED  BY <1>1, <1>3, <1>4, <1>5 DEF MetricStep
\* The decision a step appends is about a row of its table, and rows stay.
LEMMA RefsStep == Typed /\ DecisionRefs /\ [Next]_vars => DecisionRefs'
<1> SUFFICES ASSUME Typed, DecisionRefs, [Next]_vars, NEW n \in DecisionIds'
             PROVE  /\ decisions'[n].on = "draft" => decisions'[n].item \in DraftIds'
                    /\ decisions'[n].on = "metric" => decisions'[n].item \in MetricIds'
    BY DEF DecisionRefs
<1>1. DraftStep /\ MetricStep /\ LogGrows  BY Steps, Growing
<1>2. DraftIds \subseteq DraftIds'
  BY <1>1, ReportAdds, DecideWrites, SendWrites DEF DraftStep, DraftIds
<1>3. MetricIds \subseteq MetricIds'
  <2>1. ASSUME NEW p \in Requests, Settles(p) PROVE MetricIds' = MetricIds
    BY <2>1, SettledWrites DEF Settled, SettleEffect
  <2> QED  BY <1>1, <2>1, ProposeWrites DEF MetricStep, MetricIds
<1>4. CASE n \in DecisionIds  BY <1>1, <1>2, <1>3, <1>4 DEF DecisionRefs, LogGrows
<1>5. CASE n \notin DecisionIds
  <2>1. ASSUME decisions'[n].on = "draft" PROVE decisions'[n].item \in DraftIds'
    <3>1. PICK p \in Requests : Decide(p)
      <4>1. ASSUME NEW p \in Requests, Send(p) PROVE FALSE
        BY <1>5, <4>1 DEF Send, DecisionIds
      <4>2. CASE CommitReport /\ UNCHANGED decisions  BY <1>5, <4>2 DEF DecisionIds
      <4> QED  BY <1>1, <1>5, <2>1, <4>1, <4>2 DEF DraftStep, Undecided
    <3>2. request[p].item \in DraftIds  BY <3>1, DecideWrites
    <3>3. decisions'[n].item = request[p].item
      BY <1>5, <3>1, DecideLogs DEF LogsOne
    <3> QED  BY <1>2, <3>2, <3>3
  <2>2. ASSUME decisions'[n].on = "metric" PROVE decisions'[n].item \in MetricIds'
    <3>1. PICK p \in Requests : Settles(p)
      BY <1>1, <1>5, <2>2 DEF MetricStep, Undecided, DecisionIds
    <3>2. PICK status \in {"active", "rejected", "reverted"}, ref \in Nat : Settled(p, status, ref)
      BY <3>1, SettledWrites
    <3>3. request[p].item \in MetricIds  BY <3>2 DEF Settled, SettleEffect
    <3>4. LogsOne("metric", request[p].item, CASE status = "active"   -> "approval"
                                               [] status = "rejected" -> "rejection"
                                               [] OTHER               -> "undo")
      BY <3>2, SettleLogs
    <3>5. decisions'[n].item = request[p].item  BY <1>5, <3>4 DEF LogsOne
    <3> QED  BY <1>3, <3>3, <3>5
  <2> QED  BY <2>1, <2>2
<1> QED  BY <1>4, <1>5

LEMMA StatusStep == Typed /\ Recorded /\ StatusInv /\ [Next]_vars => StatusInv'
<1> SUFFICES ASSUME Typed, Recorded, StatusInv, [Next]_vars PROVE StatusInv'  OBVIOUS
<1>1. DecisionRefs'  BY RefsStep DEF StatusInv
<1>2. \A d \in DraftIds' : DraftDecided(d)'  BY DraftsDecided
<1>3. \A m \in MetricIds' : MetricDecided(m)'  BY MetricsDecided
<1> QED  BY <1>1, <1>2, <1>3 DEF StatusInv, StatusIsDecided

\* The status of a row is what the log says of it last, whoever overwrote whom.
THEOREM StatusDecided == Spec => []StatusIsDecided
<1>1. StatusInv => StatusIsDecided  BY DEF StatusInv
<1> QED
  BY <1>1, TypeInit, TypeStep, RecordedInit, RecordedStep, StatusInit, StatusStep, PTL DEF Spec
------------------------------------------------------------------------------
(* A customer is written to once about one task.                             *)

\* While the report is being written, nobody else drafts messages.
JobFresh == job.at = "drafting" => \A t \in job.todo : ~HasMessage(t)

DraftingInv == JobFresh /\ OneMessagePerTask

LEMMA DraftingInit == Init => DraftingInv
BY DEF Init, DraftingInv, JobFresh, OneMessagePerTask, DraftIds, Waiting

\* The tasks of the messages stay, and so do the tasks.
TasksKept ==
    /\ DraftIds' = DraftIds
    /\ \A d \in DraftIds : drafts'[d].task = drafts[d].task
    /\ TaskIds \subseteq TaskIds'

LEMMA KeptTasks ==
  ASSUME Typed, OneMessagePerTask, TasksKept
  PROVE  OneMessagePerTask' /\ \A t : HasMessage(t)' <=> HasMessage(t)
BY DEF OneMessagePerTask, TasksKept, HasMessage

\* A report's messages are about tasks that had none.
LEMMA ReportKeepsOne ==
  ASSUME Typed, DraftingInv, CommitReport
  PROVE  OneMessagePerTask'
<1> DEFINE S == job.todo \cup Len(tasks) + 1 .. Len(tasks) + job.fresh
           more == [i \in 1..job.fresh |-> [week |-> week, open |-> TRUE]]
<1>1. PICK order \in InOrder(S) :
        drafts' = drafts \o [i \in DOMAIN order |-> [task |-> order[i], status |-> "pending_approval"]]
  BY DEF CommitReport, Submitted
<1> DEFINE new == [i \in DOMAIN order |-> [task |-> order[i], status |-> "pending_approval"]]
<1>2. /\ Len(tasks) \in Nat /\ TaskIds = 1..Len(tasks) /\ job.fresh \in Nat
      /\ job.todo \subseteq TaskIds
  BY Ids DEF Typed, TypeOK, TaskIds
<1>3. TaskIds' = 1..Len(tasks) + job.fresh
  <2>1. more \in [1..job.fresh -> [week : Nat, open : BOOLEAN]]  BY DEF Typed, TypeOK
  <2>2. DOMAIN more = 1..job.fresh  OBVIOUS
  <2>3. tasks' = tasks \o more  BY DEF CommitReport
  <2> HIDE DEF more
  <2>4. more \in Seq([week : Nat, open : BOOLEAN])  BY <1>2, <2>1, FunctionIsSeq
  <2>5. Len(more) = job.fresh  BY <1>2, <2>2, <2>4, LenProperties
  <2>6. Len(tasks \o more) = Len(tasks) + Len(more) /\ tasks \o more \in Seq([week : Nat, open : BOOLEAN])
    BY <2>4, ConcatProperties DEF Typed, TypeOK
  <2> QED  BY <2>3, <2>5, <2>6, LenProperties DEF TaskIds
<1>4. S \in SUBSET (Nat \ {0}) /\ S \subseteq 1..Len(tasks) + job.fresh  BY <1>2
<1>5. IsFiniteSet(S)
  <2>1. PICK n \in Int : n = Len(tasks) + job.fresh  BY <1>2
  <2>2. IsFiniteSet(1..n)  BY FS_Interval
  <2> HIDE DEF S
  <2> QED  BY <1>4, <2>1, <2>2, FS_Subset
<1>6. new \in Seq(Draft)  BY <1>4, <1>5, OrderOfTasks
<1>7. /\ \A j \in DOMAIN new : order[j] \in S /\ new[j].task = order[j]
      /\ \A j, k \in DOMAIN new : order[j] = order[k] => j = k
  <2>1. Cardinality(S) \in Nat  BY <1>5, FS_CardinalityType
  <2> HIDE DEF S
  <2>2. order \in [1..Cardinality(S) -> S]
        /\ \A j, k \in 1..Cardinality(S) : order[j] = order[k] => j = k
    BY DEF InOrder, Bijection, Injection, IsInjective
  <2> QED  BY <2>2
<1>8. ASSUME NEW d \in DraftIds PROVE drafts[d].task \in TaskIds /\ drafts[d].task \notin S
  <2>1. drafts[d].task \in TaskIds  BY <1>8 DEF DraftingInv, OneMessagePerTask
  <2>2. drafts[d].task \notin job.todo
    BY <1>8 DEF DraftingInv, JobFresh, HasMessage, CommitReport
  <2> QED  BY <1>2, <2>1, <2>2
<1>9. /\ drafts' = drafts \o new /\ drafts \in Seq(Draft)  BY <1>1 DEF Typed, TypeOK
<1> HIDE DEF new, S
<1>10. /\ Len(drafts) \in Nat /\ Len(new) \in Nat
       /\ DraftIds = 1..Len(drafts) /\ DOMAIN new = 1..Len(new)
       /\ DraftIds' = 1..Len(drafts) + Len(new)
       /\ \A d \in DraftIds' :
            drafts'[d] = IF d <= Len(drafts) THEN drafts[d] ELSE new[d - Len(drafts)]
  <2>1. /\ drafts' \in Seq(Draft) /\ Len(drafts') = Len(drafts) + Len(new)
        /\ \A d \in 1..Len(drafts) + Len(new) :
             drafts'[d] = IF d <= Len(drafts) THEN drafts[d] ELSE new[d - Len(drafts)]
    BY <1>6, <1>9, ConcatProperties
  <2> QED  BY <1>6, <1>9, <2>1, LenProperties DEF DraftIds
<1>11. ASSUME NEW d \in DraftIds', d \notin DraftIds
       PROVE  /\ d - Len(drafts) \in DOMAIN new
              /\ drafts'[d].task = order[d - Len(drafts)] /\ drafts'[d].task \in S
  <2>1. d - Len(drafts) \in DOMAIN new /\ drafts'[d] = new[d - Len(drafts)]
    BY <1>10, <1>11
  <2> QED  BY <1>7, <2>1
<1>12. ASSUME NEW d \in DraftIds PROVE d \in DraftIds' /\ drafts'[d] = drafts[d]
  BY <1>10, <1>12
<1>13. ASSUME NEW d \in DraftIds', NEW e \in DraftIds', drafts'[d].task = drafts'[e].task
       PROVE  d = e
  <2>1. CASE d \in DraftIds /\ e \in DraftIds
    BY <1>12, <1>13, <2>1 DEF DraftingInv, OneMessagePerTask
  <2>2. CASE d \in DraftIds /\ e \notin DraftIds  BY <1>8, <1>11, <1>12, <1>13, <2>2
  <2>3. CASE d \notin DraftIds /\ e \in DraftIds  BY <1>8, <1>11, <1>12, <1>13, <2>3
  <2>4. CASE d \notin DraftIds /\ e \notin DraftIds
    <3>1. d - Len(drafts) = e - Len(drafts)  BY <1>7, <1>11, <1>13, <2>4
    <3> QED  BY <1>10, <3>1
  <2> QED  BY <2>1, <2>2, <2>3, <2>4
<1>14. ASSUME NEW d \in DraftIds' PROVE drafts'[d].task \in TaskIds'
  <2>1. CASE d \in DraftIds  BY <1>2, <1>3, <1>8, <1>12, <2>1
  <2>2. CASE d \notin DraftIds  BY <1>3, <1>4, <1>11, <2>2
  <2> QED  BY <2>1, <2>2
<1> QED  BY <1>13, <1>14 DEF OneMessagePerTask

LEMMA DraftingStep == Typed /\ DraftingInv /\ [Next]_vars => DraftingInv'
<1> SUFFICES ASSUME Typed, DraftingInv, [Next]_vars PROVE DraftingInv'  OBVIOUS
<1>1. ASSUME UNCHANGED <<drafts, tasks>> PROVE TasksKept
  BY <1>1 DEF TasksKept, DraftIds, TaskIds
<1>2. ASSUME TasksKept, UNCHANGED job PROVE DraftingInv'
  BY <1>2, KeptTasks DEF DraftingInv, JobFresh
<1>3. CASE CommitReport
  BY <1>3, ReportKeepsOne DEF DraftingInv, JobFresh, CommitReport, Waiting
<1>4. CASE \E fresh \in {0, 1} : BuildReport(fresh)
  <2>1. TasksKept  BY <1>1, <1>4 DEF BuildReport
  <2>2. job'.todo = {t \in TaskIds : Candidate(t)}  BY <1>4 DEF BuildReport
  <2>3. \A t \in job'.todo : ~HasMessage(t)  BY <2>2 DEF Candidate
  <2> QED  BY <2>1, <2>3, KeptTasks DEF DraftingInv, JobFresh
<1>5. CASE AbortReport
  <2>1. TasksKept  BY <1>1, <1>5 DEF AbortReport
  <2> QED  BY <1>5, <2>1, KeptTasks DEF DraftingInv, JobFresh, AbortReport, Waiting
<1>6. CASE NewTask
  <2>1. [week |-> week, open |-> TRUE] \in [week : Nat, open : BOOLEAN]  BY DEF Typed, TypeOK
  <2>2. TaskIds \subseteq TaskIds'
    BY <1>6, <2>1, Inserted DEF NewTask, Typed, TypeOK, TaskIds
  <2>3. TasksKept  BY <1>6, <2>2 DEF NewTask, TasksKept, DraftIds
  <2> QED  BY <1>2, <1>6, <2>3 DEF NewTask
<1>7. CASE \E t \in TaskIds : TakeUp(t)
  <2>1. TaskIds' = TaskIds  BY <1>7 DEF TakeUp, TaskIds, Typed, TypeOK
  <2>2. TasksKept  BY <1>7, <2>1 DEF TakeUp, TasksKept, DraftIds
  <2> QED  BY <1>2, <1>7, <2>2 DEF TakeUp
<1>8. CASE NextWeek  BY <1>1, <1>2, <1>8 DEF NextWeek
<1>9. ASSUME NEW p \in Requests, Decide(p) \/ Send(p) PROVE DraftingInv'
  <2>1. UNCHANGED <<tasks, job>>  BY <1>9 DEF Decide, Send, scans
  <2>2. request[p].item \in DraftIds  BY <1>9, DecideWrites, SendWrites
  <2>3. \E v : drafts' = [drafts EXCEPT ![request[p].item].status = v]
    BY <1>9 DEF Decide, Send
  <2>4. \A d \in DraftIds : drafts[d] \in Draft  BY Rows DEF Typed
  <2>5. DraftIds' = DraftIds /\ \A d \in DraftIds : drafts'[d].task = drafts[d].task
    BY <2>2, <2>3, <2>4 DEF DraftIds, Draft
  <2>6. TasksKept  BY <2>1, <2>5 DEF TasksKept, TaskIds
  <2> QED  BY <1>2, <2>1, <2>6
<1>10. ASSUME UNCHANGED <<drafts, tasks, job>> PROVE DraftingInv'
  BY <1>1, <1>2, <1>10
<1>11. ASSUME NEW p \in Requests, NEW op, NEW i, NEW d, Read(p, op, i, d) PROVE DraftingInv'
  BY <1>10, <1>11 DEF Read, scans
<1>12. ASSUME NEW p \in Requests,
              Propose(p) \/ Activate(p) \/ Discard(p) \/ Deactivate(p) \/ Refuse(p)
       PROVE  DraftingInv'
  BY <1>10, <1>12 DEF Propose, Activate, Discard, Deactivate, Settle, Refuse, scans
<1>13. CASE UNCHANGED vars  BY <1>10, <1>13 DEF vars, scans
<1> QED
  BY <1>3, <1>4, <1>5, <1>6, <1>7, <1>8, <1>9, <1>11, <1>12, <1>13
     DEF Next, ReadDraft, ReadApproved, ReadNames, ReadMetric

\* A customer is written to once about one task, however often reports are built, retried
\* after a failure, or cross a week.
THEOREM OneMessage == Spec => []OneMessagePerTask
<1>1. DraftingInv => OneMessagePerTask  BY DEF DraftingInv
<1> QED  BY <1>1, TypeInit, TypeStep, DraftingInit, DraftingStep, PTL DEF Spec
=============================================================================
