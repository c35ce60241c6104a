---------------------------- MODULE LlmCascade_proofs ----------------------------
(***************************************************************************)
(* Proofs about LlmCascade, for any number of questions, any retry budget  *)
(* and any settings an administrator may make while questions run: what a  *)
(* question costs is bounded, its attempts and its routes are accounted    *)
(* for, and the loop implements ModelCall.  A step concerns one question,  *)
(* so the invariant is a predicate of one question and its log rows, Sound, *)
(* that each kind of step is shown to keep.                                *)
(***************************************************************************)
EXTENDS LlmCascade, TLAPS

LogRow == [call : Nat, verdict : Verdicts]
RouteRow == [step : Nat, tier : Tiers, after : Nat,
             reason : {"role_default", "validator_reject", "low_confidence"}]

\* The properties, of one question q with its rows in the two logs.
Effort(q) ==
    /\ q.calls <= MaxAttempts * (q.escalations + 1)
    /\ q.escalations = 0 \/ q.escalations < q.tier
    /\ q.tier <= Strongest
Accounted(q, rows, routes) ==
    /\ \A call \in 1 .. q.calls :
          \/ \E row \in rows : row.call = call
          \/ \E route \in routes : route.after = call /\ route.reason = "low_confidence"
          \/ q.pc = "raised" /\ call = q.calls
    /\ \A row, other \in rows : row.call = other.call => row = other
    /\ {row \in rows : row.verdict = "accepted"} =
          IF q.pc = "answered" THEN {Row(q.answer, "accepted")} ELSE {}
Staircase(q, routes) ==
    q.pc # "new" =>
        /\ \A route \in routes :
              /\ route.step <= q.escalations
              /\ route.tier + (q.escalations - route.step) = q.tier
        /\ \A step \in 0 .. q.escalations : \E route \in routes : route.step = step
        /\ \A route, other \in routes : route.step = other.step => route = other

\* What they rest on.  A question that is not asked has nothing; the attempts of one that is
\* open are within its budget; what is held is its newest valid output, which has no row yet;
\* rows are about attempts made.
Budget(q, rows, routes) ==
    /\ q.pc = "new" => q = Fresh /\ rows = {} /\ routes = {}
    /\ q.pc = "calling" =>
          /\ q.attempt \in 1 .. MaxAttempts
          /\ q.calls < MaxAttempts * q.escalations + q.attempt
Held(q) ==
    /\ q.valid \subseteq 1 .. q.calls
    /\ q.pc \in {"new", "calling"} => q.answer = 0
    /\ q.pc = "calling" =>
          /\ q.held = 0 <=> q.valid = {}
          /\ q.held > 0 => q.held \in q.valid
          /\ \A call \in q.valid : call <= q.held
OfCalls(q, rows) ==
    /\ \A row \in rows : row.call \in 1 .. q.calls
    /\ q.pc = "calling" => \A row \in rows : row.verdict = "rejected" /\ row.call \notin q.valid

Sound(q, rows, routes) ==
    /\ q \in Loop /\ rows \in SUBSET LogRow /\ routes \in SUBSET RouteRow
    /\ Effort(q) /\ Accounted(q, rows, routes) /\ Staircase(q, routes)
    /\ Budget(q, rows, routes) /\ Held(q) /\ OfCalls(q, rows)

Settings == DOMAIN config = Params /\ \A p \in Params : config[p] \in Values(p)
Tables ==
    /\ req = [r \in Requests |-> req[r]]
    /\ aiLog = [r \in Requests |-> aiLog[r]]
    /\ routeLog = [r \in Requests |-> routeLog[r]]
IInv == Settings /\ Tables /\ \A r \in Requests : Sound(req[r], aiLog[r], routeLog[r])

------------------------------------------------------------------------------
(* The parts, when one more attempt has been made.                           *)

\* One more attempt fits into the budgets of the tiers so far.
LEMMA WithinBudget ==
  ASSUME NEW n \in Nat, NEW attempt \in 1 .. MaxAttempts, NEW calls \in Nat,
         calls < MaxAttempts * n + attempt
  PROVE  /\ calls + 1 <= MaxAttempts * (n + 1)
         /\ calls + 1 < MaxAttempts * (n + 1) + 1
<1>1. MaxAttempts \in Nat  BY CascadeAssumption
<1>2. MaxAttempts * (n + 1) = MaxAttempts * n + MaxAttempts  BY <1>1
<1>3. MaxAttempts * n \in Nat  BY <1>1
<1> QED  BY <1>1, <1>2, <1>3

\* The row of this attempt is a new one, and no verdict but the last says accepted.
LEMMA RowAdded ==
  ASSUME NEW q \in Loop, NEW rows \in SUBSET LogRow, NEW routes, NEW after, NEW routes2,
         Accounted(q, rows, routes), OfCalls(q, rows), q.pc = "calling",
         NEW verdict \in Verdicts,
         after.calls = q.calls + 1, routes \subseteq routes2,
         IF after.pc = "answered" THEN verdict = "accepted" /\ after.answer = q.calls + 1
                                  ELSE verdict # "accepted"
  PROVE  Accounted(after, rows \cup {Row(q.calls + 1, verdict)}, routes2)
<1> DEFINE row == Row(q.calls + 1, verdict)
<1>1. q.calls \in Nat  BY DEF Loop
<1>2. row.call = q.calls + 1 /\ row.verdict = verdict  BY DEF Row
<1>3. \A other \in rows : other.call \in 1 .. q.calls  BY DEF OfCalls
<1>4. \A other \in rows : other.call # row.call  BY <1>1, <1>2, <1>3
<1>5. {other \in rows : other.verdict = "accepted"} = {}  BY DEF Accounted
<1> HIDE DEF row
<1>6. \A call \in 1 .. after.calls :
         \/ \E other \in rows \cup {row} : other.call = call
         \/ \E route \in routes2 : route.after = call /\ route.reason = "low_confidence"
         \/ after.pc = "raised" /\ call = after.calls
  <2> SUFFICES ASSUME NEW call \in 1 .. after.calls
               PROVE  \/ \E other \in rows \cup {row} : other.call = call
                      \/ \E route \in routes2 :
                            route.after = call /\ route.reason = "low_confidence"
    OBVIOUS
  <2>1. CASE call = q.calls + 1  BY <1>2, <2>1
  <2>2. CASE call # q.calls + 1
    <3>1. call \in 1 .. q.calls  BY <1>1, <2>2
    <3> QED  BY <3>1 DEF Accounted
  <2> QED  BY <2>1, <2>2
<1>7. \A one, other \in rows \cup {row} : one.call = other.call => one = other
  BY <1>4 DEF Accounted
<1>8. {other \in rows \cup {row} : other.verdict = "accepted"} =
          IF after.pc = "answered" THEN {Row(after.answer, "accepted")} ELSE {}
  BY <1>2, <1>5 DEF row, Row
<1> QED  BY <1>6, <1>7, <1>8 DEF Accounted, row

LEMMA CallsAdded ==
  ASSUME NEW q \in Loop, NEW rows \in SUBSET LogRow, NEW verdict \in Verdicts
  PROVE  rows \cup {Row(q.calls + 1, verdict)} \in SUBSET LogRow
BY DEF Loop, LogRow, Row

\* A climb adds the next step of the staircase.
LEMMA StepAdded ==
  ASSUME NEW q \in Loop, NEW routes \in SUBSET RouteRow, Staircase(q, routes),
         q.pc = "calling", q.tier \in 1 .. Strongest - 1, NEW after,
         NEW reason \in {"validator_reject", "low_confidence"}, NEW number \in Nat,
         after.escalations = q.escalations + 1, after.tier = q.tier + 1
  PROVE  LET route == [step |-> q.escalations + 1, tier |-> q.tier + 1, reason |-> reason,
                       after |-> number]
         IN  routes \cup {route} \in SUBSET RouteRow /\ Staircase(after, routes \cup {route})
<1> DEFINE route == [step |-> q.escalations + 1, tier |-> q.tier + 1, reason |-> reason,
                     after |-> number]
<1>1. q.escalations \in Nat /\ q.tier \in 1 .. 2  BY DEF Loop, Strongest
<1>2. route \in RouteRow  BY <1>1 DEF RouteRow, Tiers, Strongest
<1>3. route.step = q.escalations + 1 /\ route.tier = q.tier + 1  OBVIOUS
<1>4. \A other \in routes : other.step \in Nat /\ other.tier \in Nat
  BY DEF RouteRow, Tiers, Strongest
<1>5. \A other \in routes : /\ other.step <= q.escalations
                            /\ other.tier + (q.escalations - other.step) = q.tier
  BY DEF Staircase
<1> HIDE DEF route
<1>6. \A other \in routes \cup {route} :
         /\ other.step <= after.escalations
         /\ other.tier + (after.escalations - other.step) = after.tier
  BY <1>1, <1>3, <1>4, <1>5
<1>7. \A step \in 0 .. after.escalations : \E other \in routes \cup {route} : other.step = step
  <2> SUFFICES ASSUME NEW step \in 0 .. after.escalations
               PROVE  \E other \in routes \cup {route} : other.step = step
    OBVIOUS
  <2>1. CASE step = q.escalations + 1  BY <1>3, <2>1
  <2>2. CASE step # q.escalations + 1
    <3>1. step \in 0 .. q.escalations  BY <1>1, <2>2
    <3> QED  BY <3>1 DEF Staircase
  <2> QED  BY <2>1, <2>2
<1>8. \A one, other \in routes \cup {route} : one.step = other.step => one = other
  BY <1>1, <1>3, <1>4, <1>5 DEF Staircase
<1> QED  BY <1>2, <1>6, <1>7, <1>8 DEF Staircase, route

------------------------------------------------------------------------------
(* What each kind of step makes of a sound question.                         *)

\* A field is updated with a value of its type.
LEMMA Updated ==
  ASSUME NEW q \in Loop
  PROVE  /\ \A v \in {"calling", "answered", "refused", "raised"} : [q EXCEPT !.pc = v] \in Loop
         /\ \A v \in Tiers : [q EXCEPT !.tier = v] \in Loop
         /\ \A v \in Nat : /\ [q EXCEPT !.escalations = v] \in Loop
                          /\ [q EXCEPT !.attempt = v] \in Loop
                          /\ [q EXCEPT !.threshold = v] \in Loop
                          /\ [q EXCEPT !.held = v] \in Loop
                          /\ [q EXCEPT !.calls = v] \in Loop
                          /\ [q EXCEPT !.answer = v] \in Loop
         /\ \A v \in SUBSET Nat : [q EXCEPT !.valid = v] \in Loop
BY DEF Loop

LEMMA RetryKeeps ==
  ASSUME NEW q, NEW rows, NEW routes, Sound(q, rows, routes), q.pc = "calling",
         q.attempt < MaxAttempts
  PROVE  Sound([q EXCEPT !.attempt = @ + 1, !.calls = q.calls + 1],
               rows \cup {Row(q.calls + 1, "rejected")}, routes)
<1> DEFINE after == [q EXCEPT !.attempt = @ + 1, !.calls = q.calls + 1]
<1>1. q \in Loop /\ rows \in SUBSET LogRow /\ routes \in SUBSET RouteRow  BY DEF Sound
<1>2. /\ after \in Loop
      /\ after.pc = q.pc /\ after.tier = q.tier /\ after.escalations = q.escalations
      /\ after.attempt = q.attempt + 1 /\ after.held = q.held /\ after.calls = q.calls + 1
      /\ after.valid = q.valid /\ after.answer = q.answer
  <2>1. q.attempt + 1 \in Nat /\ q.calls + 1 \in Nat  BY <1>1 DEF Loop
  <2>2. [q EXCEPT !.attempt = q.attempt + 1] \in Loop  BY <1>1, <2>1, Updated
  <2>3. after = [[q EXCEPT !.attempt = q.attempt + 1] EXCEPT !.calls = q.calls + 1]  BY Zenon
  <2>4. after \in Loop  BY <2>1, <2>2, <2>3, Updated
  <2> QED  BY <1>1, <2>4 DEF Loop
<1>3. q.calls \in Nat /\ q.attempt \in Nat /\ q.escalations \in Nat  BY <1>1 DEF Loop
<1>4. q.attempt \in 1 .. MaxAttempts /\ q.calls < MaxAttempts * q.escalations + q.attempt
  BY DEF Sound, Budget
<1> HIDE DEF after
<1>5. Effort(after)  BY <1>2, <1>3, <1>4, WithinBudget DEF Sound, Effort
<1>6. Accounted(after, rows \cup {Row(q.calls + 1, "rejected")}, routes)
  BY <1>1, <1>2, RowAdded DEF Sound, Verdicts
<1>7. Staircase(after, routes)  BY <1>2 DEF Sound, Staircase
<1>8. Budget(after, rows \cup {Row(q.calls + 1, "rejected")}, routes)
  <2>1. MaxAttempts \in Nat /\ MaxAttempts * q.escalations \in Nat
    BY <1>3, CascadeAssumption
  <2> QED  BY <1>2, <1>3, <1>4, <2>1 DEF Budget
<1>9. Held(after)  BY <1>2, <1>3 DEF Sound, Held
<1>10. OfCalls(after, rows \cup {Row(q.calls + 1, "rejected")})
  BY <1>2, <1>3 DEF Sound, OfCalls, Held, Row
<1>11. rows \cup {Row(q.calls + 1, "rejected")} \in SUBSET LogRow
  BY <1>1, CallsAdded DEF Verdicts
<1> QED
  BY <1>1, <1>2, <1>5, <1>6, <1>7, <1>8, <1>9, <1>10, <1>11 DEF Sound, after

\* A climb is a value of the loop.
LEMMA ClimbedIsLoop ==
  ASSUME NEW q \in Loop, q.tier \in 1 .. Strongest - 1, NEW held \in Nat, NEW valid \in SUBSET Nat
  PROVE  [q EXCEPT !.tier = @ + 1, !.escalations = @ + 1, !.attempt = 1,
                   !.calls = q.calls + 1, !.held = held, !.valid = valid] \in Loop
<1> DEFINE q1 == [q EXCEPT !.tier = q.tier + 1]
           q2 == [q1 EXCEPT !.escalations = q.escalations + 1]
           q3 == [q2 EXCEPT !.attempt = 1]
           q4 == [q3 EXCEPT !.calls = q.calls + 1]
           q5 == [q4 EXCEPT !.held = held]
<1>1. q.tier + 1 \in Tiers /\ q.escalations + 1 \in Nat /\ q.calls + 1 \in Nat /\ 1 \in Nat
  BY DEF Loop, Tiers, Strongest
<1>2. q1 \in Loop  BY <1>1, Updated
<1>3. q2 \in Loop  BY <1>1, <1>2, Updated
<1>4. q3 \in Loop  BY <1>1, <1>3, Updated
<1>5. q4 \in Loop  BY <1>1, <1>4, Updated
<1>6. q5 \in Loop  BY <1>5, Updated
<1>7. [q5 EXCEPT !.valid = valid] \in Loop  BY <1>6, Updated
<1>8. [q EXCEPT !.tier = @ + 1, !.escalations = @ + 1, !.attempt = 1, !.calls = q.calls + 1,
                !.held = held, !.valid = valid] = [q5 EXCEPT !.valid = valid]
  <2>1. q1.escalations = q.escalations  OBVIOUS
  <2> QED  BY <2>1, Zenon
<1> QED  BY <1>7, <1>8

\* The last attempt of a tier is rejected, and the next tier is asked.
LEMMA RejectedClimbs ==
  ASSUME NEW q, NEW rows, NEW routes, Sound(q, rows, routes), q.pc = "calling",
         q.tier \in 1 .. Strongest - 1
  PROVE  Sound([q EXCEPT !.tier = @ + 1, !.escalations = @ + 1, !.attempt = 1,
                         !.calls = q.calls + 1, !.held = q.held, !.valid = q.valid],
               rows \cup {Row(q.calls + 1, "rejected")},
               routes \cup {[step |-> q.escalations + 1, tier |-> q.tier + 1,
                             reason |-> "validator_reject", after |-> q.calls + 1]})
<1> DEFINE after == [q EXCEPT !.tier = @ + 1, !.escalations = @ + 1, !.attempt = 1,
                              !.calls = q.calls + 1, !.held = q.held, !.valid = q.valid]
           routes2 == routes \cup {[step |-> q.escalations + 1, tier |-> q.tier + 1,
                                    reason |-> "validator_reject", after |-> q.calls + 1]}
<1>1. q \in Loop /\ rows \in SUBSET LogRow /\ routes \in SUBSET RouteRow  BY DEF Sound
<1>2. /\ after \in Loop
      /\ after.pc = q.pc /\ after.tier = q.tier + 1 /\ after.escalations = q.escalations + 1
      /\ after.attempt = 1 /\ after.held = q.held /\ after.calls = q.calls + 1
      /\ after.valid = q.valid /\ after.answer = q.answer
  BY <1>1, ClimbedIsLoop DEF Loop
<1>3. q.calls \in Nat /\ q.attempt \in Nat /\ q.escalations \in Nat /\ q.valid \subseteq Nat
  BY <1>1 DEF Loop
<1>4. q.attempt \in 1 .. MaxAttempts /\ q.calls < MaxAttempts * q.escalations + q.attempt
  BY DEF Sound, Budget
<1>5. routes2 \in SUBSET RouteRow /\ Staircase(after, routes2)
  <2>1. q.calls + 1 \in Nat  BY <1>3
  <2>2. Staircase(q, routes)  BY DEF Sound
  <2> HIDE DEF after
  <2> QED  BY <1>1, <1>2, <2>1, <2>2, StepAdded
<1> HIDE DEF after
<1>6. Effort(after)
  <2>1. after.calls <= MaxAttempts * (q.escalations + 1)
    BY <1>2, <1>3, <1>4, WithinBudget
  <2>2. MaxAttempts \in Nat /\ MaxAttempts * (q.escalations + 1) \in Nat
    BY <1>3, CascadeAssumption
  <2>3. MaxAttempts * (after.escalations + 1) = MaxAttempts * (q.escalations + 1) + MaxAttempts
    BY <1>2, <1>3, <2>2
  <2>4. after.escalations < after.tier
    BY <1>2, <1>3 DEF Sound, Effort, Strongest
  <2>5. after.calls <= MaxAttempts * (after.escalations + 1)
    BY <1>2, <1>3, <2>1, <2>2, <2>3
  <2>6. after.tier <= Strongest  BY <1>1, <1>2 DEF Loop, Tiers, Strongest
  <2> QED  BY <2>4, <2>5, <2>6 DEF Effort
<1>7. Accounted(after, rows \cup {Row(q.calls + 1, "rejected")}, routes2)
  <2>1. routes \subseteq routes2  OBVIOUS
  <2> HIDE DEF routes2
  <2> QED  BY <1>1, <1>2, <2>1, RowAdded DEF Sound, Verdicts
<1>8. Budget(after, rows \cup {Row(q.calls + 1, "rejected")}, routes2)
  <2>1. 1 \in 1 .. MaxAttempts  BY CascadeAssumption
  <2>2. after.calls < MaxAttempts * after.escalations + 1
    BY <1>2, <1>3, <1>4, WithinBudget
  <2> QED  BY <1>2, <2>1, <2>2 DEF Budget
<1>9. Held(after)  BY <1>2, <1>3 DEF Sound, Held
<1>10. OfCalls(after, rows \cup {Row(q.calls + 1, "rejected")})
  BY <1>2, <1>3 DEF Sound, OfCalls, Held, Row
<1>11. rows \cup {Row(q.calls + 1, "rejected")} \in SUBSET LogRow
  BY <1>1, CallsAdded DEF Verdicts
<1> QED
  BY <1>2, <1>5, <1>6, <1>7, <1>8, <1>9, <1>10, <1>11 DEF Sound, after

\* An output is held back, and the next tier is asked.
LEMMA HeldClimbs ==
  ASSUME NEW q, NEW rows, NEW routes, Sound(q, rows, routes), q.pc = "calling",
         q.tier \in 1 .. Strongest - 1
  PROVE  Sound([q EXCEPT !.tier = @ + 1, !.escalations = @ + 1, !.attempt = 1,
                         !.calls = q.calls + 1, !.held = q.calls + 1, !.valid = q.valid \cup {q.calls + 1}],
               rows,
               routes \cup {[step |-> q.escalations + 1, tier |-> q.tier + 1,
                             reason |-> "low_confidence", after |-> q.calls + 1]})
<1> DEFINE after == [q EXCEPT !.tier = @ + 1, !.escalations = @ + 1, !.attempt = 1,
                              !.calls = q.calls + 1, !.held = q.calls + 1, !.valid = q.valid \cup {q.calls + 1}]
           routes2 == routes \cup {[step |-> q.escalations + 1, tier |-> q.tier + 1,
                                    reason |-> "low_confidence", after |-> q.calls + 1]}
<1>1. q \in Loop /\ rows \in SUBSET LogRow /\ routes \in SUBSET RouteRow  BY DEF Sound
<1>2. /\ after \in Loop
      /\ after.pc = q.pc /\ after.tier = q.tier + 1 /\ after.escalations = q.escalations + 1
      /\ after.attempt = 1 /\ after.held = q.calls + 1 /\ after.calls = q.calls + 1
      /\ after.valid = q.valid \cup {q.calls + 1} /\ after.answer = q.answer
  <2>1. q.calls + 1 \in Nat /\ q.valid \cup {q.calls + 1} \in SUBSET Nat
    BY <1>1 DEF Loop
  <2>2. after \in Loop  BY <1>1, <2>1, ClimbedIsLoop
  <2> QED  BY <1>1, <2>2 DEF Loop
<1>3. q.calls \in Nat /\ q.attempt \in Nat /\ q.escalations \in Nat /\ q.valid \subseteq Nat
  BY <1>1 DEF Loop
<1>4. q.attempt \in 1 .. MaxAttempts /\ q.calls < MaxAttempts * q.escalations + q.attempt
  BY DEF Sound, Budget
<1>5. routes2 \in SUBSET RouteRow /\ Staircase(after, routes2)
  <2>1. q.calls + 1 \in Nat  BY <1>3
  <2>2. Staircase(q, routes)  BY DEF Sound
  <2> HIDE DEF after
  <2> QED  BY <1>1, <1>2, <2>1, <2>2, StepAdded
<1> HIDE DEF after
<1>6. Effort(after)
  <2>1. after.calls <= MaxAttempts * (q.escalations + 1)
    BY <1>2, <1>3, <1>4, WithinBudget
  <2>2. MaxAttempts \in Nat /\ MaxAttempts * (q.escalations + 1) \in Nat
    BY <1>3, CascadeAssumption
  <2>3. MaxAttempts * (after.escalations + 1) = MaxAttempts * (q.escalations + 1) + MaxAttempts
    BY <1>2, <1>3, <2>2
  <2>4. after.escalations < after.tier
    BY <1>2, <1>3 DEF Sound, Effort, Strongest
  <2>5. after.calls <= MaxAttempts * (after.escalations + 1)
    BY <1>2, <1>3, <2>1, <2>2, <2>3
  <2>6. after.tier <= Strongest  BY <1>1, <1>2 DEF Loop, Tiers, Strongest
  <2> QED  BY <2>4, <2>5, <2>6 DEF Effort
<1>7. Accounted(after, rows, routes2)
  <2>1. /\ routes \subseteq routes2
        /\ \E route \in routes2 : route.after = q.calls + 1 /\ route.reason = "low_confidence"
    <3> DEFINE route == [step |-> q.escalations + 1, tier |-> q.tier + 1,
                         reason |-> "low_confidence", after |-> q.calls + 1]
    <3>1. route \in routes2  OBVIOUS
    <3>2. route.after = q.calls + 1 /\ route.reason = "low_confidence"  OBVIOUS
    <3> QED  BY <3>1, <3>2
  <2> HIDE DEF routes2
  <2>2. \A call \in 1 .. after.calls : call \in 1 .. q.calls \/ call = q.calls + 1
    BY <1>2, <1>3
  <2>3. after.pc # "answered" /\ q.pc # "answered"  BY <1>2
  <2> QED  BY <2>1, <2>2, <2>3 DEF Sound, Accounted
<1>8. Budget(after, rows, routes2)
  <2>1. 1 \in 1 .. MaxAttempts  BY CascadeAssumption
  <2>2. after.calls < MaxAttempts * after.escalations + 1
    BY <1>2, <1>3, <1>4, WithinBudget
  <2> QED  BY <1>2, <2>1, <2>2 DEF Budget
<1>9. Held(after)
  <2>1. q.valid \subseteq 1 .. q.calls  BY DEF Sound, Held
  <2>2. \A call \in after.valid : call \in 1 .. q.calls + 1 /\ call <= after.held
    BY <1>2, <1>3, <2>1
  <2> QED  BY <1>2, <1>3, <2>2 DEF Sound, Held
<1>10. OfCalls(after, rows)
  BY <1>2, <1>3 DEF Sound, OfCalls
<1> QED
  BY <1>1, <1>2, <1>5, <1>6, <1>7, <1>8, <1>9, <1>10 DEF Sound, after

\* A question ends: what it has as its answer is logged as accepted.
LEMMA EndedIsLoop ==
  ASSUME NEW q \in Loop, NEW pc \in {"answered", "refused", "raised"}, NEW answer \in Nat
  PROVE  /\ [q EXCEPT !.pc = pc, !.calls = q.calls + 1, !.answer = answer] \in Loop
         /\ \A valid \in SUBSET Nat :
              [q EXCEPT !.pc = pc, !.calls = q.calls + 1, !.valid = valid, !.answer = answer]
                \in Loop
<1> DEFINE q1 == [q EXCEPT !.pc = pc]
           q2 == [q1 EXCEPT !.calls = q.calls + 1]
           q3(valid) == [q2 EXCEPT !.valid = valid]
<1>1. q.calls + 1 \in Nat  BY DEF Loop
<1>2. q1 \in Loop  BY Updated
<1>3. q2 \in Loop  BY <1>1, <1>2, Updated
<1>4. [q2 EXCEPT !.answer = answer] \in Loop  BY <1>3, Updated
<1>5. ASSUME NEW valid \in SUBSET Nat PROVE [q3(valid) EXCEPT !.answer = answer] \in Loop
  <2>1. q3(valid) \in Loop  BY <1>3, Updated
  <2> QED  BY <2>1, Updated
<1>6. [q EXCEPT !.pc = pc, !.calls = q.calls + 1, !.answer = answer]
        = [q2 EXCEPT !.answer = answer]
  BY Zenon
<1>7. \A valid : [q EXCEPT !.pc = pc, !.calls = q.calls + 1, !.valid = valid, !.answer = answer]
                   = [q3(valid) EXCEPT !.answer = answer]
  BY Zenon
<1> QED  BY <1>4, <1>5, <1>6, <1>7

LEMMA RefusedKeeps ==
  ASSUME NEW q, NEW rows, NEW routes, Sound(q, rows, routes), q.pc = "calling",
         NEW pc \in {"refused", "raised"},
         NEW verdict \in {"rejected", "unavailable"}
  PROVE  Sound([q EXCEPT !.pc = pc, !.calls = q.calls + 1, !.answer = 0],
               rows \cup {Row(q.calls + 1, verdict)}, routes)
<1> DEFINE after == [q EXCEPT !.pc = pc, !.calls = q.calls + 1, !.answer = 0]
           rows2 == rows \cup {Row(q.calls + 1, verdict)}
<1>1. q \in Loop /\ rows \in SUBSET LogRow /\ routes \in SUBSET RouteRow  BY DEF Sound
<1>2. /\ after \in Loop
      /\ after.pc = pc /\ after.tier = q.tier /\ after.escalations = q.escalations
      /\ after.calls = q.calls + 1 /\ after.valid = q.valid
  <2>1. after \in Loop  BY <1>1, EndedIsLoop
  <2> QED  BY <1>1, <2>1 DEF Loop
<1>3. q.calls \in Nat /\ q.attempt \in Nat /\ q.escalations \in Nat  BY <1>1 DEF Loop
<1>4. q.attempt \in 1 .. MaxAttempts /\ q.calls < MaxAttempts * q.escalations + q.attempt
  BY DEF Sound, Budget
<1> HIDE DEF after
<1>5. Effort(after)  BY <1>2, <1>3, <1>4, WithinBudget DEF Sound, Effort
<1>6. Accounted(after, rows2, routes)
  <2>1. verdict \in Verdicts /\ verdict # "accepted"  BY DEF Verdicts
  <2> QED  BY <1>1, <1>2, <2>1, RowAdded DEF Sound
<1>7. Staircase(after, routes)  BY <1>2 DEF Sound, Staircase
<1>8. Budget(after, rows2, routes) /\ Held(after) /\ OfCalls(after, rows2)
  BY <1>2, <1>3 DEF Sound, Budget, Held, OfCalls, Row
<1>9. rows2 \in SUBSET LogRow  BY <1>1, CallsAdded DEF Verdicts
<1> QED  BY <1>1, <1>2, <1>5, <1>6, <1>7, <1>8, <1>9 DEF Sound, after

\* The attempt itself is the answer.
LEMMA AcceptedKeeps ==
  ASSUME NEW q, NEW rows, NEW routes, Sound(q, rows, routes), q.pc = "calling"
  PROVE  Sound([q EXCEPT !.pc = "answered", !.calls = q.calls + 1,
                         !.valid = q.valid \cup {q.calls + 1}, !.answer = q.calls + 1],
               rows \cup {Row(q.calls + 1, "accepted")}, routes)
<1> DEFINE after == [q EXCEPT !.pc = "answered", !.calls = q.calls + 1,
                              !.valid = q.valid \cup {q.calls + 1}, !.answer = q.calls + 1]
           rows2 == rows \cup {Row(q.calls + 1, "accepted")}
<1>1. q \in Loop /\ rows \in SUBSET LogRow /\ routes \in SUBSET RouteRow  BY DEF Sound
<1>2. /\ after \in Loop
      /\ after.pc = "answered" /\ after.tier = q.tier /\ after.escalations = q.escalations
      /\ after.calls = q.calls + 1 /\ after.valid = q.valid \cup {q.calls + 1}
      /\ after.answer = q.calls + 1
  <2>1. q.calls + 1 \in Nat /\ q.valid \cup {q.calls + 1} \in SUBSET Nat  BY <1>1 DEF Loop
  <2>2. after \in Loop  BY <1>1, <2>1, EndedIsLoop
  <2> QED  BY <1>1, <2>2 DEF Loop
<1>3. q.calls \in Nat /\ q.attempt \in Nat /\ q.escalations \in Nat  BY <1>1 DEF Loop
<1>4. q.attempt \in 1 .. MaxAttempts /\ q.calls < MaxAttempts * q.escalations + q.attempt
  BY DEF Sound, Budget
<1> HIDE DEF after
<1>5. Effort(after)  BY <1>2, <1>3, <1>4, WithinBudget DEF Sound, Effort
<1>6. Accounted(after, rows2, routes)
  BY <1>1, <1>2, RowAdded DEF Sound, Verdicts
<1>7. Staircase(after, routes)  BY <1>2 DEF Sound, Staircase
<1>8. Budget(after, rows2, routes) /\ Held(after) /\ OfCalls(after, rows2)
  BY <1>2, <1>3 DEF Sound, Budget, Held, OfCalls, Row
<1>9. rows2 \in SUBSET LogRow  BY <1>1, CallsAdded DEF Verdicts
<1> QED  BY <1>1, <1>2, <1>5, <1>6, <1>7, <1>8, <1>9 DEF Sound, after

\* The settings cannot be read when a valid output is to be held: it is the one without a row.
LEMMA LostKeeps ==
  ASSUME NEW q, NEW rows, NEW routes, Sound(q, rows, routes), q.pc = "calling"
  PROVE  Sound([q EXCEPT !.pc = "raised", !.calls = q.calls + 1,
                         !.valid = q.valid \cup {q.calls + 1}], rows, routes)
<1> DEFINE after == [q EXCEPT !.pc = "raised", !.calls = q.calls + 1,
                              !.valid = q.valid \cup {q.calls + 1}]
           q1 == [q EXCEPT !.pc = "raised"]
           q2 == [q1 EXCEPT !.calls = q.calls + 1]
<1>1. q \in Loop /\ rows \in SUBSET LogRow /\ routes \in SUBSET RouteRow  BY DEF Sound
<1>2. /\ after \in Loop
      /\ after.pc = "raised" /\ after.tier = q.tier /\ after.escalations = q.escalations
      /\ after.calls = q.calls + 1 /\ after.valid = q.valid \cup {q.calls + 1}
      /\ after.answer = q.answer
  <2>1. q.calls + 1 \in Nat /\ q.valid \cup {q.calls + 1} \in SUBSET Nat  BY <1>1 DEF Loop
  <2>2. q1 \in Loop  BY <1>1, Updated
  <2>3. q2 \in Loop  BY <2>1, <2>2, Updated
  <2>4. [q2 EXCEPT !.valid = q.valid \cup {q.calls + 1}] \in Loop  BY <2>1, <2>3, Updated
  <2>5. after = [q2 EXCEPT !.valid = q.valid \cup {q.calls + 1}]
    <3>1. q1.calls = q.calls /\ q1.valid = q.valid  OBVIOUS
    <3> QED  BY <3>1, Zenon
  <2>6. after \in Loop  BY <2>4, <2>5
  <2> QED  BY <1>1, <2>6 DEF Loop
<1>3. q.calls \in Nat /\ q.attempt \in Nat /\ q.escalations \in Nat  BY <1>1 DEF Loop
<1>4. q.attempt \in 1 .. MaxAttempts /\ q.calls < MaxAttempts * q.escalations + q.attempt
  BY DEF Sound, Budget
<1> HIDE DEF after
<1>5. Effort(after)  BY <1>2, <1>3, <1>4, WithinBudget DEF Sound, Effort
<1>6. Accounted(after, rows, routes)
  <2>1. \A call \in 1 .. after.calls : call \in 1 .. q.calls \/ call = after.calls
    BY <1>2, <1>3
  <2> QED  BY <1>2, <2>1 DEF Sound, Accounted
<1>7. Staircase(after, routes)  BY <1>2 DEF Sound, Staircase
<1>8. Budget(after, rows, routes) /\ Held(after) /\ OfCalls(after, rows)
  BY <1>2, <1>3 DEF Sound, Budget, Held, OfCalls
<1> QED  BY <1>1, <1>2, <1>5, <1>6, <1>7, <1>8 DEF Sound, after

\* What was held back is the answer, and gets the row it did not have.
LEMMA FallenBackKeeps ==
  ASSUME NEW q, NEW rows, NEW routes, Sound(q, rows, routes), q.pc = "calling", q.held > 0
  PROVE  Sound([q EXCEPT !.pc = "answered", !.calls = q.calls + 1, !.answer = q.held],
               rows \cup {Row(q.calls + 1, "rejected"), Row(q.held, "accepted")}, routes)
<1> DEFINE after == [q EXCEPT !.pc = "answered", !.calls = q.calls + 1, !.answer = q.held]
           rows2 == rows \cup {Row(q.calls + 1, "rejected"), Row(q.held, "accepted")}
<1>1. q \in Loop /\ rows \in SUBSET LogRow /\ routes \in SUBSET RouteRow  BY DEF Sound
<1>2. /\ after \in Loop
      /\ after.pc = "answered" /\ after.tier = q.tier /\ after.escalations = q.escalations
      /\ after.calls = q.calls + 1 /\ after.valid = q.valid /\ after.answer = q.held
  <2>1. q.held \in Nat  BY <1>1 DEF Loop
  <2>2. after \in Loop  BY <1>1, <2>1, EndedIsLoop
  <2> QED  BY <1>1, <2>2 DEF Loop
<1>3. q.calls \in Nat /\ q.attempt \in Nat /\ q.escalations \in Nat /\ q.held \in Nat
  BY <1>1 DEF Loop
<1>4. q.attempt \in 1 .. MaxAttempts /\ q.calls < MaxAttempts * q.escalations + q.attempt
  BY DEF Sound, Budget
<1> HIDE DEF after
<1>5. Effort(after)  BY <1>2, <1>3, <1>4, WithinBudget DEF Sound, Effort
<1>6. q.held \in 1 .. q.calls /\ \A row \in rows : row.call # q.held /\ row.verdict = "rejected"
  BY DEF Sound, Held, OfCalls
<1>7. Accounted(after, rows2, routes)
  <2> DEFINE middle == [q EXCEPT !.calls = q.calls + 1]
             rejected == rows \cup {Row(q.calls + 1, "rejected")}
             row == Row(q.held, "accepted")
  <2>1. middle.calls = q.calls + 1 /\ middle.pc = "calling"  BY <1>1 DEF Loop
  <2>2. Accounted(middle, rejected, routes)
    <3> HIDE DEF middle
    <3> QED  BY <1>1, <2>1, RowAdded DEF Sound, Verdicts
  <2>3. row.call = q.held /\ row.verdict = "accepted"  BY DEF Row
  <2>4. \A other \in rejected : other.call # q.held /\ other.verdict = "rejected"
    BY <1>3, <1>6 DEF Row
  <2>5. rows2 = rejected \cup {row}  OBVIOUS
  <2> HIDE DEF middle, rejected, row, rows2
  <2>6. \A call \in 1 .. after.calls :
          \/ \E other \in rows2 : other.call = call
          \/ \E route \in routes : route.after = call /\ route.reason = "low_confidence"
          \/ after.pc = "raised" /\ call = after.calls
    BY <1>2, <2>1, <2>2, <2>5 DEF Accounted
  <2>7. \A one, other \in rows2 : one.call = other.call => one = other
    BY <2>2, <2>3, <2>4, <2>5 DEF Accounted
  <2>8. {other \in rows2 : other.verdict = "accepted"} = {Row(after.answer, "accepted")}
    BY <1>2, <2>3, <2>4, <2>5 DEF row
  <2> QED  BY <1>2, <2>6, <2>7, <2>8 DEF Accounted
<1>8. Staircase(after, routes)  BY <1>2 DEF Sound, Staircase
<1>9. Budget(after, rows2, routes) /\ Held(after) /\ OfCalls(after, rows2)
  BY <1>2, <1>3, <1>6 DEF Sound, Budget, Held, OfCalls, Row
<1>10. rows2 \in SUBSET LogRow  BY <1>1, <1>3 DEF LogRow, Row, Verdicts
<1> QED  BY <1>1, <1>2, <1>5, <1>7, <1>8, <1>9, <1>10 DEF Sound, after

\* A question is asked: the route it starts on is the first step of its staircase.
LEMMA StartedKeeps ==
  ASSUME NEW tier \in Tiers, NEW threshold \in Nat
  PROVE  Sound([Fresh EXCEPT !.pc = "calling", !.tier = tier, !.attempt = 1,
                             !.threshold = threshold],
               {}, {} \cup {[step |-> 0, tier |-> tier, reason |-> "role_default", after |-> 0]})
<1> DEFINE after == [Fresh EXCEPT !.pc = "calling", !.tier = tier, !.attempt = 1,
                                  !.threshold = threshold]
           route == [step |-> 0, tier |-> tier, reason |-> "role_default", after |-> 0]
           q1 == [Fresh EXCEPT !.pc = "calling"]
           q2 == [q1 EXCEPT !.tier = tier]
           q3 == [q2 EXCEPT !.attempt = 1]
<1>1. Fresh \in Loop  BY DEF Fresh, Loop, Tiers, Strongest
<1>2. after \in Loop
  <2>1. q1 \in Loop  BY <1>1, Updated
  <2>2. q2 \in Loop  BY <2>1, Updated
  <2>3. q3 \in Loop  BY <2>2, Updated
  <2>4. [q3 EXCEPT !.threshold = threshold] \in Loop  BY <2>3, Updated
  <2>5. after = [q3 EXCEPT !.threshold = threshold]  BY Zenon
  <2> QED  BY <2>4, <2>5
<1>3. /\ after.pc = "calling" /\ after.tier = tier /\ after.escalations = 0
      /\ after.attempt = 1 /\ after.held = 0 /\ after.calls = 0 /\ after.valid = {}
      /\ after.answer = 0
  BY <1>1, <1>2 DEF Fresh, Loop
<1>4. route \in RouteRow /\ route.step = 0 /\ route.tier = tier
  BY DEF RouteRow
<1> HIDE DEF after, route
<1>5. Effort(after)
  <2>1. MaxAttempts * 1 \in Nat  BY CascadeAssumption
  <2>2. after.tier <= Strongest  BY <1>3 DEF Tiers, Strongest
  <2> QED  BY <1>3, <2>1, <2>2 DEF Effort
<1>6. Accounted(after, {}, {route}) /\ Held(after) /\ OfCalls(after, {})
  BY <1>3 DEF Accounted, Held, OfCalls
<1>7. Staircase(after, {route})
  BY <1>3, <1>4 DEF Staircase, Tiers, Strongest
<1>8. Budget(after, {}, {route})
  <2>1. MaxAttempts * 0 = 0 /\ 1 \in 1 .. MaxAttempts  BY CascadeAssumption
  <2> QED  BY <1>3, <2>1 DEF Budget
<1>9. Sound(after, {}, {} \cup {route})
  BY <1>2, <1>4, <1>5, <1>6, <1>7, <1>8 DEF Sound
<1> QED  BY <1>9 DEF after, route

------------------------------------------------------------------------------
(* The invariant.                                                            *)

LEMMA InitEstablishes == Init => IInv
<1> SUFFICES ASSUME Init PROVE IInv
  OBVIOUS
<1>1. Settings
  <2>1. DOMAIN config = Params  BY DEF Init, Seeded
  <2>2. config["role_tiers"] = DefaultTiers /\ config["escalation_confidence_threshold"] = 60
        /\ config["cascade_enabled"] = TRUE /\ config["cascade_max_escalations"] = 1
    BY DEF Init, Seeded, Params
  <2>3. DefaultTiers \in [Roles -> Tiers \cup {IllTyped}]
    BY CascadeAssumption DEF Tiers, Strongest
  <2>4. DefaultTiers \in Values("role_tiers")  BY <2>3 DEF Values
  <2>5. /\ 60 \in Values("escalation_confidence_threshold")
        /\ TRUE \in Values("cascade_enabled") /\ 1 \in Values("cascade_max_escalations")
    BY CascadeAssumption DEF Values
  <2>6. \A p \in Params : config[p] \in Values(p)
    BY <2>2, <2>4, <2>5 DEF Params
  <2> QED  BY <2>1, <2>6 DEF Settings
<1>2. Tables  BY DEF Init, Tables
<1>3. Sound(Fresh, {}, {})
  <2>1. Fresh \in Loop  BY DEF Fresh, Loop, Tiers, Strongest
  <2>2. Fresh.pc = "new" /\ Fresh.calls = 0 /\ Fresh.escalations = 0 /\ Fresh.valid = {}
        /\ Fresh.answer = 0
    BY DEF Fresh
  <2>3. MaxAttempts * 1 \in Nat  BY CascadeAssumption
  <2>4. Effort(Fresh)  BY <2>2, <2>3 DEF Effort, Fresh, Strongest
  <2>5. Accounted(Fresh, {}, {})  BY <2>2 DEF Accounted
  <2>6. Staircase(Fresh, {}) /\ Budget(Fresh, {}, {}) /\ Held(Fresh) /\ OfCalls(Fresh, {})
    BY <2>2 DEF Staircase, Budget, Held, OfCalls
  <2> QED  BY <2>1, <2>4, <2>5, <2>6 DEF Sound
<1>4. \A r \in Requests : Sound(req[r], aiLog[r], routeLog[r])
  BY <1>3 DEF Init
<1> QED  BY <1>1, <1>2, <1>4 DEF IInv

\* A step of one question that leaves it sound keeps the invariant.
LEMMA OneQuestion ==
  ASSUME IInv, NEW r \in Requests, NEW q, NEW rows, NEW routes, UNCHANGED config,
         req' = [req EXCEPT ![r] = q],
         aiLog' = [aiLog EXCEPT ![r] = rows], routeLog' = [routeLog EXCEPT ![r] = routes],
         Sound(q, rows, routes)
  PROVE  IInv'
<1>1. Settings'  BY DEF IInv, Settings
<1>2. Tables'  BY DEF IInv, Tables
<1>3. /\ req'[r] = q /\ aiLog'[r] = rows /\ routeLog'[r] = routes
      /\ \A o \in Requests \ {r} : /\ req'[o] = req[o] /\ aiLog'[o] = aiLog[o]
                                   /\ routeLog'[o] = routeLog[o]
  BY DEF IInv, Tables
<1>4. \A o \in Requests : Sound(req'[o], aiLog'[o], routeLog'[o])
  BY <1>3 DEF IInv
<1> QED  BY <1>1, <1>2, <1>4 DEF IInv

\* A table that is not written is written with what it has.
LEMMA Rewritten ==
  ASSUME IInv, NEW r \in Requests
  PROVE  aiLog = [aiLog EXCEPT ![r] = aiLog[r]] /\ routeLog = [routeLog EXCEPT ![r] = routeLog[r]]
BY DEF IInv, Tables

LEMMA StartKeeps ==
  ASSUME IInv, NEW r \in Requests, NEW role \in Roles, Start(r, role)
  PROVE  IInv'
<1>1. req[r].pc = "new" /\ UNCHANGED <<config, aiLog>>  BY DEF Start
<1>2. req[r] = Fresh /\ aiLog[r] = {} /\ routeLog[r] = {}
  BY <1>1 DEF IInv, Sound, Budget
<1>3. TierOf(role) \in Tiers
  <2>1. config["role_tiers"] \in Values("role_tiers")  BY DEF IInv, Settings, Params
  <2>2. PICK S \in SUBSET Roles : config["role_tiers"] \in [S -> Tiers \cup {IllTyped}]
    BY <2>1 DEF Values
  <2> QED  BY <2>2 DEF Start, TierOf, Tiers, Strongest
<1>4. config["escalation_confidence_threshold"] \in Nat
  BY CascadeAssumption DEF Start, Readable, IInv, Settings, Params, Values
<1> DEFINE after == [Fresh EXCEPT !.pc = "calling", !.tier = TierOf(role), !.attempt = 1,
                                  !.threshold = config["escalation_confidence_threshold"]]
           routes == {} \cup {[step |-> 0, tier |-> TierOf(role), reason |-> "role_default",
                               after |-> 0]}
<1>5. Sound(after, {}, routes)  BY <1>3, <1>4, StartedKeeps
<1>6. req' = [req EXCEPT ![r] = after] /\ routeLog' = [routeLog EXCEPT ![r] = routes]
  BY <1>2 DEF Start, IInv, Tables
<1>7. aiLog' = [aiLog EXCEPT ![r] = {}]  BY <1>1, <1>2, Rewritten
<1> HIDE DEF after, routes
<1> QED  BY <1>1, <1>5, <1>6, <1>7, OneQuestion

\* Each answer of the gateway.
LEMMA AnsweredKeeps ==
  ASSUME IInv, NEW r \in Requests, Answered(r)
  PROVE  IInv'
<1> DEFINE q == req[r]
           n == q.calls + 1
<1>1. Sound(q, aiLog[r], routeLog[r]) /\ q \in Loop  BY DEF IInv, Sound
<1>2. q.pc = "calling" /\ UNCHANGED config
  BY DEF Answered, Unavailable, Reject, Retry, RejectedEscalates, FallBack, Fail, LastRejected,
         RejectedRaises, Validated, Hold, HoldRaises, Accept
<1>3. MayEscalate(r) => q.tier \in 1 .. Strongest - 1  BY DEF MayEscalate
<1>4. This(r) = n  BY DEF This
<1>5. CASE Unavailable(r)
  <2>1. /\ req' = [req EXCEPT ![r] = [q EXCEPT !.pc = "refused", !.calls = n, !.answer = 0]]
        /\ aiLog' = [aiLog EXCEPT ![r] = aiLog[r] \cup {Row(n, "unavailable")}]
        /\ UNCHANGED routeLog
    BY <1>4, <1>5 DEF Unavailable, Ended, Logged, IInv, Tables
  <2>2. Sound([q EXCEPT !.pc = "refused", !.calls = n, !.answer = 0],
              aiLog[r] \cup {Row(n, "unavailable")}, routeLog[r])
    BY <1>1, <1>2, RefusedKeeps
  <2> QED  BY <1>2, <2>1, <2>2, Rewritten, OneQuestion
<1>6. CASE Retry(r)
  <2>1. /\ req' = [req EXCEPT ![r] = [q EXCEPT !.attempt = @ + 1, !.calls = n]]
        /\ aiLog' = [aiLog EXCEPT ![r] = aiLog[r] \cup {Row(n, "rejected")}]
        /\ UNCHANGED routeLog
    BY <1>4, <1>6 DEF Retry, Retried, Logged, IInv, Tables
  <2>2. Sound([q EXCEPT !.attempt = @ + 1, !.calls = n], aiLog[r] \cup {Row(n, "rejected")},
              routeLog[r])
    BY <1>1, <1>2, <1>6, RetryKeeps DEF Retry
  <2> QED  BY <1>2, <2>1, <2>2, Rewritten, OneQuestion
<1>7. CASE RejectedEscalates(r)
  <2> DEFINE after == [q EXCEPT !.tier = @ + 1, !.escalations = @ + 1, !.attempt = 1,
                                !.calls = n, !.held = q.held, !.valid = q.valid]
             routes == routeLog[r] \cup {[step |-> q.escalations + 1, tier |-> q.tier + 1,
                                         reason |-> "validator_reject", after |-> n]}
  <2>1. /\ req' = [req EXCEPT ![r] = after]
        /\ aiLog' = [aiLog EXCEPT ![r] = aiLog[r] \cup {Row(n, "rejected")}]
        /\ routeLog' = [routeLog EXCEPT ![r] = routes]
    BY <1>4, <1>7 DEF RejectedEscalates, Climbed, Route, Logged, IInv, Tables
  <2>2. Sound(after, aiLog[r] \cup {Row(n, "rejected")}, routes)
    BY <1>1, <1>2, <1>3, <1>7, RejectedClimbs DEF RejectedEscalates
  <2> HIDE DEF after, routes
  <2> QED  BY <1>2, <2>1, <2>2, OneQuestion
<1>8. CASE FallBack(r)
  <2>1. /\ req' = [req EXCEPT ![r] = [q EXCEPT !.pc = "answered", !.calls = n,
                                              !.answer = q.held]]
        /\ aiLog' = [aiLog EXCEPT ![r] =
                        aiLog[r] \cup {Row(n, "rejected"), Row(q.held, "accepted")}]
        /\ UNCHANGED routeLog
    BY <1>4, <1>8 DEF FallBack, Ended, Logged, IInv, Tables
  <2>2. Sound([q EXCEPT !.pc = "answered", !.calls = n, !.answer = q.held],
              aiLog[r] \cup {Row(n, "rejected"), Row(q.held, "accepted")}, routeLog[r])
    BY <1>1, <1>2, <1>8, FallenBackKeeps DEF FallBack
  <2> QED  BY <1>2, <2>1, <2>2, Rewritten, OneQuestion
<1>9. CASE Fail(r)
  <2>1. /\ req' = [req EXCEPT ![r] = [q EXCEPT !.pc = "refused", !.calls = n, !.answer = 0]]
        /\ aiLog' = [aiLog EXCEPT ![r] = aiLog[r] \cup {Row(n, "rejected")}]
        /\ UNCHANGED routeLog
    BY <1>4, <1>9 DEF Fail, Ended, Logged, IInv, Tables
  <2>2. Sound([q EXCEPT !.pc = "refused", !.calls = n, !.answer = 0],
              aiLog[r] \cup {Row(n, "rejected")}, routeLog[r])
    BY <1>1, <1>2, RefusedKeeps
  <2> QED  BY <1>2, <2>1, <2>2, Rewritten, OneQuestion
<1>12. CASE RejectedRaises(r)
  <2>1. /\ req' = [req EXCEPT ![r] = [q EXCEPT !.pc = "raised", !.calls = n, !.answer = 0]]
        /\ aiLog' = [aiLog EXCEPT ![r] = aiLog[r] \cup {Row(n, "rejected")}]
        /\ UNCHANGED routeLog
    BY <1>4, <1>12 DEF RejectedRaises, Ended, Logged, IInv, Tables
  <2>2. Sound([q EXCEPT !.pc = "raised", !.calls = n, !.answer = 0],
              aiLog[r] \cup {Row(n, "rejected")}, routeLog[r])
    BY <1>1, <1>2, RefusedKeeps
  <2> QED  BY <1>2, <2>1, <2>2, Rewritten, OneQuestion
<1>13. ASSUME NEW c, HoldRaises(r, c) PROVE IInv'
  <2> DEFINE after == [q EXCEPT !.pc = "raised", !.calls = n, !.valid = q.valid \cup {n}]
  <2>1. req' = [req EXCEPT ![r] = after] /\ UNCHANGED <<aiLog, routeLog>>
    BY <1>4, <1>13 DEF HoldRaises, Lost, IInv, Tables
  <2>2. Sound(after, aiLog[r], routeLog[r])  BY <1>1, <1>2, LostKeeps
  <2> HIDE DEF after
  <2> QED  BY <1>2, <2>1, <2>2, Rewritten, OneQuestion
<1>10. ASSUME NEW c, Hold(r, c) PROVE IInv'
  <2> DEFINE after == [q EXCEPT !.tier = @ + 1, !.escalations = @ + 1, !.attempt = 1,
                                !.calls = n, !.held = n, !.valid = q.valid \cup {n}]
             routes == routeLog[r] \cup {[step |-> q.escalations + 1, tier |-> q.tier + 1,
                                         reason |-> "low_confidence", after |-> n]}
  <2>1. /\ req' = [req EXCEPT ![r] = after]
        /\ UNCHANGED aiLog
        /\ routeLog' = [routeLog EXCEPT ![r] = routes]
    BY <1>4, <1>10 DEF Hold, Climbed, Route, IInv, Tables
  <2>2. Sound(after, aiLog[r], routes)
    BY <1>1, <1>2, <1>3, <1>10, HeldClimbs DEF Hold
  <2> HIDE DEF after, routes
  <2> QED  BY <1>2, <2>1, <2>2, Rewritten, OneQuestion
<1>11. ASSUME NEW c, Accept(r, c) PROVE IInv'
  <2> DEFINE after == [q EXCEPT !.pc = "answered", !.calls = n,
                                !.valid = q.valid \cup {n}, !.answer = n]
  <2>1. /\ req' = [req EXCEPT ![r] = after]
        /\ aiLog' = [aiLog EXCEPT ![r] = aiLog[r] \cup {Row(n, "accepted")}]
        /\ UNCHANGED routeLog
    BY <1>4, <1>11 DEF Accept, Accepted, Logged, IInv, Tables
  <2>2. Sound(after, aiLog[r] \cup {Row(n, "accepted")}, routeLog[r])
    BY <1>1, <1>2, AcceptedKeeps
  <2> HIDE DEF after
  <2> QED  BY <1>2, <2>1, <2>2, Rewritten, OneQuestion
<1> QED
  BY <1>5, <1>6, <1>7, <1>8, <1>9, <1>10, <1>11, <1>12, <1>13 DEF Answered, Reject, Validated

\* An administrator changes settings between two answers of the gateway.
LEMMA PatchKeeps ==
  ASSUME IInv, NEW body \in Patches, Patch(body)
  PROVE  IInv'
<1>1. UNCHANGED <<req, aiLog, routeLog>>  BY DEF Patch
<1>2. config' = [p \in Params |-> IF p \in DOMAIN body THEN body[p] ELSE config[p]]
  BY DEF Patch
<1>3. \A p \in DOMAIN body : body[p] \in Values(p)  BY CascadeAssumption
<1>4. Settings'  BY <1>2, <1>3 DEF IInv, Settings
<1>5. Tables'  BY <1>1 DEF IInv, Tables
<1>6. \A r \in Requests : Sound(req'[r], aiLog'[r], routeLog'[r])  BY <1>1 DEF IInv
<1> QED  BY <1>4, <1>5, <1>6 DEF IInv

LEMMA StepKeeps == IInv /\ [Next]_vars => IInv'
<1> SUFFICES ASSUME IInv, [Next]_vars PROVE IInv'
  OBVIOUS
<1>1. CASE UNCHANGED vars  BY <1>1 DEF vars, IInv, Settings, Tables
<1>2. CASE \E r \in Requests, role \in Roles : Start(r, role)  BY <1>2, StartKeeps
<1>3. CASE \E r \in Requests : Answered(r)  BY <1>3, AnsweredKeeps
<1>4. CASE \E body \in Patches : Patch(body)  BY <1>4, PatchKeeps
<1> QED  BY <1>1, <1>2, <1>3, <1>4 DEF Next

THEOREM Invariant == Spec => []IInv
BY InitEstablishes, StepKeeps, PTL DEF Spec

------------------------------------------------------------------------------
(* What the run checks.                                                      *)

\* Every variable has its type, whatever the questions are and whatever is written into the
\* settings, ill-typed values included (api/settings.py:72-131, llm/structured.py:84-217).
THEOREM TypeCorrect == Spec => []TypeOK
<1>1. IInv => TypeOK
  <2> SUFFICES ASSUME IInv PROVE TypeOK
    OBVIOUS
  <2>1. \A r \in Requests : /\ req[r] \in Loop /\ aiLog[r] \in SUBSET LogRow
                            /\ routeLog[r] \in SUBSET RouteRow
    BY DEF IInv, Sound
  <2>2. /\ req \in [Requests -> Loop] /\ aiLog \in [Requests -> SUBSET LogRow]
        /\ routeLog \in [Requests -> SUBSET RouteRow]
    BY <2>1 DEF IInv, Tables
  <2> QED  BY <2>2 DEF IInv, Settings, TypeOK, LogRow, RouteRow
<1> QED  BY <1>1, Invariant, PTL

\* A question costs at most a retry budget per tier, its tier stays within the ladder, and one
\* whose tier has no name never climbs, whatever settings are changed while it runs (llm/structured.py:84-217, llm/router/router.py:87-118).
THEOREM EffortBounded == Spec => []EffortIsBounded
<1>1. IInv => EffortIsBounded  BY DEF IInv, Sound, Effort, EffortIsBounded
<1> QED  BY <1>1, Invariant, PTL

\* No attempt is lost between the two logs, none has two rows, and the accepted one is what
\* the caller was given; only settings that cannot be read lose one, the last
\* (llm/structured.py:84-217).
THEOREM CallsAccounted == Spec => []EveryCallIsAccounted
<1>1. IInv => EveryCallIsAccounted  BY DEF IInv, Sound, Accounted, EveryCallIsAccounted
<1> QED  BY <1>1, Invariant, PTL

\* The routing decisions of a question are one staircase (llm/router/router.py:87-138).
THEOREM RoutesClimb == Spec => []RoutesAreAStaircase
<1>1. IInv => RoutesAreAStaircase  BY DEF IInv, Sound, Staircase, RoutesAreAStaircase
<1> QED  BY <1>1, Invariant, PTL

------------------------------------------------------------------------------
(* The loop implements ModelCall.                                            *)

LEMMA PromiseInit == Init => Promise!Init
<1> SUFFICES ASSUME Init PROVE Promise!Init
  OBVIOUS
<1>1. \A r \in Requests : /\ Status(req[r].pc) = "new" /\ req[r].valid = {}
                          /\ req[r].answer = 0 /\ aiLog[r] = {}
  BY DEF Init, Fresh, Status
<1> QED  BY <1>1 DEF Promise!Init

Outage(r) == \E row \in aiLog[r] : row.verdict = "unavailable"

\* A step of one question is a step of the promise if its own part is one.
LEMMA PromiseOfOne ==
  ASSUME IInv, NEW r \in Requests, NEW q, NEW rows,
         req' = [req EXCEPT ![r] = q], aiLog' = [aiLog EXCEPT ![r] = rows],
         \/ Promise!Ask(r) \/ Promise!Attempt(r) \/ Promise!Answer(r)
         \/ Promise!Refuse(r) \/ Promise!Raise(r)
  PROVE  Promise!Next
<1>1. \A o \in Requests \ {r} : req'[o] = req[o] /\ aiLog'[o] = aiLog[o]
  BY DEF IInv, Tables
<1>2. \A o \in Requests \ {r} : Promise!Same(o)
  BY <1>1 DEF Promise!Same
<1> QED  BY <1>2 DEF Promise!Next

\* What a sound question that is open shows of itself, and that rows are of attempts made.
LEMMA OpenShows ==
  ASSUME IInv, NEW r \in Requests, req[r].pc = "calling"
  PROVE  /\ req[r] \in Loop /\ req[r].answer = 0
         /\ \A row \in aiLog[r] : row.verdict = "rejected"
         /\ req[r].held = 0 => req[r].valid = {}
         /\ req[r].held > 0 => req[r].held \in req[r].valid
         /\ \A call \in req[r].valid : call <= req[r].held /\ call <= req[r].calls
BY DEF IInv, Sound, Held, OfCalls, Loop

LEMMA StartPromised ==
  ASSUME IInv, NEW r \in Requests, NEW role \in Roles, Start(r, role)
  PROVE  Promise!Next
<1> DEFINE after == [Fresh EXCEPT !.pc = "calling", !.tier = TierOf(role), !.attempt = 1,
                                  !.threshold = config["escalation_confidence_threshold"]]
<1>1. /\ req[r].pc = "new" /\ req' = [req EXCEPT ![r] = after] /\ UNCHANGED aiLog
  BY DEF Start
<1>2. req[r] = Fresh /\ aiLog[r] = {}  BY <1>1 DEF IInv, Sound, Budget
<1>3. after.pc = "calling" /\ after.valid = {} /\ after.answer = 0  BY DEF Fresh
<1> HIDE DEF after
<1>4. req'[r] = after /\ aiLog'[r] = {}  BY <1>1, <1>2 DEF IInv, Tables
<1>5. Promise!Ask(r)  BY <1>1, <1>3, <1>4 DEF Promise!Ask, Status
<1>6. aiLog' = [aiLog EXCEPT ![r] = aiLog[r]]  BY <1>1, Rewritten
<1> QED  BY <1>1, <1>5, <1>6, PromiseOfOne

LEMMA AnsweredPromised ==
  ASSUME IInv, NEW r \in Requests, Answered(r)
  PROVE  Promise!Next
<1> DEFINE q == req[r]
           n == q.calls + 1
           open == /\ q.pc = "calling" /\ q.answer = 0
                   /\ \A row \in aiLog[r] : row.verdict = "rejected"
<1>1. q.pc = "calling"
  BY DEF Answered, Unavailable, Reject, Retry, RejectedEscalates, FallBack, Fail, LastRejected,
         RejectedRaises, Validated, Hold, HoldRaises, Accept
<1>2. q \in Loop /\ open  BY <1>1, OpenShows
<1>3. This(r) = n  BY DEF This
\* The rows and the question after a step.
<1>4. ASSUME NEW after, NEW rows,
             req' = [req EXCEPT ![r] = after], aiLog' = [aiLog EXCEPT ![r] = aiLog[r] \cup rows]
      PROVE  req'[r] = after /\ aiLog'[r] = aiLog[r] \cup rows
  BY <1>4 DEF IInv, Tables
<1>5. \A v : Row(n, v).verdict = v /\ Row(q.held, v).verdict = v  BY DEF Row
<1>6. ASSUME NEW after, NEW rows, NEW refused \in {"rejected", "unavailable"},
             after = [q EXCEPT !.pc = "refused", !.calls = n, !.answer = 0],
             refused = "rejected" => q.valid = {},
             req' = [req EXCEPT ![r] = after],
             aiLog' = [aiLog EXCEPT ![r] = aiLog[r] \cup {Row(n, refused)}]
      PROVE  Promise!Next
  <2>1. after.pc = "refused" /\ after.valid = q.valid /\ after.answer = 0
    BY <1>2, <1>6 DEF Loop
  <2>2. req'[r] = after /\ aiLog'[r] = aiLog[r] \cup {Row(n, refused)}  BY <1>4, <1>6
  <2>3. refused = "unavailable" => \E row \in aiLog'[r] : row.verdict = "unavailable"
    BY <1>5, <2>2
  <2>4. Promise!Refuse(r)
    BY <1>2, <1>6, <2>1, <2>2, <2>3 DEF Promise!Refuse, Status
  <2> QED  BY <1>6, <2>4, PromiseOfOne
<1>7. ASSUME NEW after, NEW rows, after.pc = "calling", after.answer = 0,
             q.valid \subseteq after.valid,
             \A row \in rows : row.verdict = "rejected",
             req' = [req EXCEPT ![r] = after], aiLog' = [aiLog EXCEPT ![r] = aiLog[r] \cup rows]
      PROVE  Promise!Next
  <2>1. req'[r] = after /\ aiLog'[r] = aiLog[r] \cup rows  BY <1>4, <1>7
  <2>2. \A row \in aiLog'[r] : row.verdict = "rejected"  BY <1>2, <1>7, <2>1
  <2>3. Promise!Attempt(r)
    BY <1>2, <1>7, <2>1, <2>2 DEF Promise!Attempt, Status
  <2> QED  BY <1>7, <2>3, PromiseOfOne
<1>8. ASSUME NEW after, NEW rows, after.pc = "answered", q.valid \subseteq after.valid,
             after.answer \in after.valid, \A call \in after.valid : call <= after.answer,
             \A row \in rows : row.verdict # "unavailable",
             req' = [req EXCEPT ![r] = after], aiLog' = [aiLog EXCEPT ![r] = aiLog[r] \cup rows]
      PROVE  Promise!Next
  <2>1. req'[r] = after /\ aiLog'[r] = aiLog[r] \cup rows  BY <1>4, <1>8
  <2>2. \A row \in aiLog'[r] : row.verdict # "unavailable"  BY <1>2, <1>8, <2>1
  <2>3. Promise!Answer(r)
    BY <1>2, <1>8, <2>1, <2>2 DEF Promise!Answer, Status
  <2> QED  BY <1>8, <2>3, PromiseOfOne
<1>9. CASE Unavailable(r)
  <2>1. /\ req' = [req EXCEPT ![r] = [q EXCEPT !.pc = "refused", !.calls = n, !.answer = 0]]
        /\ aiLog' = [aiLog EXCEPT ![r] = aiLog[r] \cup {Row(n, "unavailable")}]
    BY <1>3, <1>9 DEF Unavailable, Ended, Logged, IInv, Tables
  <2> QED  BY <1>6, <2>1
<1>10. CASE Fail(r)
  <2>1. /\ req' = [req EXCEPT ![r] = [q EXCEPT !.pc = "refused", !.calls = n, !.answer = 0]]
        /\ aiLog' = [aiLog EXCEPT ![r] = aiLog[r] \cup {Row(n, "rejected")}]
    BY <1>3, <1>10 DEF Fail, Ended, Logged, IInv, Tables
  <2>2. q.valid = {}  BY <1>1, <1>10, OpenShows DEF Fail
  <2> QED  BY <1>6, <2>1, <2>2
<1>11. CASE Retry(r)
  <2> DEFINE after == Retried(r)
             rows == {Row(n, "rejected")}
  <2>1. after.pc = "calling" /\ after.answer = 0 /\ after.valid = q.valid
    BY <1>2 DEF Retried, Loop
  <2>2. req' = [req EXCEPT ![r] = after] /\ aiLog' = [aiLog EXCEPT ![r] = aiLog[r] \cup rows]
    BY <1>3, <1>11 DEF Retry, Logged, IInv, Tables
  <2>3. q.valid \subseteq after.valid /\ \A row \in rows : row.verdict = "rejected"
    BY <1>5, <2>1
  <2> HIDE DEF after, rows, q
  <2> QED  BY <1>7, <2>1, <2>2, <2>3
<1>12. CASE RejectedEscalates(r)
  <2> DEFINE after == Climbed(r, q.held, q.valid)
             rows == {Row(n, "rejected")}
  <2>1. after.pc = "calling" /\ after.answer = 0 /\ after.valid = q.valid
    BY <1>2 DEF Climbed, Loop
  <2>2. req' = [req EXCEPT ![r] = after] /\ aiLog' = [aiLog EXCEPT ![r] = aiLog[r] \cup rows]
    BY <1>3, <1>12 DEF RejectedEscalates, Logged, IInv, Tables
  <2>3. q.valid \subseteq after.valid /\ \A row \in rows : row.verdict = "rejected"
    BY <1>5, <2>1
  <2> HIDE DEF after, rows, q
  <2> QED  BY <1>7, <2>1, <2>2, <2>3
<1>13. ASSUME NEW c, Hold(r, c) PROVE Promise!Next
  <2> DEFINE after == Climbed(r, n, q.valid \cup {n})
             rows == {}
  <2>1. after.pc = "calling" /\ after.answer = 0 /\ after.valid = q.valid \cup {n}
    BY <1>2 DEF Climbed, Loop
  <2>2. req' = [req EXCEPT ![r] = after] /\ aiLog' = [aiLog EXCEPT ![r] = aiLog[r] \cup rows]
    BY <1>3, <1>13, Rewritten DEF Hold
  <2>3. q.valid \subseteq after.valid /\ \A row \in rows : row.verdict = "rejected"
    BY <2>1
  <2> HIDE DEF after, rows, q
  <2> QED  BY <1>7, <2>1, <2>2, <2>3
<1>14. CASE FallBack(r)
  <2> DEFINE after == [q EXCEPT !.pc = "answered", !.calls = n, !.answer = q.held]
             rows == {Row(n, "rejected"), Row(q.held, "accepted")}
  <2>1. after.pc = "answered" /\ after.valid = q.valid /\ after.answer = q.held
    BY <1>2 DEF Loop
  <2>2. req' = [req EXCEPT ![r] = after] /\ aiLog' = [aiLog EXCEPT ![r] = aiLog[r] \cup rows]
    BY <1>3, <1>14 DEF FallBack, Ended, Logged, IInv, Tables
  <2>3. q.held \in q.valid /\ \A call \in q.valid : call <= q.held
    BY <1>1, <1>14, OpenShows DEF FallBack
  <2>4. \A row \in rows : row.verdict # "unavailable"  BY <1>5
  <2> HIDE DEF after, rows, q
  <2> QED  BY <1>8, <2>1, <2>2, <2>3, <2>4
<1>15. ASSUME NEW c, Accept(r, c) PROVE Promise!Next
  <2> DEFINE after == Accepted(r)
             rows == {Row(n, "accepted")}
  <2>1. after.pc = "answered" /\ after.valid = q.valid \cup {n} /\ after.answer = n
    BY <1>2, <1>3 DEF Accepted, Loop
  <2>2. req' = [req EXCEPT ![r] = after] /\ aiLog' = [aiLog EXCEPT ![r] = aiLog[r] \cup rows]
    BY <1>3, <1>15 DEF Accept, Logged, IInv, Tables
  <2>3. \A call \in q.valid \cup {n} : call <= n
    BY <1>1, <1>2, OpenShows DEF Loop
  <2>4. \A row \in rows : row.verdict # "unavailable"  BY <1>5
  <2> HIDE DEF after, rows, q
  <2> QED  BY <1>8, <2>1, <2>2, <2>3, <2>4
<1>16. ASSUME NEW after, NEW rows, after.pc = "raised", after.answer = 0,
              q.valid \subseteq after.valid, \A row \in rows : row.verdict = "rejected",
              req' = [req EXCEPT ![r] = after], aiLog' = [aiLog EXCEPT ![r] = aiLog[r] \cup rows]
       PROVE  Promise!Next
  <2>1. req'[r] = after /\ aiLog'[r] = aiLog[r] \cup rows  BY <1>4, <1>16
  <2>2. \A row \in aiLog'[r] : row.verdict = "rejected"  BY <1>2, <1>16, <2>1
  <2>3. Promise!Raise(r)  BY <1>2, <1>16, <2>1, <2>2 DEF Promise!Raise, Status
  <2> QED  BY <1>16, <2>3, PromiseOfOne
<1>17. CASE RejectedRaises(r)
  <2> DEFINE after == [q EXCEPT !.pc = "raised", !.calls = n, !.answer = 0]
             rows == {Row(n, "rejected")}
  <2>1. after.pc = "raised" /\ after.answer = 0 /\ after.valid = q.valid
    BY <1>2 DEF Loop
  <2>2. req' = [req EXCEPT ![r] = after] /\ aiLog' = [aiLog EXCEPT ![r] = aiLog[r] \cup rows]
    BY <1>3, <1>17 DEF RejectedRaises, Ended, Logged, IInv, Tables
  <2>3. q.valid \subseteq after.valid /\ \A row \in rows : row.verdict = "rejected"
    BY <1>5, <2>1
  <2> HIDE DEF after, rows, q
  <2> QED  BY <1>16, <2>1, <2>2, <2>3
<1>18. ASSUME NEW c, HoldRaises(r, c) PROVE Promise!Next
  <2> DEFINE after == Lost(r)
             rows == {}
  <2>1. after.pc = "raised" /\ after.answer = 0 /\ after.valid = q.valid \cup {n}
    BY <1>2, <1>3 DEF Lost, Loop
  <2>2. req' = [req EXCEPT ![r] = after] /\ aiLog' = [aiLog EXCEPT ![r] = aiLog[r] \cup rows]
    BY <1>3, <1>18, Rewritten DEF HoldRaises
  <2>3. q.valid \subseteq after.valid /\ \A row \in rows : row.verdict = "rejected"
    BY <2>1
  <2> HIDE DEF after, rows, q
  <2> QED  BY <1>16, <2>1, <2>2, <2>3
<1> QED
  BY <1>9, <1>10, <1>11, <1>12, <1>13, <1>14, <1>15, <1>17, <1>18 DEF Answered, Reject, Validated

LEMMA StepPromised == IInv /\ [Next]_vars => [Promise!Next]_Promise!question
<1> SUFFICES ASSUME IInv, [Next]_vars PROVE [Promise!Next]_Promise!question
  OBVIOUS
<1>1. CASE UNCHANGED vars  BY <1>1 DEF vars, Promise!question
<1>2. CASE \E r \in Requests, role \in Roles : Start(r, role)  BY <1>2, StartPromised
<1>3. CASE \E r \in Requests : Answered(r)  BY <1>3, AnsweredPromised
<1>4. CASE \E body \in Patches : Patch(body)  BY <1>4 DEF Patch, Promise!question
<1> QED  BY <1>1, <1>2, <1>3, <1>4 DEF Next

\* Only validated output leaves the loop, the newest, and a question is refused only if it has
\* none or if the gateway was down, or it raises, for any budget and whatever settings are changed meanwhile.
THEOREM Refines == Spec => OnlyValidatedOutput
BY PromiseInit, Invariant, StepPromised, PTL DEF Spec, OnlyValidatedOutput, Promise!Spec

=============================================================================
