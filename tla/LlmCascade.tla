------------------------------- MODULE LlmCascade -------------------------------
(***************************************************************************)
(* The one way to the language model (valeri_api/llm): narrate_structured  *)
(* and narrate_task share a loop over tiers and, within a tier, over       *)
(* attempts.  Each step below is what the loop does from one answer of the *)
(* gateway to the next call, which is where other requests run: another    *)
(* question, or an administrator who changes the router's settings.  The   *)
(* threshold of the self-confidence is read once, when a question starts;  *)
(* whether the cascade may escalate is read again each time it wants to.   *)
(*                                                                         *)
(* The rows of audit.ai_log and audit.llm_route_log belong to the          *)
(* transaction of the caller, which shares their fate; the two sets below  *)
(* are what that transaction holds.  A setting may be ill-typed, for       *)
(* patch_rule_config takes any value: whoever reads it then raises, out of *)
(* the loop and into its caller.                                           *)
(***************************************************************************)
EXTENDS Integers, FiniteSets, TLC

CONSTANTS
    Requests,        \* the questions, of any caller
    Roles,           \* the task roles
    DefaultTiers,    \* DEFAULT_ROLE_TIERS
    MaxAttempts,     \* llm_max_retries + 1
    Confidences,     \* the self-confidences and thresholds, in hundredths
    NoConfidence,    \* the output of a schema without one
    IllTyped,        \* a value that float(), int(), .get or the name of a tier does not take
    Patches,         \* what an administrator may set: some settings and their new values
    MaxPatches       \* bound on the number of such changes

Strongest == 3                         \* Len(TIER_ORDER)
Tiers == 0 .. Strongest                \* 0 stands for a name TIER_ORDER does not have
Params == {"role_tiers", "escalation_confidence_threshold", "cascade_enabled",
           "cascade_max_escalations"}

\* What the loop makes of any value at all: role_tiers that are no dictionary are ill-typed for
\* every role, bool() takes everything, and a threshold below every confidence is as good as 0.
Values(param) ==
    CASE param = "role_tiers" -> UNION {[S -> Tiers \cup {IllTyped}] : S \in SUBSET Roles}
      [] param = "escalation_confidence_threshold" -> Confidences \cup {IllTyped}
      [] param = "cascade_enabled" -> BOOLEAN
      [] param = "cascade_max_escalations" -> Int \cup {IllTyped}

ASSUME CascadeAssumption ==
    /\ MaxAttempts \in Nat \ {0} /\ MaxPatches \in Nat
    /\ Confidences \subseteq Nat /\ NoConfidence \notin Confidences
    /\ 60 \in Confidences
    /\ DefaultTiers \in [Roles -> 1 .. Strongest]
    /\ \A body \in Patches :
          DOMAIN body \subseteq Params /\ \A p \in DOMAIN body : body[p] \in Values(p)

VARIABLES
    config,      \* app.rule_config of the rule llm_router
    changes,     \* app.decision of the changes of those settings
    req,         \* the loop of each question
    aiLog,       \* audit.ai_log: one row for each attempt that is logged, and its verdict
    routeLog     \* audit.llm_route_log: each decision for a tier, and the attempt it followed

vars == <<config, changes, req, aiLog, routeLog>>

------------------------------------------------------------------------------
(* The settings.                                                             *)

\* load_router_config's defaults are those the migration seeds.
Seeded ==
    [p \in Params |-> CASE p = "role_tiers" -> DefaultTiers
                       [] p = "escalation_confidence_threshold" -> 60
                       [] p = "cascade_enabled" -> TRUE
                       [] p = "cascade_max_escalations" -> 1]

\* load_router_config converts both numbers, whichever of the settings is asked for.
Readable == IllTyped \notin {config["escalation_confidence_threshold"],
                            config["cascade_max_escalations"]}

\* patch_llm_settings and patch_rule_config: all or nothing, one decision for each setting;
\* role_tiers is replaced as a whole.
Patch(body) ==
    /\ \A change \in changes : change.patch < MaxPatches
    /\ config' = [p \in Params |-> IF p \in DOMAIN body THEN body[p] ELSE config[p]]
    /\ LET number == Cardinality({change.patch : change \in changes}) + 1
       IN  changes' = changes \cup {[patch |-> number, param |-> p, old |-> config[p],
                                     new |-> body[p]] : p \in DOMAIN body}
    /\ UNCHANGED <<req, aiLog, routeLog>>

------------------------------------------------------------------------------
(* The loop.                                                                 *)

Fresh == [pc |-> "new", tier |-> 0, escalations |-> 0, attempt |-> 0, threshold |-> 0,
          held |-> 0, calls |-> 0, valid |-> {}, answer |-> 0]

\* FALLBACK_TIER
TierOf(role) == IF role \in DOMAIN config["role_tiers"] THEN config["role_tiers"][role] ELSE 1

\* initial_route, with the threshold that the loop keeps.  If the settings cannot be read, or
\* name no tier for the role, it raises before anything is written: nothing was asked.
Start(r, role) ==
    /\ req[r].pc = "new"
    /\ Readable /\ TierOf(role) # IllTyped
    /\ req' = [req EXCEPT ![r] = [Fresh EXCEPT
                  !.pc = "calling", !.tier = TierOf(role), !.attempt = 1,
                  !.threshold = config["escalation_confidence_threshold"]]]
    /\ routeLog' = [routeLog EXCEPT ![r] =
                      @ \cup {[step |-> 0, tier |-> TierOf(role), reason |-> "role_default",
                               after |-> 0]}]
    /\ UNCHANGED <<config, changes, aiLog>>

\* The number of the attempt that the gateway answers now.
This(r) == req[r].calls + 1

Ended(r, pc, answer) ==
    req' = [req EXCEPT ![r] = [@ EXCEPT !.pc = pc, !.calls = This(r), !.answer = answer]]

Row(call, verdict) == [call |-> call, verdict |-> verdict]
Logged(r, rows) == aiLog' = [aiLog EXCEPT ![r] = @ \cup rows]

\* LLMUnavailable ends the question at any attempt, whatever is held.
Unavailable(r) ==
    /\ req[r].pc = "calling"
    /\ Ended(r, "refused", 0)
    /\ Logged(r, {Row(This(r), "unavailable")})
    /\ UNCHANGED <<config, changes, routeLog>>

\* escalate: the settings are read again.
NoCeiling(r) == config["cascade_enabled"] /\ req[r].escalations < config["cascade_max_escalations"]
                                                       \* mutant: past the strongest tier
MayEscalate(r) ==
    /\ config["cascade_enabled"]
    /\ req[r].escalations < config["cascade_max_escalations"]
    /\ req[r].tier \in 1 .. Strongest - 1

RouteLeft(r, reason) == [step |-> req[r].escalations + 1, tier |-> req[r].tier,
                         reason |-> reason, after |-> This(r)]   \* mutant: the tier it leaves
Route(r, reason) == [step |-> req[r].escalations + 1, tier |-> req[r].tier + 1,
                     reason |-> reason, after |-> This(r)]

\* The next tier has a retry budget of its own.
Climbed(r, held, valid) ==
    [req[r] EXCEPT !.tier = @ + 1, !.escalations = @ + 1, !.attempt = 1,
                   !.calls = This(r), !.held = held, !.valid = valid]

Retried(r) == [req[r] EXCEPT !.attempt = @ + 1, !.calls = This(r)]

\* An attempt is rejected, by the schema or by the number contract, and there is another.
Retry(r) ==
    /\ req[r].pc = "calling"
    /\ req[r].attempt < MaxAttempts
    /\ req' = [req EXCEPT ![r] = Retried(r)]
    /\ Logged(r, {Row(This(r), "rejected")})
    /\ UNCHANGED <<config, changes, routeLog>>

\* The last attempt of a tier is rejected, and escalate reads the settings again, or raises.
LastRejected(r) == req[r].pc = "calling" /\ req[r].attempt >= MaxAttempts /\ Readable

RejectedRaises(r) ==
    /\ req[r].pc = "calling" /\ req[r].attempt >= MaxAttempts
    /\ ~Readable
    /\ Ended(r, "raised", 0)
    /\ Logged(r, {Row(This(r), "rejected")})
    /\ UNCHANGED <<config, changes, routeLog>>

RejectedEscalates(r) ==
    /\ LastRejected(r)
    /\ MayEscalate(r)
    /\ req' = [req EXCEPT ![r] = Climbed(r, req[r].held, req[r].valid)]
    /\ Logged(r, {Row(This(r), "rejected")})
    /\ routeLog' = [routeLog EXCEPT ![r] = @ \cup {Route(r, "validator_reject")}]
    /\ UNCHANGED <<config, changes>>

\* The valid output that a weaker tier gave with little confidence is better than none.
FallBack(r) ==
    /\ LastRejected(r)
    /\ ~MayEscalate(r)
    /\ req[r].held > 0
    /\ Ended(r, "answered", req[r].held)
    /\ Logged(r, {Row(This(r), "rejected"), Row(req[r].held, "accepted")})
    /\ UNCHANGED <<config, changes, routeLog>>

StartOver(r) ==                                        \* mutant: the loop begins again
    /\ LastRejected(r) /\ ~MayEscalate(r) /\ req[r].held = 0
    /\ req' = [req EXCEPT ![r].attempt = 1, ![r].calls = 0]
    /\ UNCHANGED <<config, changes, aiLog, routeLog>>
FailAlways(r) ==                                       \* mutant: what is held is forgotten
    /\ LastRejected(r) /\ ~MayEscalate(r)
    /\ Ended(r, "refused", 0)
    /\ Logged(r, {Row(This(r), "rejected")})
    /\ UNCHANGED <<config, changes, routeLog>>
Fail(r) ==
    /\ LastRejected(r)
    /\ ~MayEscalate(r)
    /\ req[r].held = 0
    /\ Ended(r, "refused", 0)
    /\ Logged(r, {Row(This(r), "rejected")})
    /\ UNCHANGED <<config, changes, routeLog>>

Low(r, confidence) == confidence # NoConfidence /\ confidence < req[r].threshold

\* A valid output with little confidence is held, and the attempt is not logged.
HoldUnexplained(r, confidence) ==                      \* mutant: the route names no attempt
    /\ req[r].pc = "calling" /\ Low(r, confidence) /\ Readable /\ MayEscalate(r)
    /\ req' = [req EXCEPT ![r] = Climbed(r, This(r), req[r].valid \cup {This(r)})]
    /\ routeLog' = [routeLog EXCEPT ![r] = @ \cup {Route(r, "validator_reject")}]
    /\ UNCHANGED <<config, changes, aiLog>>
Hold(r, confidence) ==
    /\ req[r].pc = "calling"
    /\ Low(r, confidence)
    /\ Readable /\ MayEscalate(r)
    /\ req' = [req EXCEPT ![r] = Climbed(r, This(r), req[r].valid \cup {This(r)})]
    /\ routeLog' = [routeLog EXCEPT ![r] = @ \cup {Route(r, "low_confidence")}]
    /\ UNCHANGED <<config, changes, aiLog>>

Lost(r) == [req[r] EXCEPT !.pc = "raised", !.calls = This(r), !.valid = @ \cup {This(r)}]

\* escalate raises: the output, which is not logged yet, is lost.
HoldRaises(r, confidence) ==
    /\ req[r].pc = "calling"
    /\ Low(r, confidence)
    /\ ~Readable
    /\ req' = [req EXCEPT ![r] = Lost(r)]
    /\ UNCHANGED <<config, changes, aiLog, routeLog>>

Accepted(r) == [req[r] EXCEPT !.pc = "answered", !.calls = This(r),
                              !.valid = @ \cup {This(r)}, !.answer = This(r)]

Accept(r, confidence) ==
    /\ req[r].pc = "calling"
    /\ Low(r, confidence) => Readable /\ ~MayEscalate(r)
    /\ req' = [req EXCEPT ![r] = Accepted(r)]
    /\ Logged(r, {Row(This(r), "accepted")})
    /\ UNCHANGED <<config, changes, routeLog>>

------------------------------------------------------------------------------

Init ==
    /\ config = Seeded
    /\ changes = {}
    /\ req = [r \in Requests |-> Fresh]
    /\ aiLog = [r \in Requests |-> {}]
    /\ routeLog = [r \in Requests |-> {}]

Reject(r) ==
    Retry(r) \/ RejectedEscalates(r) \/ FallBack(r) \/ Fail(r) \/ RejectedRaises(r)
Validated(r) ==
    \E c \in Confidences \cup {NoConfidence} : Hold(r, c) \/ HoldRaises(r, c) \/ Accept(r, c)

\* The gateway answers, or the client's timeout of 60 s ends the wait.
Answered(r) == Unavailable(r) \/ Reject(r) \/ Validated(r)

Next ==
    \/ \E r \in Requests, role \in Roles : Start(r, role)
    \/ \E r \in Requests : Answered(r)
    \/ \E body \in Patches : Patch(body)

Spec == Init /\ [][Next]_vars

\* The loop runs in a thread of its own; its only wait is the call, which is bounded.
Fairness == \A r \in Requests : WF_vars(Answered(r))
FairSpec == Spec /\ Fairness

------------------------------------------------------------------------------
(* Properties.                                                               *)

Verdicts == {"unavailable", "rejected", "accepted"}
Loop == [pc : {"new", "calling", "answered", "refused", "raised"}, tier : Tiers, escalations : Nat,
         attempt : Nat, threshold : Nat, held : Nat, calls : Nat, valid : SUBSET Nat,
         answer : Nat]

\* Every variable has its type.
TypeOK ==
    /\ DOMAIN config = Params /\ \A p \in Params : config[p] \in Values(p)
    /\ req \in [Requests -> Loop]
    /\ aiLog \in [Requests -> SUBSET [call : Nat, verdict : Verdicts]]
    /\ routeLog \in [Requests -> SUBSET [step : Nat, tier : Tiers, after : Nat,
                        reason : {"role_default", "validator_reject", "low_confidence"}]]

\* A question costs at most one retry budget for each tier it was routed to, a tier that has no
\* name is never left for another, and a question never climbs past the strongest, whatever an
\* administrator does to the settings meanwhile.
EffortIsBounded ==
    \A r \in Requests :
        /\ req[r].calls <= MaxAttempts * (req[r].escalations + 1)
        /\ req[r].escalations = 0 \/ req[r].escalations < req[r].tier
        /\ req[r].tier <= Strongest

\* Every attempt is accounted for: it has a row in audit.ai_log, or a routing decision names
\* low confidence in its output as its reason, or it is the last one and the settings could not
\* be read after it; no attempt has two rows; and the one row that says accepted is that of the
\* output the caller was given, even of one held back before.
EveryCallIsAccounted ==
    \A r \in Requests :
        /\ \A call \in 1 .. req[r].calls :
              \/ \E row \in aiLog[r] : row.call = call
              \/ \E route \in routeLog[r] :
                    route.after = call /\ route.reason = "low_confidence"
              \/ req[r].pc = "raised" /\ call = req[r].calls
        /\ \A row, other \in aiLog[r] : row.call = other.call => row = other
        /\ {row \in aiLog[r] : row.verdict = "accepted"} =
              IF req[r].pc = "answered" THEN {Row(req[r].answer, "accepted")} ELSE {}

\* The routes of a question are one staircase: each decision is one tier above the one before,
\* there is one for each step, and the last one is where the question is.
RoutesAreAStaircase ==
    \A r \in Requests : req[r].pc # "new" =>
        /\ \A route \in routeLog[r] :
              /\ route.step <= req[r].escalations
              /\ route.tier + (req[r].escalations - route.step) = req[r].tier
        /\ \A step \in 0 .. req[r].escalations :
              \E route \in routeLog[r] : route.step = step
        /\ \A route, other \in routeLog[r] : route.step = other.step => route = other

\* The loop does what ModelCall promises: only validated output leaves it, the newest, and a
\* question is refused only if it has none or if the gateway was down; or it fails.
Status(pc) == IF pc = "calling" THEN "open" ELSE pc
Promise == INSTANCE ModelCall WITH
    status <- [r \in Requests |-> Status(req[r].pc)],
    valid <- [r \in Requests |-> req[r].valid],
    answer <- [r \in Requests |-> req[r].answer],
    outage <- [r \in Requests |-> \E row \in aiLog[r] : row.verdict = "unavailable"]
OnlyValidatedOutput == Promise!Spec

\* Every question that was asked is answered or refused, or fails over the settings.
EveryQuestionEnds ==
    \A r \in Requests : req[r].pc = "calling" ~> req[r].pc \in {"answered", "refused", "raised"}
=============================================================================
