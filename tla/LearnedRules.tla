------------------------------ MODULE LearnedRules ------------------------------
(***************************************************************************)
(* The self-configuration loop (valeri_api/selfconfig): learned rules, the *)
(* thresholds of app.rule_config that threshold rules change, and the      *)
(* append-only app.decision log that makes every change visible and        *)
(* reversible.                                                             *)
(*                                                                         *)
(* A step is one committed transaction: an API request or a worker job     *)
(* runs in a session of its own and commits or rolls back as a whole.  A   *)
(* chat post also commits what a tool wrote before it failed: that is the  *)
(* action ProposeRefused.  The id of a learned rule is its index in        *)
(* `rules`, the id of a decision its index in `decisions`.                 *)
(***************************************************************************)
EXTENDS Naturals, Sequences, FiniteSets, Functions

CONSTANTS
    Thresholds,    \* the (rule, param) rows of app.rule_config a scope can name
    NoThreshold,   \* a scope that names no existing row
    Values,        \* threshold values
    NoValue,       \* JSON null: the payload carries no value
    Seed,          \* the value each threshold was seeded with by the migrations
    NewScopes,     \* the kinds of scope an owner edits a rule to
    Proposals,     \* the structured rule changes the language model may produce
    ConfirmKinds,  \* selfconfig.confirm_kinds
    MaxEffect,     \* selfconfig.auto_apply_max_effect
    MinHits,       \* selfconfig.audit_min_hits
    VolumeFactor,  \* selfconfig.audit_volume_factor
    Levels,        \* how far a suppressed metric has worsened, see DriftOf
    MaxRules,      \* bound on learned rules
    MaxHits,       \* bound on the suppression hits of one rule
    MaxDecisions   \* bound on the decision log

ScopeKinds == {"once", "entity", "category", "threshold", "conditional"}

\* What a proposal fixes: its type, its scope (kind, target row, value), the
\* predicted effect, whether the interpretation confidence reaches the minimum,
\* and whether it comes from a dismissed signal whose evidence is a baseline.
Proposal == [type   : {"suppress", "threshold"},
             kind   : ScopeKinds,
             key    : Thresholds \cup {NoThreshold},
             value  : Values,
             effect : Nat,
             sure   : BOOLEAN,
             based  : BOOLEAN]

ASSUME ThresholdAssumption ==
    /\ NoThreshold \notin Thresholds
    /\ NoValue \notin Values
    /\ Seed \in [Thresholds -> Values]
ASSUME ProposalAssumption ==
    /\ Proposals \subseteq Proposal
    /\ ConfirmKinds \subseteq ScopeKinds
    /\ NewScopes \subseteq ScopeKinds
ASSUME AuditAssumption ==
    /\ MaxEffect \in Nat /\ MinHits \in Nat /\ VolumeFactor \in Nat
    /\ Levels \subseteq Nat
ASSUME BoundAssumption == MaxRules \in Nat /\ MaxHits \in Nat /\ MaxDecisions \in Nat

VARIABLES
    config,     \* app.rule_config: the value in force of every threshold
    rules,      \* app.learned_rule
    stream,     \* per rule: its suppression hits, and how bad the latest one is
    decisions   \* app.decision, append-only

vars == <<config, rules, stream, decisions>>

RuleIds == DOMAIN rules
DecisionIds == DOMAIN decisions

------------------------------------------------------------------------------
(* Decisions.  `form` is the shape of the payload: which keys it carries.    *)

DriftReport == [kind : {"none", "value", "volume"}, level : Nat, hits : Nat]
NoDrift == [kind |-> "none", level |-> 0, hits |-> 0]

Decision == [kind  : {"suppression", "threshold_change", "reactivation", "undo", "approval"},
             form  : {"apply", "edit", "settings", "undo", "expired", "review", "keep"},
             actor : {"valeri", "user"},
             rule  : Nat,                          \* learned_rule_id, 0 when absent
             key   : Thresholds \cup {NoThreshold},\* the row whose value it changed
             old   : Values \cup {NoValue},
             new   : Values \cup {NoValue},
             ref   : Nat,                          \* reverted / resolved decision, 0 when absent
             drift : DriftReport]

\* A decision that changes no threshold.
Note(kind, form, actor, r, ref, drift) ==
    [kind |-> kind, form |-> form, actor |-> actor, rule |-> r, key |-> NoThreshold,
     old |-> NoValue, new |-> NoValue, ref |-> ref, drift |-> drift]

\* A decision recording that threshold k went from old to new.
Change(kind, form, actor, r, ref, k, old, new) ==
    [kind |-> kind, form |-> form, actor |-> actor, rule |-> r, key |-> k,
     old |-> old, new |-> new, ref |-> ref, drift |-> NoDrift]

\* Every write of the log goes through log_decision, which only inserts.
Log(batch) ==
    /\ Len(decisions) + Len(batch) <= MaxDecisions
    /\ decisions' = decisions \o batch

\* ORDER BY id DESC LIMIT 1: the last of a set of ids, if there is one.
Last(ids) == {i \in ids : \A j \in ids : j <= i}

\* find_apply_decision_id: the query goes by kind and learned_rule_id only.
ApplyDecision(r) ==
    Last({i \in DecisionIds : /\ decisions[i].kind \in {"suppression", "threshold_change"}
                              /\ decisions[i].rule = r})

\* The same, with 0 for "no such decision".
ApplyDecisionOrNone(r) == IF ApplyDecision(r) = {} THEN {0} ELSE ApplyDecision(r)

\* restore_threshold_value writes back the old_value of the apply decision.
RestoresNewValue(d) == decisions[d].new      \* mutant: the wrong payload field
Restored(d) == decisions[d].old
AppliedOld(r) == Restored(CHOOSE d \in ApplyDecision(r) : TRUE)

------------------------------------------------------------------------------
(* Proposing and applying a rule.                                            *)

\* decide_autonomy: which proposals wait for a human.
RequiresConfirm(p) == \/ p.kind \in ConfirmKinds
                      \/ p.effect > MaxEffect
                      \/ ~p.sure

NewRule(p, status, autonomy) ==
    [type |-> p.type, kind |-> p.kind, key |-> p.key, value |-> p.value,
     effect |-> p.effect, based |-> p.based,
     status |-> status, autonomy |-> autonomy, due |-> FALSE]

\* The old value a change records: read before the row is updated.
ReadAfterUpdate(k) == config'[k]              \* mutant: the two statements swapped
ValueBefore(k) == config[k]

\* _write_apply_decision: a threshold rule also rewrites its rule_config row, and
\* raises when the scope names no existing row: the steps below that take it are the
\* requests in which it does not.
WriteApplyDecision(r, rule, actor) ==
    IF rule.type = "threshold"
    THEN /\ rule.key \in Thresholds
         /\ config' = [config EXCEPT ![rule.key] = rule.value]
         /\ Log(<<Change("threshold_change", "apply", actor, r, 0,
                         rule.key, ValueBefore(rule.key), rule.value)>>)
    ELSE /\ Log(<<Note("suppression", "apply", actor, r, 0, NoDrift)>>)
         /\ UNCHANGED config

\* propose_from_dismissal and propose_from_text persist the rule and, when the
\* autonomy boundary allows, apply it in the same transaction.  In an API request a
\* refused threshold change rolls all of it back.
Propose(p) ==
    LET r == Len(rules) + 1 IN
    /\ r <= MaxRules
    /\ stream' = Append(stream, [hits |-> 0, level |-> 0])
    /\ IF RequiresConfirm(p)
       THEN /\ rules' = Append(rules, NewRule(p, "pending_confirm", "confirmed"))
            /\ UNCHANGED <<config, decisions>>
       ELSE /\ rules' = Append(rules, NewRule(p, "active", "auto_applied"))
            /\ WriteApplyDecision(r, NewRule(p, "active", "auto_applied"), "valeri")

\* The same from a chat post: the threshold change is refused after the status was
\* written, the tool registry turns the exception into a failed call, and the post
\* commits the rule as it stands.
ProposeRefused(p) ==
    /\ Len(rules) < MaxRules
    /\ ~RequiresConfirm(p)
    /\ p.type = "threshold" /\ p.key \notin Thresholds
    /\ rules' = Append(rules, NewRule(p, "active", "auto_applied"))
    /\ stream' = Append(stream, [hits |-> 0, level |-> 0])
    /\ UNCHANGED <<config, decisions>>

\* The rules that can be undone or edited.
LiveOrExpired(r) == rules[r].status # "reverted"   \* mutant: expired is not closed
Live(r) == rules[r].status \in {"active", "pending_confirm"}

\* apply_rule: the one-tap confirm.
Confirmable(r) == rules[r].status = "pending_confirm"

Apply(r) ==
    /\ Confirmable(r)
    /\ rules' = [rules EXCEPT ![r].status = "active", ![r].autonomy = "confirmed"]
    /\ WriteApplyDecision(r, rules[r], "user")
    /\ UNCHANGED stream

\* undo_rule: reverts a live rule; a threshold rule that was applied also gets the
\* value recorded at apply time written back.
Undo(r) ==
    /\ Live(r)
    /\ rules' = [rules EXCEPT ![r].status = "reverted"]
    /\ \E d \in ApplyDecisionOrNone(r) :
         IF rules[r].type = "threshold" /\ d # 0 /\ Restored(d) # NoValue
         THEN /\ config' = [config EXCEPT ![rules[r].key] = Restored(d)]
              /\ Log(<<Change("undo", "undo", "user", r, d,
                              rules[r].key, NoValue, Restored(d))>>)
         ELSE /\ Log(<<Note("undo", "undo", "user", r, d, NoDrift)>>)
              /\ UNCHANGED config
    /\ UNCHANGED stream

\* edit_scope: never for a threshold rule, whose scope is its config change.
EditScope(r, kind) ==
    /\ Live(r)
    /\ rules[r].type # "threshold"
    /\ rules' = [rules EXCEPT ![r].kind = kind]
    /\ Log(<<Note("suppression", "edit", "user", r, 0, NoDrift)>>)
    /\ UNCHANGED <<config, stream>>

\* patch_rule_config, for one of the changes of a request: an admin sets a row.
PatchConfig(k, v) ==
    /\ config' = [config EXCEPT ![k] = v]
    /\ Log(<<Change("threshold_change", "settings", "user", 0, 0, k, ValueBefore(k), v)>>)
    /\ UNCHANGED <<rules, stream>>

------------------------------------------------------------------------------
(* Expiry and scans.                                                         *)

\* Nothing in the service writes expires_at: operators set it in the database.
SetExpiry(r) ==
    /\ Live(r) /\ ~rules[r].due
    /\ rules' = [rules EXCEPT ![r].due = TRUE]
    /\ UNCHANGED <<config, stream, decisions>>

\* The rules the UPDATE of expire_rules returns: active and past expires_at.
Due == {r \in RuleIds : rules[r].status = "active" /\ rules[r].due}

\* UPDATE .. RETURNING yields its rows in an order of its own.
Orders(S) == Bijection(1..Cardinality(S), S)

Restores(r) == /\ rules[r].type = "threshold"
               /\ ApplyDecision(r) # {}
               /\ AppliedOld(r) # NoValue

SilentExpiry(r) == Note("reactivation", "expired", "valeri", r, 0, NoDrift)  \* mutant
ExpiryDecision(r) ==
    IF Restores(r)
    THEN Change("reactivation", "expired", "valeri", r, 0,
                rules[r].key, NoValue, AppliedOld(r))
    ELSE Note("reactivation", "expired", "valeri", r, 0, NoDrift)

\* The loop over the returned rows rewrites thresholds in turn: the last row wins.
LastRestoreWins(order, k, v) ==
    LET writers == {i \in DOMAIN order : Restores(order[i]) /\ rules[order[i]].key = k} IN
    \/ writers = {} /\ v = config[k]
    \/ \E i \in Last(writers) : v = AppliedOld(order[i])

\* expire_rules: the first thing a scan and an audit do; followed by more log
\* entries of the same transaction.
ExpireRules(order, more) ==
    /\ config' \in {c \in [Thresholds -> Values] :
                       \A k \in Thresholds : LastRestoreWins(order, k, c[k])}
    /\ rules' = [r \in RuleIds |-> IF r \in Due THEN [rules[r] EXCEPT !.status = "expired"]
                                    ELSE rules[r]]
    /\ Log([i \in DOMAIN order |-> ExpiryDecision(order[i])] \o more)

\* load_active_suppressions, after the expiry step of the same transaction.
Suppressing == {r \in RuleIds \ Due : rules[r].status = "active" /\ rules[r].type = "suppress"}

\* run_scan, as the learned rules see it: expiry, then any of the suppressing
\* rules hide detections (hit counters grow, the stored evidence is refreshed).
Scan ==
    \E order \in Orders(Due), hiding \in SUBSET Suppressing :
      /\ ExpireRules(order, <<>>)
      /\ \E seen \in [hiding -> [hits : 1..MaxHits, level : Levels]] :
           /\ \A r \in hiding : stream[r].hits + seen[r].hits <= MaxHits
           /\ stream' = [r \in RuleIds |->
                           IF r \in hiding
                           THEN [hits |-> stream[r].hits + seen[r].hits, level |-> seen[r].level]
                           ELSE stream[r]]

------------------------------------------------------------------------------
(* The over-suppression auditor and its Na provjeri flags.                   *)

IsFlag(i, r) == decisions[i].form = "review" /\ decisions[i].rule = r
EditResolves(i, r) ==                         \* mutant: a scope edit answers a flag
    decisions[i].kind \in {"approval", "undo", "suppression"} /\ decisions[i].rule = r
Resolves(i, r) == decisions[i].kind \in {"approval", "undo"} /\ decisions[i].rule = r

\* find_open_flag: the latest flag of the rule, and the latest decision resolving it.
LatestFlag(r) == Last({i \in DecisionIds : IsFlag(i, r)})
Resolution(r, f) == Last({i \in DecisionIds : i > f /\ Resolves(i, r)})
OpenFlag(r) == {f \in LatestFlag(r) : Resolution(r, f) = {}}

\* na_provjeri of the rule list, which looks for flags and their answers by a query of its own.
OnReview(r) == {f \in DecisionIds :
                  /\ IsFlag(f, r)
                  /\ ~\E a \in DecisionIds : /\ a > f /\ decisions[a].rule = r
                                            /\ decisions[a].kind \in {"approval", "undo"}}

\* compute_drift.  A value drift compares the suppressed metric with the baseline
\* of the dismissed signal; level n stands for a metric that worsened to the n-th
\* power of audit_drift_factor, so that level 1 is just drift.  A volume drift
\* compares the hits with the predicted effect.
AtLeastOne(n) == IF n = 0 THEN 1 ELSE n

DriftOf(r) ==
    IF rules[r].based /\ stream[r].level >= 1
    THEN [kind |-> "value", level |-> stream[r].level, hits |-> 0]
    ELSE IF stream[r].hits >= VolumeFactor * AtLeastOne(rules[r].effect)
    THEN [kind |-> "volume", level |-> 0, hits |-> stream[r].hits]
    ELSE NoDrift

\* _worse_than_kept: a kept flag of the other kind carries no comparable figure.
AsBadAsKept(drift, kept) ==                   \* mutant: off by one
    CASE drift.kind # kept.kind -> TRUE
      [] drift.kind = "value"   -> drift.level >= kept.level
      [] OTHER                  -> drift.hits >= kept.hits
WorseThanKept(drift, kept) ==
    CASE drift.kind # kept.kind -> TRUE
      [] drift.kind = "value"   -> drift.level >= kept.level + 1
      [] OTHER                  -> drift.hits >= VolumeFactor * AtLeastOne(kept.hits)

\* The rules audit_suppressions flags: enough hits, no open flag, a drift, and after
\* a keep only one that is worse than the drift the owner accepted.
ToFlag == {r \in Suppressing :
             /\ stream[r].hits >= 1 /\ stream[r].hits >= MinHits
             /\ OpenFlag(r) = {}
             /\ DriftOf(r) # NoDrift
             /\ \A f \in LatestFlag(r) : \A a \in Resolution(r, f) :
                  decisions[a].kind = "approval" => WorseThanKept(DriftOf(r), decisions[a].drift)}

\* ORDER BY lr.id
Ascending(order) == \A i, j \in DOMAIN order : i < j => order[i] < order[j]

Audit ==
    \E order \in Orders(Due), flags \in Orders(ToFlag) :
      /\ Ascending(flags)
      /\ ExpireRules(order, [i \in DOMAIN flags |->
              Note("reactivation", "review", "valeri", flags[i], 0, DriftOf(flags[i]))])
      /\ UNCHANGED stream

\* keep_rule: the owner accepts the drift of the open flag.
Keep(r) ==
    /\ rules[r].status = "active"
    /\ \E f \in OpenFlag(r) :
         Log(<<Note("approval", "keep", "user", r, f, decisions[f].drift)>>)
    /\ UNCHANGED <<config, rules, stream>>

------------------------------------------------------------------------------
Init ==
    /\ config = Seed
    /\ rules = <<>>
    /\ stream = <<>>
    /\ decisions = <<>>

Next == \/ \E p \in Proposals : Propose(p)
        \/ \E p \in Proposals : ProposeRefused(p)
        \/ \E r \in RuleIds : Apply(r)
        \/ \E r \in RuleIds : Undo(r)
        \/ \E r \in RuleIds, kind \in NewScopes : EditScope(r, kind)
        \/ \E r \in RuleIds : SetExpiry(r)
        \/ \E r \in RuleIds : Keep(r)
        \/ \E k \in Thresholds, v \in Values : PatchConfig(k, v)
        \/ Scan
        \/ Audit

Spec == Init /\ [][Next]_vars
------------------------------------------------------------------------------
(* Properties.                                                               *)

Rule == [type : {"suppress", "threshold"}, kind : ScopeKinds,
         key : Thresholds \cup {NoThreshold}, value : Values, effect : Nat, based : BOOLEAN,
         status : {"pending_confirm", "active", "reverted", "expired"},
         autonomy : {"auto_applied", "confirmed"}, due : BOOLEAN]

\* The state is well formed: every table holds rows of its schema, and each learned
\* rule has its row of suppression figures.
TypeOK ==
    /\ config \in [Thresholds -> Values]
    /\ rules \in Seq(Rule)
    /\ stream \in Seq([hits : Nat, level : Nat])
    /\ Len(stream) = Len(rules)
    /\ decisions \in Seq(Decision)

IsApply(i, r) == decisions[i].form = "apply" /\ decisions[i].rule = r
IsClose(i, r) == decisions[i].form \in {"undo", "expired"} /\ decisions[i].rule = r

\* The value v is what a log says of threshold k before its entry n: written by the
\* last decision that changed k, or the seed if none did.
Explained(log, k, v, n) ==
    \/ v = Seed[k] /\ \A i \in DOMAIN log : i < n => log[i].key # k
    \/ \E i \in DOMAIN log : /\ i < n /\ log[i].key = k /\ log[i].new = v
                             /\ \A j \in DOMAIN log : i < j /\ j < n => log[j].key # k

\* "Every state change here writes an append-only, reversible app.decision": the value
\* in force of every threshold can be read off the decision log, whichever of apply,
\* undo, expiry (in any row order) and settings changed it last.
LogExplainsConfig == \A k \in Thresholds : Explained(decisions, k, config[k], Len(decisions) + 1)

\* "The old value preserved in the decision payload": the old value that an apply or a
\* settings change records is the one in force just before it, so the log is an unbroken
\* chain per threshold and no change is lost between two entries.
OldValuesChain ==
    \A i \in DecisionIds :
      decisions[i].form \in {"apply", "settings"} /\ decisions[i].key # NoThreshold
        => Explained(decisions, decisions[i].key, decisions[i].old, i)

\* A rule that the system applied although its threshold does not exist.
Stranded(rule) == /\ rule.type = "threshold" /\ rule.key \notin Thresholds
                  /\ rule.autonomy = "auto_applied"

StatusAgrees(r) ==
    /\ rules[r].status = "pending_confirm" => \A i \in DecisionIds : ~IsApply(i, r)
    /\ rules[r].status \in {"active", "expired"}
         => (Stranded(rules[r]) <=> \A i \in DecisionIds : ~IsApply(i, r))
    /\ \A i, j \in DecisionIds : IsApply(i, r) /\ IsApply(j, r) => i = j
    /\ rules[r].status \in {"reverted", "expired"} <=> \E i \in DecisionIds : IsClose(i, r)
    /\ \A i \in DecisionIds : IsClose(i, r) =>
         rules[r].status = IF decisions[i].form = "undo" THEN "reverted" ELSE "expired"

\* The status of a rule is what its decisions say: it waits for a human only without an
\* apply decision, it is in force with exactly one (with none exactly when a chat post
\* kept a refused threshold change), reverted or expired exactly when an undo or expiry
\* decision says so, and it was closed at most once.
StatusMatchesLog == \A r \in RuleIds : StatusAgrees(r)

\* "An undo is final; re-learning creates a new rule": nothing is ever decided about a
\* rule after the decision that reverted or expired it.
ClosingIsFinal ==
    \A i, j \in DecisionIds :
      decisions[i].form \in {"undo", "expired"} /\ j > i => decisions[j].rule # decisions[i].rule

\* The auditor "raises at most one open Na provjeri flag per rule": what the owner is shown
\* as unanswered is the one flag that a keep would answer, over all flags, keeps and edits.
AtMostOneOpenFlag == \A r \in RuleIds : OnReview(r) = OpenFlag(r)

\* A flag raised after a kept one reports the other kind of drift, or the same kind one
\* factor worse than what the owner accepted: a keep is not answered by the same alarm.
ReflagOnlyWhenWorse ==
    \A a, g \in DecisionIds :
      (decisions[a].form = "keep" /\ a < g /\ IsFlag(g, decisions[a].rule)
        /\ \A b \in DecisionIds : a < b /\ b < g => ~Resolves(b, decisions[a].rule))
      => LET accepted == decisions[a].drift
             flagged == decisions[g].drift
         IN \/ flagged.kind # accepted.kind
            \/ flagged.kind = "value" /\ flagged.level > accepted.level
            \/ flagged.kind = "volume" /\ flagged.hits >= VolumeFactor * accepted.hits

\* A closing i of a rule is nested when, on its threshold, everything applied after the
\* rule had been closed before it, and no administrator set the row in between.
Nested(i) ==
    LET r == decisions[i].rule
        k == decisions[i].key
    IN \A a \in DecisionIds : IsApply(a, r) =>
         \A j \in DecisionIds : (a < j /\ j < i /\ decisions[j].key = k) =>
            /\ decisions[j].form # "settings"
            /\ decisions[j].form = "apply"
                 => \E c \in DecisionIds : j < c /\ c < i /\ IsClose(c, decisions[j].rule)

\* The value in force of k was written by a rule that has since been closed.
DeadValueInForce(k) ==
    \A i \in DecisionIds :
      (decisions[i].key = k /\ \A j \in DecisionIds : j > i => decisions[j].key # k)
      => /\ decisions[i].form \in {"apply", "undo", "expired"}
         /\ config[k] # Seed[k]
         /\ \A j \in DecisionIds : decisions[j].form = "settings" /\ decisions[j].key = k
                                    => decisions[j].new # config[k]
         /\ \A r \in RuleIds : rules[r].status = "active" /\ rules[r].key = k
                                    => rules[r].value # config[k]

\* When the rules on a threshold are closed in the reverse order of their application,
\* undoing and expiring them leaves no reverted value behind: the value in force is the
\* seed's, an administrator's or that of a rule still active.
NestedUndoRestores ==
    \A k \in Thresholds :
      (/\ \E i \in DecisionIds : decisions[i].key = k
       /\ \A i \in DecisionIds : decisions[i].form \in {"undo", "expired"} /\ decisions[i].key = k
                                   => Nested(i))
      => ~DeadValueInForce(k)
=============================================================================
