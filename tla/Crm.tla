----------------------------------- MODULE Crm -----------------------------------
(***************************************************************************)
(* Sales opportunities (valeri_api/crm, api/opportunities.py) and the      *)
(* users who work on them (auth/deps.py, api/settings.py).  A patch reads  *)
(* the opportunity, decides from what it read whether the stage changes,   *)
(* and writes the columns that differ; another patch may commit in         *)
(* between.  The pipeline page is five queries, and each sees what is      *)
(* committed when it runs; what they weigh is rounded to cents one by one. *)
(* Values are in cents.                                                    *)
(***************************************************************************)
EXTENDS Integers, Sequences, FiniteSets, FiniteSetsExt

CONSTANTS
    Ids,          \* the keys of app.opportunity
    Users,        \* app.app_user
    Customers,    \* core.customer
    AssignedTo,   \* the current representative of each customer, by core.customer_rep
    Reps,         \* core.sales_rep
    Requests,     \* the requests that patch an opportunity or show the pipeline
    Bodies,       \* the bodies of requests: some columns and their values
    Defaults,     \* the probabilities of the stages that an administrator may set
    Parts,        \* how many parts a probability of 1 has: 10000 in the column
    MaxHistory,   \* bound on the stage changes of an opportunity
    None

OPEN_STAGES == {"lead", "qualified", "proposal", "negotiation"}
CLOSED_STAGES == {"won", "lost"}
ALL_STAGES == OPEN_STAGES \cup CLOSED_STAGES
Roles == {"owner", "sales_rep", "finance", "admin"}
Columns == {"stage", "value", "probability", "owner_rep_id"}
ColumnValues(column) ==
    CASE column = "stage" -> ALL_STAGES
      [] column = "value" -> Nat
      [] column = "probability" -> 0 .. Parts \cup {None}
      [] column = "owner_rep_id" -> Reps \cup {None}
Opportunity == [customer_id : Customers, stage : ALL_STAGES, value : Nat,
                probability : 0 .. Parts \cup {None}, owner_rep_id : Reps \cup {None}]

\* The schemas accept no other column, and a stage that is given is a stage.
ASSUME CrmAssumption ==
    /\ AssignedTo \in [Customers -> Reps \cup {None}]
    /\ None \notin Opportunity
    /\ \A body \in Bodies :
          DOMAIN body \subseteq Columns /\ \A c \in DOMAIN body : body[c] \in ColumnValues(c)
    /\ Defaults \subseteq [ALL_STAGES -> 0 .. Parts] /\ Defaults # {}
    /\ Parts \in Nat \ {0}
    /\ MaxHistory \in Nat \ {0}

VARIABLES
    users,         \* the role and the representative of each user
    defaults,      \* stage_probability of app.rule_config
    opportunity,   \* app.opportunity, committed
    history,       \* app.opportunity_stage_history: the stage, and how many rows there were
                   \* when the request that wrote it read the opportunity
    req            \* the requests

vars == <<users, defaults, opportunity, history, req>>

Fresh(pc, scope, on, loaded, seen) ==
    [pc |-> pc, scope |-> scope, on |-> on, loaded |-> loaded, seen |-> seen, got |-> <<>>]
Idle == Fresh("idle", {}, None, None, 0)

\* A page that is being read when something is committed shows figures of two moments: the
\* queries that are left notice nothing, and their answers are not followed any further.
Torn == [r \in Requests |->
            IF req[r].pc = "viewing" THEN Fresh("torn", {}, None, None, 0) ELSE req[r]]

------------------------------------------------------------------------------
(* Who may do what.                                                          *)

\* visible_customer_ids: a representative sees the customers that are assigned to it, and
\* none if the user is linked to no representative.
Visible(u) ==
    IF users[u].role # "sales_rep" THEN Customers
    ELSE {c \in Customers : AssignedTo[c] # None /\ AssignedTo[c] = users[u].rep}

IsWriter(u) == users[u].role \in {"owner", "admin", "sales_rep"}

\* update_user: what is not given is kept, so a representative is never unlinked.
UpdateUser(admin, u, role, rep) ==
    /\ users[admin].role = "admin"
    /\ users' = [users EXCEPT ![u] = [role |-> IF role = None THEN @.role ELSE role,
                                      rep |-> IF rep = None THEN @.rep ELSE rep]]
    /\ UNCHANGED <<defaults, opportunity, history, req>>

\* patch_rule_config of the rule crm
SetDefaults(u, probabilities) ==
    /\ users[u].role = "admin"
    /\ defaults' = probabilities
    /\ req' = Torn
    /\ UNCHANGED <<users, opportunity, history>>

------------------------------------------------------------------------------
(* Writing.                                                                  *)

Given(body, column, default) == IF column \in DOMAIN body THEN body[column] ELSE default

\* create_opportunity: the row and its first history row.  What a representative creates is
\* its own.
Create(o, u, c, body) ==
    /\ opportunity[o] = None
    /\ IsWriter(u) /\ c \in Visible(u)
    /\ LET stage == Given(body, "stage", "lead")
           owner == IF users[u].role = "sales_rep" THEN users[u].rep
                    ELSE Given(body, "owner_rep_id", None)
       IN  /\ opportunity' = [opportunity EXCEPT ![o] =
                 [customer_id |-> c, stage |-> stage, value |-> Given(body, "value", 0),
                  probability |-> Given(body, "probability", None), owner_rep_id |-> owner]]
           /\ history' = [history EXCEPT ![o] = <<[stage |-> stage, seen |-> 0]>>]
    /\ req' = Torn
    /\ UNCHANGED <<users, defaults>>

\* PATCH reads the opportunity and checks its customer.
Open(r, u, o) ==
    /\ req[r].pc = "idle"
    /\ opportunity[o] # None
    /\ IsWriter(u) /\ opportunity[o].customer_id \in Visible(u)
    /\ req' = [req EXCEPT ![r] =
                  Fresh("patching", {}, o, opportunity[o], Len(history[o]))]
    /\ UNCHANGED <<users, defaults, opportunity, history>>

\* update_opportunity and the commit.  Whether the stage changes is a question to the row that
\* was read, and a column is written only if it differs from it.
Unconditionally(r, body) == "stage" \in DOMAIN body     \* mutant: a given stage is a change
StageChanges(r, body) == "stage" \in DOMAIN body /\ body["stage"] # req[r].loaded.stage

Overwritten(r, body, now) ==                            \* mutant: the whole row is written
    [column \in DOMAIN now |-> Given(body, column, req[r].loaded[column])]
Merged(r, body, now) ==
    [column \in DOMAIN now |->
        IF column \in DOMAIN body /\ body[column] # req[r].loaded[column]
        THEN body[column] ELSE now[column]]

Patch(r, body) ==
    /\ req[r].pc = "patching"
    /\ LET o == req[r].on
       IN  /\ Len(history[o]) < MaxHistory
           /\ opportunity' = [opportunity EXCEPT ![o] = Merged(r, body, @)]
           /\ history' = IF StageChanges(r, body)
                         THEN [history EXCEPT ![o] =
                                 Append(@, [stage |-> body["stage"], seen |-> req[r].seen])]
                         ELSE history
    /\ req' = [Torn EXCEPT ![r] = Idle]
    /\ UNCHANGED <<users, defaults>>

------------------------------------------------------------------------------
(* The pipeline.                                                             *)

InScope(scope) == {o \in Ids : opportunity[o] # None /\ opportunity[o].customer_id \in scope}
At(scope, stages) == {o \in InScope(scope) : opportunity[o].stage \in stages}

\* COALESCE(o.probability, the default of its stage)
Effective(o) == IF opportunity[o].probability = None THEN defaults[opportunity[o].stage]
                                                     ELSE opportunity[o].probability
Weighted(rows) == MapThenSumSet(LAMBDA o : opportunity[o].value * Effective(o), rows)

\* ::numeric(14,2) rounds a weighted sum to whole cents, half of one upwards.
Cents(sum) == (2 * sum + Parts) \div (2 * Parts)

WonOnly(stages) == stages \cap {"won"}                  \* mutant: closed without the lost
Closed(stages) == stages \cap CLOSED_STAGES

\* The five queries: the columns' figures, the cards, the weighted total, the conversion and
\* the open count.
Figures(scope) == [s \in ALL_STAGES |-> [count |-> Cardinality(At(scope, {s})),
                                          weighted |-> Cents(Weighted(At(scope, {s})))]]
Cards(scope) == [s \in ALL_STAGES |-> At(scope, {s})]
Conversion(scope) == [won |-> Cardinality(At(scope, {"won"})),
                      closed |-> Cardinality(At(scope, Closed(ALL_STAGES)))]
Answer(n, scope) ==
    CASE n = 1 -> Figures(scope)
      [] n = 2 -> Cards(scope)
      [] n = 3 -> Cents(Weighted(At(scope, OPEN_STAGES)))
      [] n = 4 -> Conversion(scope)
      [] n = 5 -> Cardinality(At(scope, OPEN_STAGES))

View(r, u) ==
    /\ req[r].pc = "idle"
    /\ req' = [req EXCEPT ![r] = Fresh("viewing", Visible(u), None, None, 0)]
    /\ UNCHANGED <<users, defaults, opportunity, history>>

Query(r) ==
    /\ req[r].pc = "viewing"
    /\ Len(req[r].got) < 5
    /\ req' = [req EXCEPT ![r].got = Append(@, Answer(Len(@) + 1, req[r].scope))]
    /\ UNCHANGED <<users, defaults, opportunity, history>>

Respond(r) ==
    /\ req[r].pc = "torn" \/ Len(req[r].got) = 5
    /\ req' = [req EXCEPT ![r] = Idle]
    /\ UNCHANGED <<users, defaults, opportunity, history>>

------------------------------------------------------------------------------

Init ==
    /\ users \in [Users -> [role : Roles, rep : Reps \cup {None}]]
    /\ defaults \in Defaults
    /\ opportunity = [o \in Ids |-> None]
    /\ history = [o \in Ids |-> <<>>]
    /\ req = [r \in Requests |-> Idle]

Next ==
    \/ \E admin, u \in Users, role \in Roles \cup {None}, rep \in Reps \cup {None} :
          UpdateUser(admin, u, role, rep)
    \/ \E u \in Users, probabilities \in Defaults : SetDefaults(u, probabilities)
    \/ \E o \in Ids, u \in Users, c \in Customers, body \in Bodies : Create(o, u, c, body)
    \/ \E r \in Requests, u \in Users, o \in Ids : Open(r, u, o)
    \/ \E r \in Requests, body \in Bodies : Patch(r, body)
    \/ \E r \in Requests, u \in Users : View(r, u)
    \/ \E r \in Requests : Query(r) \/ Respond(r)

Spec == Init /\ [][Next]_vars

------------------------------------------------------------------------------
(* Properties.                                                               *)

\* The tables hold rows of their schema; a request that patches has read an opportunity.
TypeOK ==
    /\ users \in [Users -> [role : Roles, rep : Reps \cup {None}]]
    /\ defaults \in Defaults
    /\ opportunity \in [Ids -> Opportunity \cup {None}]
    /\ history \in [Ids -> Seq([stage : ALL_STAGES, seen : Nat])]
    /\ req = [r \in Requests |-> [pc |-> req[r].pc, scope |-> req[r].scope, on |-> req[r].on,
                                  loaded |-> req[r].loaded, seen |-> req[r].seen,
                                  got |-> req[r].got]]
    /\ \A r \in Requests :
          req[r].pc = "patching" =>
            req[r].on \in Ids /\ req[r].loaded \in Opportunity /\ req[r].seen \in Nat

\* What a patch has read is the stage that the history had come to when it read it.
PatchesReadTheHistory ==
    \A r \in Requests : req[r].pc = "patching" =>
        LET o == req[r].on
        IN  /\ opportunity[o] # None
            /\ req[r].seen \in 1 .. Len(history[o])
            /\ req[r].loaded.stage = history[o][req[r].seen].stage

\* The newest row of an opportunity's history is the stage it is in, however patches overlap:
\* what one of them overwrites is in the history as well (service.py:253-262).
HistoryEndsAtStage ==
    \A o \in Ids : opportunity[o] # None =>
        /\ history[o] # <<>>
        /\ opportunity[o].stage = history[o][Len(history[o])].stage

\* Two rows in a row have the same stage only if the request that wrote the second had read
\* the opportunity before the first was written.
RepeatsNeedOverlap ==
    \A o \in Ids : \A k \in 2 .. Len(history[o]) :
        history[o][k].stage = history[o][k - 1].stage => history[o][k].seen < k - 1

\* The figures of a page under which nothing was committed agree, in any scope and for any
\* defaults (service.py:101-171): the columns count their cards and add up to the open count
\* and the conversion; their weighted values, each rounded for itself (service.py:112-113,136),
\* miss the weighted total by two cents at most.
PipelineAgrees ==
    \A r \in Requests : Len(req[r].got) = 5 =>
        LET columns == req[r].got[1]
            cards == req[r].got[2]
            Sum(Figure(_)) == MapThenSumSet(Figure, OPEN_STAGES)
        IN  /\ \A s \in ALL_STAGES : columns[s].count = Cardinality(cards[s])
            /\ Sum(LAMBDA s : columns[s].weighted) - req[r].got[3] \in -2 .. 2
            /\ req[r].got[4] = [won |-> columns["won"].count,
                                closed |-> columns["won"].count + columns["lost"].count]
            /\ req[r].got[5] = Sum(LAMBDA s : columns[s].count)
=============================================================================
